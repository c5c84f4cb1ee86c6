-------------------------- MODULE MouseTracker_proofs --------------------------
(***************************************************************************)
(* Contacts are counted, the listeners go away and lost touches are        *)
(* dropped, for any number of fingers, in whatever order events come.      *)
(***************************************************************************)
EXTENDS MouseTracker, FiniteSetTheorems, SequenceTheorems, WellFoundedInduction, TLAPS

-----------------------------------------------------------------------------
(* Sequences of points *)

\* No point twice.
Distinct(s) == \A i, j \in 1..Len(s) : s[i] = s[j] => i = j

LEMMA RemovedAt ==
  ASSUME NEW S, NEW s \in Seq(S), NEW p \in 1..Len(s)
  PROVE  /\ RemoveAt(s, p) \in Seq(S) /\ Len(RemoveAt(s, p)) = Len(s) - 1
         /\ \A i \in 1..Len(s) - 1 :
              RemoveAt(s, p)[i] = IF i < p THEN s[i] ELSE s[i + 1]
<1> DEFINE a == SubSeq(s, 1, p - 1)
           b == SubSeq(s, p + 1, Len(s))
<1>1. a \in Seq(S) /\ Len(a) = p - 1 /\ \A i \in 1..p - 1 : a[i] = s[i]
  BY SubSeqProperties, ElementOfSeq
<1>2. b \in Seq(S) /\ Len(b) = Len(s) - p /\ \A i \in 1..(Len(s) - p) : b[i] = s[p + i]
  BY SubSeqProperties, ElementOfSeq
<1> HIDE DEF a, b
<1>3. /\ a \o b \in Seq(S) /\ Len(a \o b) = Len(s) - 1
      /\ \A i \in 1..Len(s) - 1 : (a \o b)[i] = IF i <= p - 1 THEN a[i] ELSE b[i - (p - 1)]
  BY <1>1, <1>2, ConcatProperties
<1>4. \A i \in 1..Len(s) - 1 : (a \o b)[i] = IF i < p THEN s[i] ELSE s[i + 1]
  BY <1>1, <1>2, <1>3
<1> QED BY <1>3, <1>4 DEF RemoveAt, a, b

LEMMA SetOfList ==
  ASSUME NEW S, NEW s \in Seq(S), NEW x
  PROVE  x \in ToSet(s) <=> \E i \in 1..Len(s) : s[i] = x
BY DEF ToSet

\* Removing a point takes its one place away, or nothing.
LEMMA DroppedFrom ==
  ASSUME NEW S, NEW s \in Seq(S), Distinct(s), NEW k
  PROVE  \/ k \notin ToSet(s) /\ RemoveFirst(s, k) = s
         \/ \E p \in 1..Len(s) : s[p] = k /\ RemoveFirst(s, k) = RemoveAt(s, p)
<1>1. CASE \A i \in 1..Len(s) : s[i] # k
  <2>1. RemoveFirst(s, k) = s
    BY <1>1 DEF RemoveFirst
  <2>2. k \notin ToSet(s)
    BY <1>1, SetOfList
  <2> QED BY <2>1, <2>2
<1>2. ASSUME NEW p \in 1..Len(s), s[p] = k PROVE RemoveFirst(s, k) = RemoveAt(s, p)
  <2>1. SelectInSeq(s, LAMBDA v : v = k) = p
    BY <1>2 DEF SelectInSeq, Min, Distinct
  <2> QED BY <1>2, <2>1 DEF RemoveFirst
<1> QED BY <1>1, <1>2

LEMMA PointRemoved ==
  ASSUME NEW S, NEW s \in Seq(S), Distinct(s), NEW k
  PROVE  /\ RemoveFirst(s, k) \in Seq(S) /\ Distinct(RemoveFirst(s, k))
         /\ ToSet(RemoveFirst(s, k)) = ToSet(s) \ {k}
<1> DEFINE r == RemoveFirst(s, k)
<1>1. CASE k \notin ToSet(s) /\ r = s
  BY <1>1
<1>2. ASSUME NEW p \in 1..Len(s), s[p] = k, r = RemoveAt(s, p)
      PROVE  r \in Seq(S) /\ Distinct(r) /\ ToSet(r) = ToSet(s) \ {k}
  <2> HIDE DEF r
  <2>1. /\ r \in Seq(S) /\ Len(r) = Len(s) - 1
        /\ \A i \in 1..Len(s) - 1 : r[i] = IF i < p THEN s[i] ELSE s[i + 1]
    BY <1>2, RemovedAt
  <2>2. Distinct(r)
    <3> SUFFICES ASSUME NEW i \in 1..Len(r), NEW j \in 1..Len(r), r[i] = r[j]
                 PROVE  i = j
      BY DEF Distinct
    <3> DEFINE At(x) == IF x < p THEN x ELSE x + 1
    <3>1. /\ At(i) \in 1..Len(s) /\ At(j) \in 1..Len(s)
          /\ i \in 1..Len(s) - 1 /\ j \in 1..Len(s) - 1
      BY <2>1, LenProperties
    <3>2. s[At(i)] = s[At(j)]
      BY <2>1, <3>1
    <3>3. At(i) = At(j)
      <4> HIDE DEF At
      <4> QED BY <3>1, <3>2 DEF Distinct
    <3> QED BY <3>1, <3>3
  <2>3. \A i \in 1..Len(r) : r[i] # k
    BY <1>2, <2>1 DEF Distinct
  <2>4. ASSUME NEW i \in 1..Len(s), s[i] # k PROVE \E j \in 1..Len(r) : r[j] = s[i]
    <3>1. CASE i < p
      BY <2>1, <3>1
    <3>2. CASE i > p
      <4>1. i - 1 \in 1..Len(s) - 1 /\ ~ (i - 1 < p) /\ (i - 1) + 1 = i
        BY <3>2
      <4> QED BY <2>1, <4>1
    <3> QED BY <1>2, <2>4, <3>1, <3>2
  <2>5. \A j \in 1..Len(r) : \E i \in 1..Len(s) : s[i] = r[j]
    BY <2>1
  <2>6. ASSUME NEW x PROVE x \in ToSet(r) <=> x \in ToSet(s) /\ x # k
    <3>1. x \in ToSet(r) <=> \E j \in 1..Len(r) : r[j] = x
      BY <2>1, SetOfList
    <3>2. x \in ToSet(s) <=> \E i \in 1..Len(s) : s[i] = x
      BY SetOfList
    <3> QED BY <2>3, <2>4, <2>5, <3>1, <3>2
  <2> QED BY <2>1, <2>2, <2>6
<1> QED BY <1>1, <1>2, DroppedFrom

LEMMA PointAdded ==
  ASSUME NEW S, NEW s \in Seq(S), Distinct(s), NEW k \in S, k \notin ToSet(s)
  PROVE  /\ Append(s, k) \in Seq(S) /\ Distinct(Append(s, k))
         /\ ToSet(Append(s, k)) = ToSet(s) \cup {k}
<1>1. /\ Append(s, k) \in Seq(S) /\ Len(Append(s, k)) = Len(s) + 1 /\ Len(s) \in Nat
      /\ \A i \in 1..Len(s) : Append(s, k)[i] = s[i]
      /\ Append(s, k)[Len(s) + 1] = k
  BY AppendProperties
<1>2. \A i \in 1..Len(s) : s[i] # k
  BY SetOfList
<1>3. Distinct(Append(s, k))
  BY <1>1, <1>2 DEF Distinct
<1>4. ToSet(Append(s, k)) = ToSet(s) \cup {k}
  BY <1>1 DEF ToSet
<1> QED BY <1>1, <1>3, <1>4

LEMMA ListLength ==
  ASSUME NEW S, NEW s \in Seq(S), Distinct(s)
  PROVE  IsFiniteSet(ToSet(s)) /\ Cardinality(ToSet(s)) = Len(s) /\ Len(s) \in Nat
<1> DEFINE T == ToSet(s)
<1>1. Len(s) \in Nat /\ s \in [1..Len(s) -> T]
  BY LenProperties, SetOfList
<1>2. s \in Bijection(1..Len(s), T)
  <2>1. s \in Injection(1..Len(s), T)
    BY <1>1 DEF Injection, IsInjective, Distinct
  <2>2. s \in Surjection(1..Len(s), T)
    BY <1>1, SetOfList DEF Surjection
  <2> QED BY <2>1, <2>2 DEF Bijection
<1>3. ExistsBijection(1..Len(s), T)
  BY <1>2 DEF ExistsBijection
<1> QED BY <1>1, <1>3, FS_CountingElements, FS_NatBijection

-----------------------------------------------------------------------------
(* Folds *)

\* A set of numbers that is not empty has a least one.
LEMMA LeastNumber ==
  ASSUME NEW T, T \subseteq Nat, T # {}
  PROVE  \E n \in T : \A m \in T : n <= m
<1> DEFINE Upto == {0..n : n \in T}
<1>1. Upto # {} /\ Upto \subseteq FiniteSubsetsOf(Nat)
  <2>1. \A n \in T : 0..n \subseteq Nat /\ IsFiniteSet(0..n)
    BY FS_Interval
  <2> QED BY <2>1 DEF FiniteSubsetsOf
<1>2. PICK s \in Upto : \A r \in Upto : ~ (<<r, s>> \in StrictSubsetOrdering(Nat))
  <2> HIDE DEF Upto
  <2> QED BY <1>1, FS_StrictSubsetOrderingWellFounded, WFMin
<1>3. PICK n \in T : s = 0..n
  OBVIOUS
<1>4. SUFFICES ASSUME NEW m \in T, m < n PROVE FALSE
  BY <1>3
<1>5. 0..m \subseteq Nat /\ 0..n \subseteq Nat /\ 0..m \subseteq 0..n /\ n \in 0..n /\ n \notin 0..m
  BY <1>4
<1>6. <<0..m, 0..n>> \in StrictSubsetOrdering(Nat)
  BY <1>5 DEF StrictSubsetOrdering
<1> QED BY <1>2, <1>3, <1>6

\* A set of numbers that goes on from 0 holds them all.
LEMMA AllNumbers ==
  ASSUME NEW T, 0 \in T, \A n \in Nat : n \in T => n + 1 \in T
  PROVE  \A n \in Nat : n \in T
<1> SUFFICES ASSUME NEW k \in Nat, k \notin T PROVE FALSE
  OBVIOUS
<1>1. PICK n \in Nat \ T : \A m \in Nat \ T : n <= m
  BY LeastNumber
<1>2. n # 0
  OBVIOUS
<1>3. n - 1 \in Nat /\ n - 1 \in T
  BY <1>1, <1>2
<1> QED BY <1>3

\* A set of numbers up to n that is not empty has a greatest one.
LEMMA GreatestNumber ==
  ASSUME NEW n \in Nat, NEW s, s \subseteq 1..n, s # {}
  PROVE  Max(s) \in s /\ \A i \in s : i <= Max(s)
<1> DEFINE T == {n - i : i \in s}
<1>0. \A i \in s : i \in Nat /\ i <= n
  OBVIOUS
<1>1. T \subseteq Nat /\ T # {}
  <2>1. \A i \in s : n - i \in Nat
    BY <1>0
  <2>2. T # {}
    OBVIOUS
  <2> QED BY <2>1, <2>2
<1>2. PICK m \in T : \A j \in T : m <= j
  <2> HIDE DEF T
  <2> QED BY <1>1, LeastNumber
<1>3. PICK k \in s : m = n - k
  OBVIOUS
<1>4. \A i \in s : n - k <= n - i
  BY <1>2, <1>3
<1>5. \A i \in s : k >= i
  BY <1>0, <1>4
<1>6. Max(s) \in s /\ \A i \in s : Max(s) >= i
  BY <1>5 DEF Max
<1> QED BY <1>0, <1>6

Foldable(S, step, base, ps) ==
  \E g \in [SUBSET (1..Len(ps)) -> S] : \A s \in SUBSET (1..Len(ps)) :
    g[s] = IF s = {} THEN base ELSE step[<<g[s \ {Max(s)}], ps[Max(s)]>>]

\* r is the last of the results of the steps, one for each point.
Stepwise(S, step, base, ps, r) ==
  \E f \in [0..Len(ps) -> S] :
    /\ f[0] = base /\ f[Len(ps)] = r
    /\ \A k \in 1..Len(ps) : f[k] = step[<<f[k - 1], ps[k]>>]

\* The folds of the library choose the elements of a set of places from the last: what
\* they choose exists, as every step has a result.
LEMMA FoldExists ==
  ASSUME NEW S, NEW P, NEW step \in [S \X P -> S], NEW base \in S, NEW ps \in Seq(P)
  PROVE  Foldable(S, step, base, ps)
<1> DEFINE Good(k, g) == \A s \in SUBSET (1..k) :
             g[s] = IF s = {} THEN base ELSE step[<<g[s \ {Max(s)}], ps[Max(s)]>>]
           HasGood(k) == \E g \in [SUBSET (1..k) -> S] : Good(k, g)
           T == {k \in Nat : k <= Len(ps) => HasGood(k)}
<1>0. Len(ps) \in Nat /\ \A i \in 1..Len(ps) : ps[i] \in P
  BY LenProperties, ElementOfSeq
<1> HIDE DEF Good, HasGood
<1>1. 0 \in T
  <2> DEFINE g == [s \in SUBSET (1..0) |-> base]
  <2>1. g \in [SUBSET (1..0) -> S] /\ \A s \in SUBSET (1..0) : s = {} /\ g[s] = base
    OBVIOUS
  <2>2. Good(0, g)
    BY <2>1 DEF Good
  <2>3. HasGood(0)
    <3> HIDE DEF g
    <3> QED BY <2>1, <2>2 DEF HasGood
  <2> QED BY <2>3
<1>2. ASSUME NEW k \in Nat, k \in T PROVE k + 1 \in T
  <2>1. SUFFICES ASSUME k + 1 <= Len(ps) PROVE HasGood(k + 1)
    OBVIOUS
  <2>2. PICK g \in [SUBSET (1..k) -> S] : Good(k, g)
    <3>1. HasGood(k)
      BY <1>0, <1>2, <2>1
    <3> QED BY <3>1 DEF HasGood
  <2> DEFINE h == [s \in SUBSET (1..(k + 1)) |->
                     IF k + 1 \in s THEN step[<<g[s \ {k + 1}], ps[k + 1]>>] ELSE g[s]]
  <2>3. \A s \in SUBSET (1..(k + 1)) : s \ {k + 1} \in SUBSET (1..k)
    OBVIOUS
  <2>4. \A s \in SUBSET (1..(k + 1)) : k + 1 \notin s => s \in SUBSET (1..k)
    OBVIOUS
  <2>5. h \in [SUBSET (1..(k + 1)) -> S]
    <3>1. ASSUME NEW s \in SUBSET (1..(k + 1))
          PROVE  (IF k + 1 \in s THEN step[<<g[s \ {k + 1}], ps[k + 1]>>] ELSE g[s]) \in S
      <4>1. CASE k + 1 \in s
        <5>1. g[s \ {k + 1}] \in S /\ ps[k + 1] \in P
          BY <1>0, <2>1, <2>2, <2>3
        <5> QED BY <4>1, <5>1
      <4>2. CASE k + 1 \notin s
        BY <2>2, <2>4, <4>2
      <4> QED BY <4>1, <4>2
    <3> QED BY <3>1
  <2>g. \A s \in SUBSET (1..k) :
          g[s] = IF s = {} THEN base ELSE step[<<g[s \ {Max(s)}], ps[Max(s)]>>]
    BY <2>2 DEF Good
  <2>6. ASSUME NEW s \in SUBSET (1..(k + 1))
        PROVE  h[s] = IF s = {} THEN base ELSE step[<<h[s \ {Max(s)}], ps[Max(s)]>>]
    <3>1. CASE k + 1 \in s
      <4>1. Max(s) \in s /\ (\A i \in s : i <= Max(s))
        <5>1. k + 1 \in Nat /\ s \subseteq 1..(k + 1) /\ s # {}
          BY <3>1
        <5> QED BY <5>1, GreatestNumber
      <4>2. Max(s) = k + 1
        <5>1. \A i \in s : i \in Nat /\ i <= k + 1
          OBVIOUS
        <5>2. Max(s) \in Nat /\ Max(s) <= k + 1 /\ k + 1 <= Max(s)
          BY <3>1, <4>1, <5>1
        <5> QED BY <5>2
      <4>3. h[s \ {k + 1}] = g[s \ {k + 1}]
        BY <2>3
      <4>4. h[s] = step[<<g[s \ {k + 1}], ps[k + 1]>>]
        BY <3>1
      <4> HIDE DEF h
      <4> QED BY <3>1, <4>2, <4>3, <4>4
    <3>2. CASE k + 1 \notin s
      <4>1. s \in SUBSET (1..k) /\ h[s] = g[s]
        BY <2>4, <3>2
      <4>2. s \ {Max(s)} \in SUBSET (1..(k + 1)) /\ k + 1 \notin s \ {Max(s)}
        BY <3>2
      <4>3. h[s \ {Max(s)}] = g[s \ {Max(s)}]
        BY <4>2
      <4> HIDE DEF h
      <4> QED BY <2>g, <4>1, <4>3
    <3> QED BY <3>1, <3>2
  <2>7. Good(k + 1, h)
    <3> HIDE DEF h
    <3> QED BY <2>6 DEF Good
  <2> HIDE DEF h
  <2> QED BY <2>5, <2>7 DEF HasGood
<1>3. \A k \in Nat : k \in T
  <2> HIDE DEF T
  <2> QED BY <1>1, <1>2, AllNumbers
<1>4. HasGood(Len(ps))
  BY <1>0, <1>3
<1> QED BY <1>4 DEF Good, HasGood, Foldable

LEMMA UpToNumber ==
  ASSUME NEW k \in Nat \ {0}
  PROVE  Max(1..k) = k /\ (1..k) \ {k} = 1..(k - 1)
<1>1. k \in 1..k /\ 1..k \subseteq 1..k
  OBVIOUS
<1>2. Max(1..k) \in 1..k /\ k <= Max(1..k)
  BY <1>1, GreatestNumber
<1> QED BY <1>2

\* What they choose for the places up to k is the result of the first k steps.
LEMMA FoldSteps ==
  ASSUME NEW S, NEW P, NEW step \in [S \X P -> S], NEW base \in S, NEW ps \in Seq(P),
         NEW iter, iter[1..0] = base,
         \A k \in 1..Len(ps) : iter[1..(k - 1)] \in S =>
           iter[1..k] = step[<<iter[1..(k - 1)], ps[k]>>]
  PROVE  Stepwise(S, step, base, ps, iter[1..Len(ps)])
<1> DEFINE T == {k \in Nat : k <= Len(ps) => iter[1..k] \in S}
<1>1. Len(ps) \in Nat /\ \A i \in 1..Len(ps) : ps[i] \in P
  BY LenProperties, ElementOfSeq
<1>2. 0 \in T
  OBVIOUS
<1>3. ASSUME NEW k \in Nat, k \in T PROVE k + 1 \in T
  <2>1. SUFFICES ASSUME k + 1 <= Len(ps) PROVE iter[1..(k + 1)] \in S
    OBVIOUS
  <2>2. k + 1 \in 1..Len(ps) /\ (k + 1) - 1 = k
    BY <1>1, <2>1
  <2>3. iter[1..k] \in S
    BY <1>1, <1>3, <2>1
  <2>4. iter[1..(k + 1)] = step[<<iter[1..k], ps[k + 1]>>]
    BY <2>2, <2>3
  <2> QED BY <1>1, <2>2, <2>3, <2>4
<1>4. \A k \in Nat : k \in T
  <2> HIDE DEF T
  <2> QED BY <1>2, <1>3, AllNumbers
<1> DEFINE f == [k \in 0..Len(ps) |-> iter[1..k]]
<1>5. f \in [0..Len(ps) -> S]
  BY <1>4
<1>6. f[0] = base /\ f[Len(ps)] = iter[1..Len(ps)]
  BY <1>1
<1>7. \A k \in 1..Len(ps) : f[k] = step[<<f[k - 1], ps[k]>>]
  BY <1>1, <1>4
<1> HIDE DEF f
<1> QED BY <1>5, <1>6, <1>7 DEF Stepwise

-----------------------------------------------------------------------------
(* The list of pointers *)

Lists ==
  [points : Seq(Pointers), captured : SUBSET Pointers, inside : SUBSET Pointers,
   placed : SUBSET Pointers, contacts : Int, captureCount : Int, listening : BOOLEAN,
   pinch : Seq(Pointers), timed : [Pointers -> Nat],
   pressed : BOOLEAN, release : BOOLEAN, wasCaptured : BOOLEAN, failed : BOOLEAN]

\* No point is listed twice, and what is said of points is said of listed ones.
Sound == {l \in Lists : /\ Distinct(l.points)
                        /\ l.captured \cup l.inside \cup l.placed \subseteq Tracked(l)}

SameCounts(l, m) == m.contacts = l.contacts /\ m.timed = l.timed /\ m.pressed = l.pressed
SameCapture(l, m) == m.captureCount = l.captureCount /\ m.listening = l.listening
SameLocals(l, m) ==
  m.release = l.release /\ m.wasCaptured = l.wasCaptured /\ m.failed = l.failed

LEMMA TrackingStarts ==
  ASSUME NEW l \in Sound, NEW p \in Pointers
  PROVE  LET m == StartTracking(l, p)
         IN /\ m \in Sound /\ Tracked(m) = Tracked(l) \cup {p}
            /\ m.captured = l.captured /\ m.inside = l.inside /\ m.placed = l.placed \cup {p}
            /\ m.pinch = l.pinch
            /\ SameCounts(l, m) /\ SameCapture(l, m) /\ SameLocals(l, m)
<1> DEFINE m == StartTracking(l, p)
           points == IF p \in Tracked(l) THEN l.points ELSE Append(l.points, p)
<1>1. l \in Lists /\ Distinct(l.points) /\ l.points \in Seq(Pointers)
      /\ l.captured \cup l.inside \cup l.placed \subseteq ToSet(l.points)
  BY DEF Sound, Lists, Tracked
<1>2. m = [l EXCEPT !.points = points, !.placed = @ \cup {p}]
  BY <1>1 DEF StartTracking, Lists
<1>3. points \in Seq(Pointers) /\ Distinct(points) /\ ToSet(points) = ToSet(l.points) \cup {p}
  BY <1>1, PointAdded DEF Tracked
<1> HIDE DEF points, m
<1>4. /\ m \in Lists /\ m.points = points
      /\ m.captured = l.captured /\ m.inside = l.inside /\ m.placed = l.placed \cup {p}
      /\ m.pinch = l.pinch
      /\ SameCounts(l, m) /\ SameCapture(l, m) /\ SameLocals(l, m)
  BY <1>1, <1>2, <1>3 DEF Lists, SameCounts, SameCapture, SameLocals
<1>5. m \in Sound /\ Tracked(m) = Tracked(l) \cup {p}
  BY <1>1, <1>3, <1>4 DEF Sound, Tracked
<1> QED BY <1>4, <1>5 DEF m

LEMMA TrackingStops ==
  ASSUME NEW l \in Sound, NEW p \in Pointers
  PROVE  LET m == StopTracking(l, p)
         IN /\ m \in Sound /\ Tracked(m) = Tracked(l) \ {p}
            /\ m.captured = l.captured \ {p} /\ m.inside = l.inside \ {p}
            /\ m.placed = l.placed \ {p}
            /\ SameCounts(l, m) /\ SameCapture(l, m) /\ SameLocals(l, m)
<1> DEFINE m == StopTracking(l, p)
           points == RemoveFirst(l.points, p)
<1>1. l \in Lists /\ Distinct(l.points) /\ l.points \in Seq(Pointers)
      /\ l.captured \cup l.inside \cup l.placed \subseteq ToSet(l.points)
  BY DEF Sound, Lists, Tracked
<1>2. m = [l EXCEPT !.points = points, !.captured = @ \ {p}, !.inside = @ \ {p},
                    !.placed = @ \ {p}]
  BY DEF StopTracking
<1>3. points \in Seq(Pointers) /\ Distinct(points) /\ ToSet(points) = ToSet(l.points) \ {p}
  BY <1>1, PointRemoved
<1> HIDE DEF points, m
<1>4. /\ m \in Lists /\ m.points = points
      /\ m.captured = l.captured \ {p} /\ m.inside = l.inside \ {p} /\ m.placed = l.placed \ {p}
      /\ SameCounts(l, m) /\ SameCapture(l, m) /\ SameLocals(l, m)
  BY <1>1, <1>2, <1>3 DEF Lists, SameCounts, SameCapture, SameLocals
<1>5. m \in Sound /\ Tracked(m) = Tracked(l) \ {p}
  BY <1>1, <1>3, <1>4 DEF Sound, Tracked
<1> QED BY <1>4, <1>5 DEF m

LEMMA PointEnters ==
  ASSUME NEW l \in Sound, NEW p \in Pointers
  PROVE  LET m == EnterPoint(l, p)
         IN /\ m \in Sound /\ Tracked(m) = Tracked(l) \cup {p}
            /\ m.captured = l.captured /\ m.inside = l.inside \cup {p}
            /\ m.placed = l.placed \cup {p}
            /\ SameCounts(l, m) /\ SameCapture(l, m) /\ SameLocals(l, m)
<1> DEFINE t == StartTracking(l, p)
           m == EnterPoint(l, p)
<1>1. /\ t \in Sound /\ Tracked(t) = Tracked(l) \cup {p}
      /\ t.captured = l.captured /\ t.inside = l.inside /\ t.placed = l.placed \cup {p}
      /\ SameCounts(l, t) /\ SameCapture(l, t) /\ SameLocals(l, t)
  BY TrackingStarts
<1>2. m = [t EXCEPT !.inside = @ \cup {p}]
  BY DEF EnterPoint
<1> HIDE DEF t, m
<1>3. /\ m \in Lists /\ m.points = t.points
      /\ m.captured = t.captured /\ m.inside = t.inside \cup {p} /\ m.placed = t.placed
      /\ SameCounts(t, m) /\ SameCapture(t, m) /\ SameLocals(t, m)
  BY <1>1, <1>2 DEF Sound, Lists, SameCounts, SameCapture, SameLocals
<1>4. m \in Sound /\ Tracked(m) = Tracked(t)
  BY <1>1, <1>3 DEF Sound, Tracked
<1> QED BY <1>1, <1>3, <1>4 DEF m, SameCounts, SameCapture, SameLocals

LEMMA PointExits ==
  ASSUME NEW l \in Sound, NEW p \in Pointers, NEW known \in BOOLEAN
  PROVE  LET m == ExitPoint(l, p, known)
         IN /\ m \in Sound /\ SameCounts(l, m) /\ SameCapture(l, m)
            /\ m.release = l.release /\ m.wasCaptured = l.wasCaptured
            /\ l.failed => m = l
            /\ ~l.failed /\ p \in l.captured =>
                 /\ Tracked(m) = Tracked(l) /\ m.captured = l.captured
                 /\ m.inside = l.inside \ {p} /\ m.placed = With(l.placed, p, known)
                 /\ m.failed = ~known
            /\ ~l.failed /\ p \notin l.captured =>
                 /\ Tracked(m) = Tracked(l) \ {p} /\ m.captured = l.captured
                 /\ m.inside = l.inside \ {p} /\ m.placed = l.placed \ {p}
                 /\ m.failed = IF p \in Tracked(l) THEN p \notin l.placed ELSE ~known
<1> DEFINE t == StopTracking(l, p)
           m == ExitPoint(l, p, known)
<1>0. l \in Lists /\ Distinct(l.points)
      /\ l.captured \cup l.inside \cup l.placed \subseteq Tracked(l)
  BY DEF Sound
<1>1. /\ t \in Sound /\ Tracked(t) = Tracked(l) \ {p}
      /\ t.captured = l.captured \ {p} /\ t.inside = l.inside \ {p} /\ t.placed = l.placed \ {p}
      /\ SameCounts(l, t) /\ SameCapture(l, t) /\ SameLocals(l, t)
  BY TrackingStops
<1>2. CASE l.failed
  <2>1. m = l
    BY <1>2 DEF ExitPoint
  <2> QED BY <1>2, <2>1 DEF SameCounts, SameCapture
<1>3. CASE ~l.failed /\ p \in l.captured
  <2>1. m = [l EXCEPT !.inside = @ \ {p}, !.placed = With(@, p, known), !.failed = ~known]
    BY <1>3 DEF ExitPoint
  <2> HIDE DEF m
  <2>2. /\ m \in Lists /\ m.points = l.points /\ m.captured = l.captured
        /\ m.inside = l.inside \ {p} /\ m.placed = With(l.placed, p, known) /\ m.failed = ~known
        /\ SameCounts(l, m) /\ SameCapture(l, m)
        /\ m.release = l.release /\ m.wasCaptured = l.wasCaptured
    BY <1>0, <2>1 DEF Lists, With, SameCounts, SameCapture
  <2>3. Tracked(m) = Tracked(l)
    BY <2>2 DEF Tracked
  <2>4. With(l.placed, p, known) \subseteq Tracked(l)
    BY <1>0, <1>3 DEF With
  <2>5. m \in Sound
    BY <1>0, <2>2, <2>3, <2>4 DEF Sound
  <2> QED BY <1>3, <2>2, <2>3, <2>5 DEF m
<1>4. CASE ~l.failed /\ p \notin l.captured
  <2> DEFINE bad == IF p \in Tracked(l) THEN p \notin l.placed ELSE ~known
  <2>1. m = [t EXCEPT !.failed = bad]
    BY <1>4 DEF ExitPoint
  <2>2. bad \in BOOLEAN
    OBVIOUS
  <2> HIDE DEF m, t, bad
  <2>3. /\ m \in Lists /\ m.points = t.points /\ m.captured = t.captured
        /\ m.inside = t.inside /\ m.placed = t.placed /\ m.failed = bad
        /\ SameCounts(t, m) /\ SameCapture(t, m)
        /\ m.release = t.release /\ m.wasCaptured = t.wasCaptured
    BY <1>1, <2>1, <2>2 DEF Sound, Lists, SameCounts, SameCapture
  <2>4. Tracked(m) = Tracked(t)
    BY <2>3 DEF Tracked
  <2>5. m \in Sound
    BY <1>1, <2>3, <2>4 DEF Sound
  <2>6. l.captured \ {p} = l.captured
    BY <1>4
  <2>7. /\ SameCounts(l, m) /\ SameCapture(l, m)
        /\ m.release = l.release /\ m.wasCaptured = l.wasCaptured
    BY <1>1, <2>3 DEF SameCounts, SameCapture, SameLocals
  <2> QED BY <1>1, <1>4, <2>3, <2>4, <2>5, <2>6, <2>7 DEF m, bad
<1> QED BY <1>2, <1>3, <1>4

\* With two captured points whose positions are known there is a pair to measure.
LEMMA EnoughPoints ==
  ASSUME NEW l \in Sound, l.placed = Tracked(l), l.captured \subseteq Tracked(l),
         Cardinality(l.captured) >= 2
  PROVE  Measurable(l)
<1>1. l.points \in Seq(Pointers) /\ Distinct(l.points)
  BY DEF Sound, Lists
<1>2. IsFiniteSet(Tracked(l)) /\ Cardinality(Tracked(l)) = Len(l.points)
  BY <1>1, ListLength DEF Tracked
<1>3. Len(l.points) \in Nat /\ Len(l.points) >= 2
  <2>1. IsFiniteSet(l.captured) /\ Cardinality(l.captured) <= Cardinality(Tracked(l))
    BY <1>2, FS_Subset
  <2>2. Cardinality(l.captured) \in Nat /\ Cardinality(Tracked(l)) \in Nat
    BY <1>2, <2>1, FS_CardinalityType
  <2> QED BY <1>2, <2>1, <2>2
<1>4. /\ Pair(l) \in Seq(Pointers) /\ Len(Pair(l)) = 2
      /\ \A i \in 1..2 : Pair(l)[i] = l.points[i]
  <2>1. SubSeq(l.points, 1, 2) \in Seq(Pointers) /\ Len(SubSeq(l.points, 1, 2)) = 2
        /\ \A i \in 1..2 : SubSeq(l.points, 1, 2)[i] = l.points[1 + i - 1]
    BY <1>1, <1>3, SubSeqProperties
  <2>2. \A i \in 1..2 : 1 + i - 1 = i
    OBVIOUS
  <2> QED BY <2>1, <2>2 DEF Pair
<1>5. ToSet(Pair(l)) \subseteq Tracked(l)
  <2> SUFFICES ASSUME NEW x \in ToSet(Pair(l)) PROVE x \in ToSet(l.points)
    BY DEF Tracked
  <2>1. PICK i \in 1..2 : Pair(l)[i] = x
    BY <1>4, SetOfList
  <2>2. i \in 1..Len(l.points) /\ l.points[i] = x
    BY <1>3, <1>4, <2>1
  <2> QED BY <1>1, <2>2, SetOfList
<1> QED BY <1>3, <1>5 DEF Measurable

LEMMA PairType ==
  ASSUME NEW l \in Sound, Measurable(l)
  PROVE  Pair(l) \in Seq(Pointers)
<1>1. l.points \in Seq(Pointers) /\ Len(l.points) \in Nat /\ Len(l.points) >= 2
  BY LenProperties DEF Sound, Lists, Measurable
<1>2. SubSeq(l.points, 1, 2) \in Seq(Pointers)
  BY <1>1, SubSeqProperties
<1> QED BY <1>2 DEF Pair

LEMMA PointGoesDown ==
  ASSUME NEW l \in Sound, NEW p \in Pointers
  PROVE  LET m == DownPoint(l, p)
         IN /\ m \in Sound /\ SameCapture(l, m)
            /\ m.release = l.release /\ m.wasCaptured = l.wasCaptured
            /\ Tracked(m) = Tracked(l) \cup {p} /\ m.captured = l.captured \cup {p}
            /\ m.inside = l.inside \cup {p} /\ m.placed = l.placed \cup {p}
            /\ m.contacts = l.contacts + 1 /\ m.timed = [l.timed EXCEPT ![p] = @ + 1]
            /\ m.pressed = (l.pressed \/ l.contacts + 1 = 1)
            /\ \/ device = "mouse"
               \/ l.placed = Tracked(l) /\ l.contacts < Cardinality(l.captured \cup {p})
               => ~m.failed
<1> DEFINE t == StartTracking(l, p)
           d == [t EXCEPT !.captured = @ \cup {p}, !.inside = @ \cup {p},
                          !.contacts = @ + 1, !.timed[p] = @ + 1]
           m == DownPoint(l, p)
           pinch == IF d.contacts = 2 /\ device # "mouse" /\ Measurable(d) THEN Pair(d) ELSE t.pinch
           bad == d.contacts = 2 /\ device # "mouse" /\ ~Measurable(d)
           pressed == t.pressed \/ d.contacts = 1
<1>1. /\ t \in Sound /\ Tracked(t) = Tracked(l) \cup {p}
      /\ t.captured = l.captured /\ t.inside = l.inside /\ t.placed = l.placed \cup {p}
      /\ SameCounts(l, t) /\ SameCapture(l, t) /\ SameLocals(l, t)
  BY TrackingStarts
<1>2. l \in Lists /\ t \in Lists /\ t.captured \cup t.inside \cup t.placed \subseteq Tracked(t)
      /\ Distinct(t.points)
  BY <1>1 DEF Sound
<1>3. m = [d EXCEPT !.pressed = pressed, !.pinch = pinch, !.failed = bad]
  BY <1>2 DEF DownPoint, Lists
<1> HIDE DEF t
<1> DEFINE timed == [t.timed EXCEPT ![p] = @ + 1]
           contacts == t.contacts + 1
<1>t. timed \in [Pointers -> Nat] /\ contacts \in Int
  BY <1>2 DEF Lists
<1>d. d = [t EXCEPT !.captured = @ \cup {p}, !.inside = @ \cup {p},
                    !.contacts = contacts, !.timed = timed]
  BY <1>2 DEF Lists
<1> HIDE DEF d, timed, contacts
<1>4. /\ d \in Lists /\ d.points = t.points /\ d.captured = t.captured \cup {p}
      /\ d.inside = t.inside \cup {p} /\ d.placed = t.placed
      /\ d.contacts = contacts /\ d.timed = timed
      /\ d.pressed = t.pressed /\ d.pinch = t.pinch
      /\ SameCapture(t, d) /\ SameLocals(t, d)
  BY <1>2, <1>t, <1>d DEF Lists, SameCapture, SameLocals
<1> USE DEF timed, contacts
<1>5. Tracked(d) = Tracked(t)
  BY <1>4 DEF Tracked
<1>6. d \in Sound
  BY <1>1, <1>2, <1>4, <1>5 DEF Sound
<1>7. pinch \in Seq(Pointers) /\ bad \in BOOLEAN /\ pressed \in BOOLEAN
  BY <1>2, <1>6, PairType DEF Lists
<1>8. \/ device = "mouse"
      \/ l.placed = Tracked(l) /\ l.contacts < Cardinality(l.captured \cup {p})
      => ~bad
  <2> SUFFICES ASSUME l.placed = Tracked(l), l.contacts < Cardinality(l.captured \cup {p}),
                      d.contacts = 2
               PROVE  Measurable(d)
    OBVIOUS
  <2>1. d.placed = Tracked(d) /\ d.captured \subseteq Tracked(d)
    BY <1>1, <1>2, <1>4, <1>5
  <2>2. d.captured = l.captured \cup {p}
    BY <1>1, <1>4
  <2>3. IsFiniteSet(d.captured)
    <3>1. d.points \in Seq(Pointers) /\ Distinct(d.points)
      BY <1>6 DEF Sound, Lists
    <3> QED BY <2>1, <3>1, ListLength, FS_Subset DEF Tracked
  <2>4. Cardinality(d.captured) \in Nat
    BY <2>3, FS_CardinalityType
  <2>5. l.contacts \in Int /\ d.contacts = l.contacts + 1
    BY <1>1, <1>2, <1>4 DEF SameCounts, Lists
  <2>6. Cardinality(d.captured) >= 2
    BY <2>2, <2>4, <2>5
  <2> QED BY <1>6, <2>1, <2>6, EnoughPoints
<1> HIDE DEF pinch, bad, pressed, m
<1>9. /\ m \in Lists /\ m.points = d.points /\ m.captured = d.captured /\ m.inside = d.inside
      /\ m.placed = d.placed /\ m.contacts = d.contacts /\ m.timed = d.timed
      /\ m.pressed = pressed /\ m.failed = bad /\ m.release = d.release
      /\ m.wasCaptured = d.wasCaptured /\ SameCapture(d, m)
  BY <1>3, <1>4, <1>7 DEF Lists, SameCapture
<1>10. Tracked(m) = Tracked(d)
  BY <1>9 DEF Tracked
<1>11. m \in Sound
  BY <1>6, <1>9, <1>10 DEF Sound
<1>12. m.pressed = (l.pressed \/ l.contacts + 1 = 1)
  BY <1>1, <1>4, <1>9 DEF SameCounts, pressed
<1> QED BY <1>1, <1>4, <1>5, <1>8, <1>9, <1>10, <1>11, <1>12
        DEF m, SameCounts, SameCapture, SameLocals

LEMMA PointMoves ==
  ASSUME NEW l \in Sound, NEW p \in Pointers, NEW changed \in BOOLEAN
  PROVE  LET m == MovePoint(l, p, changed)
         IN /\ m \in Sound /\ SameCounts(l, m) /\ SameCapture(l, m) /\ SameLocals(l, m)
            /\ Tracked(m) = Tracked(l) \cup {p} /\ m.captured = l.captured
            /\ m.inside = (IF p \in Tracked(l) THEN l.inside ELSE l.inside \cup {p})
            /\ m.placed = l.placed \cup {p}
<1> DEFINE t == StartTracking(l, p)
           n == IF p \in Tracked(l) THEN t ELSE [t EXCEPT !.inside = @ \cup {p}]
           pinch == IF /\ n.contacts = 2 /\ device # "mouse"
                       /\ changed /\ Measurable(n)
                    THEN Pair(n) ELSE n.pinch
           m == MovePoint(l, p, changed)
<1>1. /\ t \in Sound /\ Tracked(t) = Tracked(l) \cup {p}
      /\ t.captured = l.captured /\ t.inside = l.inside /\ t.placed = l.placed \cup {p}
      /\ SameCounts(l, t) /\ SameCapture(l, t) /\ SameLocals(l, t)
  BY TrackingStarts
<1>2. m = [n EXCEPT !.pinch = pinch]
  BY DEF MovePoint
<1> HIDE DEF t
<1>3. /\ n \in Lists /\ n.points = t.points /\ n.captured = t.captured
      /\ n.inside = (IF p \in Tracked(l) THEN t.inside ELSE t.inside \cup {p})
      /\ n.placed = t.placed
      /\ SameCounts(t, n) /\ SameCapture(t, n) /\ SameLocals(t, n)
  BY <1>1 DEF Sound, Lists, SameCounts, SameCapture, SameLocals
<1> HIDE DEF n
<1>4. Tracked(n) = Tracked(t)
  BY <1>3 DEF Tracked
<1>5. n \in Sound
  BY <1>1, <1>3, <1>4 DEF Sound
<1>6. pinch \in Seq(Pointers)
  BY <1>3, <1>5, PairType DEF Lists
<1> HIDE DEF pinch, m
<1>7. /\ m \in Lists /\ m.points = n.points /\ m.captured = n.captured
      /\ m.inside = n.inside /\ m.placed = n.placed
      /\ SameCounts(n, m) /\ SameCapture(n, m) /\ SameLocals(n, m)
  BY <1>2, <1>3, <1>6 DEF Lists, SameCounts, SameCapture, SameLocals
<1>8. Tracked(m) = Tracked(n)
  BY <1>7 DEF Tracked
<1>9. m \in Sound
  BY <1>5, <1>7, <1>8 DEF Sound
<1> QED BY <1>1, <1>3, <1>4, <1>7, <1>8, <1>9 DEF m, SameCounts, SameCapture, SameLocals

\* What an event that ends a contact leaves of the speed that is timed.
Less(timed, p) == [timed EXCEPT ![p] = IF @ > 0 THEN @ - 1 ELSE 0]

LEMMA PointGoesUp ==
  ASSUME NEW l \in Sound, NEW p \in Pointers, NEW known \in BOOLEAN
  PROVE  LET m == UpPoint(l, p, known)
             was == l.wasCaptured \/ p \in l.captured
         IN /\ m \in Sound /\ SameCapture(l, m)
            /\ l.failed \/ p \notin Tracked(l) => m = l
            /\ ~l.failed /\ p \in Tracked(l) =>
                 /\ Tracked(m) = (IF p \in l.inside THEN Tracked(l) ELSE Tracked(l) \ {p})
                 /\ m.captured = l.captured \ {p} /\ m.inside = l.inside
                 /\ m.placed = (IF p \in l.inside THEN With(l.placed, p, known)
                                                  ELSE l.placed \ {p})
                 /\ m.contacts = (IF was THEN l.contacts - 1 ELSE l.contacts)
                 /\ m.timed = (IF was THEN Less(l.timed, p) ELSE l.timed)
                 /\ m.pressed = (l.pressed /\ ~(was /\ m.contacts = 0 /\ known))
                 /\ m.release = (l.release \/ p \in l.captured) /\ m.wasCaptured = was
                 /\ /\ known
                    /\ \/ device = "mouse"
                       \/ m.placed = Tracked(m) /\ m.contacts <= Cardinality(m.captured)
                    => ~m.failed
<1> DEFINE m == UpPoint(l, p, known)
           was == l.wasCaptured \/ p \in l.captured
           a == [l EXCEPT !.captured = @ \ {p}, !.release = @ \/ p \in l.captured,
                          !.wasCaptured = was, !.placed = With(@, p, known)]
           t == IF p \in l.inside THEN a ELSE StopTracking(a, p)
           u == IF was THEN ContactEnds(t, p) ELSE t
           pinching == was /\ u.contacts = 2 /\ device # "mouse"
           pinch == IF pinching /\ Measurable(u) THEN Pair(u) ELSE u.pinch
           bad == \/ ~known /\ (~was \/ NoContact(u))
                  \/ pinching /\ ~Measurable(u)
           pressed == u.pressed /\ ~(was /\ NoContact(u) /\ known)
<1>0. l \in Lists /\ Distinct(l.points)
      /\ l.captured \cup l.inside \cup l.placed \subseteq Tracked(l)
  BY DEF Sound
<1>1. CASE l.failed \/ p \notin Tracked(l)
  BY <1>1 DEF UpPoint, SameCapture
<1>2. CASE ~l.failed /\ p \in Tracked(l)
  <2>1. m = [u EXCEPT !.pressed = pressed, !.pinch = pinch, !.failed = bad]
    BY <1>2 DEF UpPoint
  <2>2. /\ a \in Lists /\ a.points = l.points /\ a.captured = l.captured \ {p}
        /\ a.inside = l.inside /\ a.placed = With(l.placed, p, known)
        /\ a.release = (l.release \/ p \in l.captured) /\ a.wasCaptured = was
        /\ SameCounts(l, a) /\ SameCapture(l, a)
    BY <1>0 DEF Lists, With, SameCounts, SameCapture
  <2> HIDE DEF a
  <2>3. Tracked(a) = Tracked(l)
    BY <2>2 DEF Tracked
  <2>4. a \in Sound
    BY <1>0, <1>2, <2>2, <2>3 DEF Sound, With
  <2>5. /\ t \in Sound
        /\ Tracked(t) = (IF p \in l.inside THEN Tracked(l) ELSE Tracked(l) \ {p})
        /\ t.captured = l.captured \ {p} /\ t.inside = l.inside
        /\ t.placed = (IF p \in l.inside THEN With(l.placed, p, known) ELSE l.placed \ {p})
        /\ t.release = (l.release \/ p \in l.captured) /\ t.wasCaptured = was
        /\ SameCounts(l, t) /\ SameCapture(l, t)
    <3>1. CASE p \in l.inside
      BY <2>2, <2>3, <2>4, <3>1
    <3>2. CASE p \notin l.inside
      <4>1. LET s == StopTracking(a, p)
            IN /\ s \in Sound /\ Tracked(s) = Tracked(a) \ {p}
               /\ s.captured = a.captured \ {p} /\ s.inside = a.inside \ {p}
               /\ s.placed = a.placed \ {p}
               /\ SameCounts(a, s) /\ SameCapture(a, s) /\ SameLocals(a, s)
        BY <2>4, TrackingStops
      <4>2. t = StopTracking(a, p)
        BY <3>2
      <4>3. (l.captured \ {p}) \ {p} = l.captured \ {p} /\ l.inside \ {p} = l.inside
            /\ With(l.placed, p, known) \ {p} = l.placed \ {p}
        BY <3>2 DEF With
      <4> HIDE DEF t, was
      <4> QED BY <2>2, <2>3, <3>2, <4>1, <4>2, <4>3 DEF SameCounts, SameCapture, SameLocals
    <3> QED BY <3>1, <3>2
  <2> HIDE DEF t
  <2>6. t \in Lists /\ Distinct(t.points)
        /\ t.captured \cup t.inside \cup t.placed \subseteq Tracked(t)
    BY <2>5 DEF Sound
  <2>7. /\ u \in Lists /\ u.points = t.points /\ u.captured = t.captured
        /\ u.inside = t.inside /\ u.placed = t.placed
        /\ u.contacts = (IF was THEN t.contacts - 1 ELSE t.contacts)
        /\ u.timed = (IF was THEN Less(t.timed, p) ELSE t.timed)
        /\ u.pressed = t.pressed /\ u.release = t.release /\ u.wasCaptured = t.wasCaptured
        /\ SameCapture(t, u)
    <3>1. CASE was
      <4>1. u = [t EXCEPT !.contacts = @ - 1, !.timed[p] = IF @ > 0 THEN @ - 1 ELSE 0]
        BY <3>1 DEF ContactEnds
      <4>2. Less(t.timed, p) \in [Pointers -> Nat]
        <5>1. t.timed \in [Pointers -> Nat]
          BY <2>6 DEF Lists
        <5>2. (IF t.timed[p] > 0 THEN t.timed[p] - 1 ELSE 0) \in Nat
          BY <5>1
        <5> QED BY <5>1, <5>2 DEF Less
      <4>3. u = [t EXCEPT !.contacts = @ - 1, !.timed = Less(t.timed, p)]
        BY <2>6, <4>1 DEF Lists, Less
      <4> DEFINE less == Less(t.timed, p)
                 fewer == t.contacts - 1
      <4> HIDE DEF was, u, less
      <4>4. /\ u = [t EXCEPT !.contacts = fewer, !.timed = less]
            /\ less \in [Pointers -> Nat] /\ fewer \in Int
        BY <2>6, <4>2, <4>3 DEF less, Lists
      <4> HIDE DEF fewer
      <4>5. /\ u \in Lists /\ u.points = t.points /\ u.captured = t.captured
            /\ u.inside = t.inside /\ u.placed = t.placed /\ u.contacts = fewer
            /\ u.timed = less /\ u.pressed = t.pressed /\ u.release = t.release
            /\ u.wasCaptured = t.wasCaptured /\ SameCapture(t, u)
        BY <2>6, <4>4 DEF Lists, SameCapture
      <4> QED BY <3>1, <4>5 DEF less, fewer
    <3>2. CASE ~was
      <4>1. u = t
        BY <3>2
      <4> HIDE DEF was, u
      <4> QED BY <2>6, <3>2, <4>1 DEF SameCapture
    <3> QED BY <3>1, <3>2
  <2> HIDE DEF u
  <2>8. Tracked(u) = Tracked(t)
    BY <2>7 DEF Tracked
  <2>9. u \in Sound
    BY <2>6, <2>7, <2>8 DEF Sound
  <2>10. pinch \in Seq(Pointers) /\ bad \in BOOLEAN /\ pressed \in BOOLEAN
    BY <2>7, <2>9, PairType DEF Lists, NoContact
  <2>11. (/\ known
          /\ \/ device = "mouse"
             \/ u.placed = Tracked(u) /\ u.contacts <= Cardinality(u.captured)) => ~bad
    <3> SUFFICES ASSUME u.placed = Tracked(u), u.contacts <= Cardinality(u.captured),
                        u.contacts = 2
                 PROVE  Measurable(u)
      OBVIOUS
    <3>1. u.captured \subseteq Tracked(u) /\ Distinct(u.points) /\ u.points \in Seq(Pointers)
      BY <2>9 DEF Sound, Lists
    <3>2. IsFiniteSet(u.captured)
      BY <3>1, ListLength, FS_Subset DEF Tracked
    <3>3. Cardinality(u.captured) >= 2
      BY <3>2, FS_CardinalityType
    <3> QED BY <2>9, <3>1, <3>3, EnoughPoints
  <2> HIDE DEF pinch, bad, pressed, m, was
  <2>12. /\ m \in Lists /\ m.points = u.points /\ m.captured = u.captured
         /\ m.inside = u.inside /\ m.placed = u.placed /\ m.contacts = u.contacts
         /\ m.timed = u.timed /\ m.pressed = pressed /\ m.failed = bad
         /\ m.release = u.release /\ m.wasCaptured = u.wasCaptured /\ SameCapture(u, m)
    BY <2>1, <2>7, <2>10 DEF Lists, SameCapture
  <2>13. Tracked(m) = Tracked(u)
    BY <2>12 DEF Tracked
  <2>14. m \in Sound
    BY <2>9, <2>12, <2>13 DEF Sound
  <2>15. m.pressed = (l.pressed /\ ~(was /\ m.contacts = 0 /\ known))
    BY <2>5, <2>7, <2>12 DEF pressed, NoContact, SameCounts
  <2>16. /\ m.contacts = (IF was THEN l.contacts - 1 ELSE l.contacts)
         /\ m.timed = (IF was THEN Less(l.timed, p) ELSE l.timed)
         /\ SameCapture(l, m)
    BY <2>5, <2>7, <2>12 DEF SameCounts, SameCapture
  <2>17. /\ Tracked(m) = (IF p \in l.inside THEN Tracked(l) ELSE Tracked(l) \ {p})
         /\ m.captured = l.captured \ {p} /\ m.inside = l.inside
         /\ m.placed = (IF p \in l.inside THEN With(l.placed, p, known) ELSE l.placed \ {p})
         /\ m.release = (l.release \/ p \in l.captured) /\ m.wasCaptured = was
    BY <2>5, <2>7, <2>8, <2>12, <2>13
  <2>18. (/\ known
          /\ \/ device = "mouse"
             \/ m.placed = Tracked(m) /\ m.contacts <= Cardinality(m.captured)) => ~m.failed
    BY <2>11, <2>12, <2>13
  <2> QED BY <1>2, <2>14, <2>15, <2>16, <2>17, <2>18 DEF m, was
<1> QED BY <1>1, <1>2

-----------------------------------------------------------------------------
(* The folds over the points of an event: each is made of its steps, and keeps *)
(* the list sound                                                             *)

\* What one point does in the folds that look at more than the point.
DownOnce(l, p) == IF l.failed THEN l ELSE DownPoint(l, p)
LiftOnce(l, p) == UpPoint(l, p, p \in l.placed)

LEMMA LiftedSound ==
  ASSUME NEW l \in Sound, NEW p \in Pointers
  PROVE  LiftOnce(l, p) \in Sound
<1> DEFINE known == p \in l.placed
<1>1. known \in BOOLEAN
  OBVIOUS
<1> HIDE DEF known
<1>2. UpPoint(l, p, known) \in Sound
  BY <1>1, PointGoesUp
<1> QED BY <1>2 DEF known, LiftOnce

EnterStep == [a \in Sound \X Pointers |-> EnterPoint(a[1], a[2])]

LEMMA EnterFold ==
  ASSUME NEW l \in Sound, NEW ps \in Seq(Pointers)
  PROVE  Stepwise(Sound, EnterStep, l, ps, UpdatePointersEnter(l, ps))
<1> DEFINE body(f) == [s \in SUBSET DOMAIN ps |->
                        IF s = {} THEN l ELSE EnterPoint(f[s \ {Max(s)}], ps[Max(s)])]
           iter == CHOOSE f : f = body(f)
<1>1. UpdatePointersEnter(l, ps) = iter[DOMAIN ps]
  BY DEF UpdatePointersEnter, FoldLeft, MapThenFoldSet
<1>2. DOMAIN ps = 1..Len(ps) /\ Len(ps) \in Nat /\ \A i \in 1..Len(ps) : ps[i] \in Pointers
  BY LenProperties, ElementOfSeq
<1>3. /\ EnterStep \in [Sound \X Pointers -> Sound]
      /\ \A m \in Sound, p \in Pointers : EnterStep[<<m, p>>] = EnterPoint(m, p)
  BY PointEnters DEF EnterStep
<1>4. iter = body(iter)
  <2>1. Foldable(Sound, EnterStep, l, ps)
    BY <1>3, FoldExists
  <2>2. PICK g \in [SUBSET (1..Len(ps)) -> Sound] : \A s \in SUBSET (1..Len(ps)) :
          g[s] = IF s = {} THEN l ELSE EnterStep[<<g[s \ {Max(s)}], ps[Max(s)]>>]
    BY <2>1 DEF Foldable
  <2>3. ASSUME NEW s \in SUBSET DOMAIN ps
        PROVE  g[s] = IF s = {} THEN l ELSE EnterPoint(g[s \ {Max(s)}], ps[Max(s)])
    <3>1. s # {} => Max(s) \in 1..Len(ps)
      BY <1>2, GreatestNumber
    <3>2. s # {} => g[s \ {Max(s)}] \in Sound /\ ps[Max(s)] \in Pointers
      BY <1>2, <3>1
    <3> QED BY <1>2, <1>3, <2>2, <3>2
  <2>4. g = body(g)
    BY <1>2, <2>3
  <2> HIDE DEF body
  <2> QED BY <2>4
<1> HIDE DEF iter
<1>5. iter[1..0] = l
  BY <1>4
<1>6. ASSUME NEW k \in 1..Len(ps), iter[1..(k - 1)] \in Sound
      PROVE  iter[1..k] = EnterStep[<<iter[1..(k - 1)], ps[k]>>]
  <2>1. Max(1..k) = k /\ (1..k) \ {k} = 1..(k - 1)
    BY UpToNumber
  <2>2. k \in 1..k /\ 1..k \in SUBSET DOMAIN ps
    BY <1>2
  <2>3. iter[1..k] = EnterPoint(iter[1..(k - 1)], ps[k])
    BY <1>4, <2>1, <2>2
  <2> QED BY <1>2, <1>3, <1>6, <2>3
<1>7. Stepwise(Sound, EnterStep, l, ps, iter[1..Len(ps)])
  BY <1>3, <1>5, <1>6, FoldSteps
<1> QED BY <1>1, <1>2, <1>7

ExitStep(known) == [a \in Sound \X Pointers |-> ExitPoint(a[1], a[2], known)]

LEMMA ExitFold ==
  ASSUME NEW l \in Sound, NEW ps \in Seq(Pointers), NEW known \in BOOLEAN
  PROVE  Stepwise(Sound, ExitStep(known), l, ps, UpdatePointersExit(l, ps, known))
<1> DEFINE body(f) == [s \in SUBSET DOMAIN ps |->
                        IF s = {} THEN l ELSE ExitPoint(f[s \ {Max(s)}], ps[Max(s)], known)]
           iter == CHOOSE f : f = body(f)
<1>1. UpdatePointersExit(l, ps, known) = iter[DOMAIN ps]
  BY DEF UpdatePointersExit, FoldLeft, MapThenFoldSet
<1>2. DOMAIN ps = 1..Len(ps) /\ Len(ps) \in Nat /\ \A i \in 1..Len(ps) : ps[i] \in Pointers
  BY LenProperties, ElementOfSeq
<1>3. /\ ExitStep(known) \in [Sound \X Pointers -> Sound]
      /\ \A m \in Sound, p \in Pointers : ExitStep(known)[<<m, p>>] = ExitPoint(m, p, known)
  BY PointExits DEF ExitStep
<1>4. iter = body(iter)
  <2>1. Foldable(Sound, ExitStep(known), l, ps)
    BY <1>3, FoldExists
  <2>2. PICK g \in [SUBSET (1..Len(ps)) -> Sound] : \A s \in SUBSET (1..Len(ps)) :
          g[s] = IF s = {} THEN l ELSE ExitStep(known)[<<g[s \ {Max(s)}], ps[Max(s)]>>]
    BY <2>1 DEF Foldable
  <2>3. ASSUME NEW s \in SUBSET DOMAIN ps
        PROVE  g[s] = IF s = {} THEN l ELSE ExitPoint(g[s \ {Max(s)}], ps[Max(s)], known)
    <3>1. s # {} => Max(s) \in 1..Len(ps)
      BY <1>2, GreatestNumber
    <3>2. s # {} => g[s \ {Max(s)}] \in Sound /\ ps[Max(s)] \in Pointers
      BY <1>2, <3>1
    <3> QED BY <1>2, <1>3, <2>2, <3>2
  <2>4. g = body(g)
    BY <1>2, <2>3
  <2> HIDE DEF body
  <2> QED BY <2>4
<1> HIDE DEF iter
<1>5. iter[1..0] = l
  BY <1>4
<1>6. ASSUME NEW k \in 1..Len(ps), iter[1..(k - 1)] \in Sound
      PROVE  iter[1..k] = ExitStep(known)[<<iter[1..(k - 1)], ps[k]>>]
  <2>1. Max(1..k) = k /\ (1..k) \ {k} = 1..(k - 1)
    BY UpToNumber
  <2>2. k \in 1..k /\ 1..k \in SUBSET DOMAIN ps
    BY <1>2
  <2>3. iter[1..k] = ExitPoint(iter[1..(k - 1)], ps[k], known)
    BY <1>4, <2>1, <2>2
  <2> QED BY <1>2, <1>3, <1>6, <2>3
<1>7. Stepwise(Sound, ExitStep(known), l, ps, iter[1..Len(ps)])
  BY <1>3, <1>5, <1>6, FoldSteps
<1> QED BY <1>1, <1>2, <1>7

DownStep == [a \in Sound \X Pointers |-> DownOnce(a[1], a[2])]

LEMMA DownFold ==
  ASSUME NEW l \in Sound, NEW ps \in Seq(Pointers)
  PROVE  Stepwise(Sound, DownStep, l, ps, UpdatePointersDown(l, ps))
<1> DEFINE body(f) == [s \in SUBSET DOMAIN ps |->
                        IF s = {} THEN l ELSE DownOnce(f[s \ {Max(s)}], ps[Max(s)])]
           iter == CHOOSE f : f = body(f)
<1>1. UpdatePointersDown(l, ps) = iter[DOMAIN ps]
  BY DEF UpdatePointersDown, FoldLeft, MapThenFoldSet, DownOnce
<1>2. DOMAIN ps = 1..Len(ps) /\ Len(ps) \in Nat /\ \A i \in 1..Len(ps) : ps[i] \in Pointers
  BY LenProperties, ElementOfSeq
<1>3. /\ DownStep \in [Sound \X Pointers -> Sound]
      /\ \A m \in Sound, p \in Pointers : DownStep[<<m, p>>] = DownOnce(m, p)
  BY PointGoesDown DEF DownStep, DownOnce
<1>4. iter = body(iter)
  <2>1. Foldable(Sound, DownStep, l, ps)
    BY <1>3, FoldExists
  <2>2. PICK g \in [SUBSET (1..Len(ps)) -> Sound] : \A s \in SUBSET (1..Len(ps)) :
          g[s] = IF s = {} THEN l ELSE DownStep[<<g[s \ {Max(s)}], ps[Max(s)]>>]
    BY <2>1 DEF Foldable
  <2>3. ASSUME NEW s \in SUBSET DOMAIN ps
        PROVE  g[s] = IF s = {} THEN l ELSE DownOnce(g[s \ {Max(s)}], ps[Max(s)])
    <3>1. s # {} => Max(s) \in 1..Len(ps)
      BY <1>2, GreatestNumber
    <3>2. s # {} => g[s \ {Max(s)}] \in Sound /\ ps[Max(s)] \in Pointers
      BY <1>2, <3>1
    <3> QED BY <1>2, <1>3, <2>2, <3>2
  <2>4. g = body(g)
    BY <1>2, <2>3
  <2> HIDE DEF body
  <2> QED BY <2>4
<1> HIDE DEF iter
<1>5. iter[1..0] = l
  BY <1>4
<1>6. ASSUME NEW k \in 1..Len(ps), iter[1..(k - 1)] \in Sound
      PROVE  iter[1..k] = DownStep[<<iter[1..(k - 1)], ps[k]>>]
  <2>1. Max(1..k) = k /\ (1..k) \ {k} = 1..(k - 1)
    BY UpToNumber
  <2>2. k \in 1..k /\ 1..k \in SUBSET DOMAIN ps
    BY <1>2
  <2>3. iter[1..k] = DownOnce(iter[1..(k - 1)], ps[k])
    BY <1>4, <2>1, <2>2
  <2> QED BY <1>2, <1>3, <1>6, <2>3
<1>7. Stepwise(Sound, DownStep, l, ps, iter[1..Len(ps)])
  BY <1>3, <1>5, <1>6, FoldSteps
<1> QED BY <1>1, <1>2, <1>7

UpStep(known) == [a \in Sound \X Pointers |-> UpPoint(a[1], a[2], known)]

LEMMA UpFold ==
  ASSUME NEW l \in Sound, NEW ps \in Seq(Pointers), NEW known \in BOOLEAN
  PROVE  Stepwise(Sound, UpStep(known), l, ps, UpdatePointersUp(l, ps, known))
<1> DEFINE body(f) == [s \in SUBSET DOMAIN ps |->
                        IF s = {} THEN l ELSE UpPoint(f[s \ {Max(s)}], ps[Max(s)], known)]
           iter == CHOOSE f : f = body(f)
<1>1. UpdatePointersUp(l, ps, known) = iter[DOMAIN ps]
  BY DEF UpdatePointersUp, FoldLeft, MapThenFoldSet
<1>2. DOMAIN ps = 1..Len(ps) /\ Len(ps) \in Nat /\ \A i \in 1..Len(ps) : ps[i] \in Pointers
  BY LenProperties, ElementOfSeq
<1>3. /\ UpStep(known) \in [Sound \X Pointers -> Sound]
      /\ \A m \in Sound, p \in Pointers : UpStep(known)[<<m, p>>] = UpPoint(m, p, known)
  BY PointGoesUp DEF UpStep
<1>4. iter = body(iter)
  <2>1. Foldable(Sound, UpStep(known), l, ps)
    BY <1>3, FoldExists
  <2>2. PICK g \in [SUBSET (1..Len(ps)) -> Sound] : \A s \in SUBSET (1..Len(ps)) :
          g[s] = IF s = {} THEN l ELSE UpStep(known)[<<g[s \ {Max(s)}], ps[Max(s)]>>]
    BY <2>1 DEF Foldable
  <2>3. ASSUME NEW s \in SUBSET DOMAIN ps
        PROVE  g[s] = IF s = {} THEN l ELSE UpPoint(g[s \ {Max(s)}], ps[Max(s)], known)
    <3>1. s # {} => Max(s) \in 1..Len(ps)
      BY <1>2, GreatestNumber
    <3>2. s # {} => g[s \ {Max(s)}] \in Sound /\ ps[Max(s)] \in Pointers
      BY <1>2, <3>1
    <3> QED BY <1>2, <1>3, <2>2, <3>2
  <2>4. g = body(g)
    BY <1>2, <2>3
  <2> HIDE DEF body
  <2> QED BY <2>4
<1> HIDE DEF iter
<1>5. iter[1..0] = l
  BY <1>4
<1>6. ASSUME NEW k \in 1..Len(ps), iter[1..(k - 1)] \in Sound
      PROVE  iter[1..k] = UpStep(known)[<<iter[1..(k - 1)], ps[k]>>]
  <2>1. Max(1..k) = k /\ (1..k) \ {k} = 1..(k - 1)
    BY UpToNumber
  <2>2. k \in 1..k /\ 1..k \in SUBSET DOMAIN ps
    BY <1>2
  <2>3. iter[1..k] = UpPoint(iter[1..(k - 1)], ps[k], known)
    BY <1>4, <2>1, <2>2
  <2> QED BY <1>2, <1>3, <1>6, <2>3
<1>7. Stepwise(Sound, UpStep(known), l, ps, iter[1..Len(ps)])
  BY <1>3, <1>5, <1>6, FoldSteps
<1> QED BY <1>1, <1>2, <1>7

LiftStep == [a \in Sound \X Pointers |-> LiftOnce(a[1], a[2])]

LEMMA LiftFold ==
  ASSUME NEW l \in Sound, NEW ps \in Seq(Pointers)
  PROVE  Stepwise(Sound, LiftStep, l, ps, LiftInPlace(l, ps))
<1> DEFINE body(f) == [s \in SUBSET DOMAIN ps |->
                        IF s = {} THEN l ELSE LiftOnce(f[s \ {Max(s)}], ps[Max(s)])]
           iter == CHOOSE f : f = body(f)
<1>1. LiftInPlace(l, ps) = iter[DOMAIN ps]
  BY DEF LiftInPlace, FoldLeft, MapThenFoldSet, LiftOnce
<1>2. DOMAIN ps = 1..Len(ps) /\ Len(ps) \in Nat /\ \A i \in 1..Len(ps) : ps[i] \in Pointers
  BY LenProperties, ElementOfSeq
<1>3. /\ LiftStep \in [Sound \X Pointers -> Sound]
      /\ \A m \in Sound, p \in Pointers : LiftStep[<<m, p>>] = LiftOnce(m, p)
  BY LiftedSound DEF LiftStep
<1>4. iter = body(iter)
  <2>1. Foldable(Sound, LiftStep, l, ps)
    BY <1>3, FoldExists
  <2>2. PICK g \in [SUBSET (1..Len(ps)) -> Sound] : \A s \in SUBSET (1..Len(ps)) :
          g[s] = IF s = {} THEN l ELSE LiftStep[<<g[s \ {Max(s)}], ps[Max(s)]>>]
    BY <2>1 DEF Foldable
  <2>3. ASSUME NEW s \in SUBSET DOMAIN ps
        PROVE  g[s] = IF s = {} THEN l ELSE LiftOnce(g[s \ {Max(s)}], ps[Max(s)])
    <3>1. s # {} => Max(s) \in 1..Len(ps)
      BY <1>2, GreatestNumber
    <3>2. s # {} => g[s \ {Max(s)}] \in Sound /\ ps[Max(s)] \in Pointers
      BY <1>2, <3>1
    <3> QED BY <1>2, <1>3, <2>2, <3>2
  <2>4. g = body(g)
    BY <1>2, <2>3
  <2> HIDE DEF body
  <2> QED BY <2>4
<1> HIDE DEF iter
<1>5. iter[1..0] = l
  BY <1>4
<1>6. ASSUME NEW k \in 1..Len(ps), iter[1..(k - 1)] \in Sound
      PROVE  iter[1..k] = LiftStep[<<iter[1..(k - 1)], ps[k]>>]
  <2>1. Max(1..k) = k /\ (1..k) \ {k} = 1..(k - 1)
    BY UpToNumber
  <2>2. k \in 1..k /\ 1..k \in SUBSET DOMAIN ps
    BY <1>2
  <2>3. iter[1..k] = LiftOnce(iter[1..(k - 1)], ps[k])
    BY <1>4, <2>1, <2>2
  <2> QED BY <1>2, <1>3, <1>6, <2>3
<1>7. Stepwise(Sound, LiftStep, l, ps, iter[1..Len(ps)])
  BY <1>3, <1>5, <1>6, FoldSteps
<1> QED BY <1>1, <1>2, <1>7

MoveStep(changed) == [a \in Sound \X Pointers |-> MovePoint(a[1], a[2], changed)]

LEMMA MoveFold ==
  ASSUME NEW l \in Sound, NEW ps \in Seq(Pointers), NEW changed \in BOOLEAN
  PROVE  Stepwise(Sound, MoveStep(changed), l, ps, UpdatePointersMove(l, ps, changed))
<1> DEFINE body(f) == [s \in SUBSET DOMAIN ps |->
                        IF s = {} THEN l ELSE MovePoint(f[s \ {Max(s)}], ps[Max(s)], changed)]
           iter == CHOOSE f : f = body(f)
<1>1. UpdatePointersMove(l, ps, changed) = iter[DOMAIN ps]
  BY DEF UpdatePointersMove, FoldLeft, MapThenFoldSet
<1>2. DOMAIN ps = 1..Len(ps) /\ Len(ps) \in Nat /\ \A i \in 1..Len(ps) : ps[i] \in Pointers
  BY LenProperties, ElementOfSeq
<1>3. /\ MoveStep(changed) \in [Sound \X Pointers -> Sound]
      /\ \A m \in Sound, p \in Pointers : MoveStep(changed)[<<m, p>>] = MovePoint(m, p, changed)
  BY PointMoves DEF MoveStep
<1>4. iter = body(iter)
  <2>1. Foldable(Sound, MoveStep(changed), l, ps)
    BY <1>3, FoldExists
  <2>2. PICK g \in [SUBSET (1..Len(ps)) -> Sound] : \A s \in SUBSET (1..Len(ps)) :
          g[s] = IF s = {} THEN l ELSE MoveStep(changed)[<<g[s \ {Max(s)}], ps[Max(s)]>>]
    BY <2>1 DEF Foldable
  <2>3. ASSUME NEW s \in SUBSET DOMAIN ps
        PROVE  g[s] = IF s = {} THEN l ELSE MovePoint(g[s \ {Max(s)}], ps[Max(s)], changed)
    <3>1. s # {} => Max(s) \in 1..Len(ps)
      BY <1>2, GreatestNumber
    <3>2. s # {} => g[s \ {Max(s)}] \in Sound /\ ps[Max(s)] \in Pointers
      BY <1>2, <3>1
    <3> QED BY <1>2, <1>3, <2>2, <3>2
  <2>4. g = body(g)
    BY <1>2, <2>3
  <2> HIDE DEF body
  <2> QED BY <2>4
<1> HIDE DEF iter
<1>5. iter[1..0] = l
  BY <1>4
<1>6. ASSUME NEW k \in 1..Len(ps), iter[1..(k - 1)] \in Sound
      PROVE  iter[1..k] = MoveStep(changed)[<<iter[1..(k - 1)], ps[k]>>]
  <2>1. Max(1..k) = k /\ (1..k) \ {k} = 1..(k - 1)
    BY UpToNumber
  <2>2. k \in 1..k /\ 1..k \in SUBSET DOMAIN ps
    BY <1>2
  <2>3. iter[1..k] = MovePoint(iter[1..(k - 1)], ps[k], changed)
    BY <1>4, <2>1, <2>2
  <2> QED BY <1>2, <1>3, <1>6, <2>3
<1>7. Stepwise(Sound, MoveStep(changed), l, ps, iter[1..Len(ps)])
  BY <1>3, <1>5, <1>6, FoldSteps
<1> QED BY <1>1, <1>2, <1>7

-----------------------------------------------------------------------------
(* What one point does to the counts *)

\* The contacts are the captured points, and their speed is timed.
Counted(l) ==
  /\ l.contacts = Cardinality(l.captured)
  /\ l.timed = [p \in Pointers |-> IF p \in l.captured THEN 1 ELSE 0]

Pressed(l) == l.pressed = (l.captured # {})

\* All that is left of the counts when touches have been lost.
Loose(l) ==
  /\ ~l.failed /\ l.placed = Tracked(l) /\ l.inside = Tracked(l)
  /\ l.contacts <= Cardinality(l.captured)

LEMMA CapturedFinite ==
  ASSUME NEW l \in Sound
  PROVE  /\ IsFiniteSet(l.captured) /\ Cardinality(l.captured) \in Nat
         /\ IsFiniteSet(Tracked(l)) /\ Cardinality(Tracked(l)) = Len(l.points)
         /\ Len(l.points) \in Nat /\ l.contacts \in Int
<1>1. /\ l.points \in Seq(Pointers) /\ Distinct(l.points) /\ l.captured \subseteq Tracked(l)
      /\ l.contacts \in Int
  BY DEF Sound, Lists
<1>2. IsFiniteSet(Tracked(l)) /\ Cardinality(Tracked(l)) = Len(l.points) /\ Len(l.points) \in Nat
  BY <1>1, ListLength DEF Tracked
<1>3. IsFiniteSet(l.captured)
  BY <1>1, <1>2, FS_Subset
<1> QED BY <1>1, <1>2, <1>3, FS_CardinalityType

LEMMA DownCounts ==
  ASSUME NEW l \in Sound, NEW p \in Pointers, p \notin l.captured
  PROVE  LET m == DownPoint(l, p)
         IN /\ Counted(l) => Counted(m)
            /\ Counted(l) /\ Pressed(l) => Pressed(m)
            /\ Loose(l) => Loose(m)
<1> DEFINE m == DownPoint(l, p)
<1>1. /\ Tracked(m) = Tracked(l) \cup {p} /\ m.captured = l.captured \cup {p}
      /\ m.inside = l.inside \cup {p} /\ m.placed = l.placed \cup {p}
      /\ m.contacts = l.contacts + 1 /\ m.timed = [l.timed EXCEPT ![p] = @ + 1]
      /\ m.pressed = (l.pressed \/ l.contacts + 1 = 1)
      /\ \/ device = "mouse"
         \/ l.placed = Tracked(l) /\ l.contacts < Cardinality(l.captured \cup {p})
         => ~m.failed
  BY PointGoesDown
<1>2. IsFiniteSet(l.captured) /\ Cardinality(l.captured) \in Nat /\ l.contacts \in Int
  BY CapturedFinite
<1>3. Cardinality(l.captured \cup {p}) = Cardinality(l.captured) + 1
  BY <1>2, FS_AddElement
<1> HIDE DEF m
<1>4. Counted(l) => Counted(m)
  BY <1>1, <1>3 DEF Counted
<1>5. Counted(l) /\ Pressed(l) => Pressed(m)
  <2>1. l.captured = {} => Cardinality(l.captured) = 0
    BY FS_EmptySet
  <2>2. Counted(l) /\ l.captured = {} => l.contacts + 1 = 1
    BY <2>1 DEF Counted
  <2>3. m.captured # {}
    BY <1>1
  <2>4. Counted(l) /\ Pressed(l) => m.pressed = TRUE
    BY <1>1, <2>2 DEF Pressed
  <2> QED BY <2>3, <2>4 DEF Pressed
<1>6. Loose(l) => Loose(m)
  BY <1>1, <1>2, <1>3 DEF Loose
<1> QED BY <1>4, <1>5, <1>6 DEF m

LEMMA UpCounts ==
  ASSUME NEW l \in Sound, NEW p \in Pointers, NEW known \in BOOLEAN
  PROVE  LET m == UpPoint(l, p, known)
         IN /\ Counted(l) /\ (l.wasCaptured => p \in l.captured) => Counted(m)
            /\ Counted(l) /\ Pressed(l) /\ known /\ (l.wasCaptured => p \in l.captured)
                 => Pressed(m)
            /\ Loose(l) /\ (p \in Tracked(l) => known) => Loose(m)
<1> DEFINE m == UpPoint(l, p, known)
           was == l.wasCaptured \/ p \in l.captured
<1>1. /\ l.failed \/ p \notin Tracked(l) => m = l
      /\ ~l.failed /\ p \in Tracked(l) =>
           /\ Tracked(m) = (IF p \in l.inside THEN Tracked(l) ELSE Tracked(l) \ {p})
           /\ m.captured = l.captured \ {p} /\ m.inside = l.inside
           /\ m.placed = (IF p \in l.inside THEN With(l.placed, p, known)
                                            ELSE l.placed \ {p})
           /\ m.contacts = (IF was THEN l.contacts - 1 ELSE l.contacts)
           /\ m.timed = (IF was THEN Less(l.timed, p) ELSE l.timed)
           /\ m.pressed = (l.pressed /\ ~(was /\ m.contacts = 0 /\ known))
           /\ /\ known
              /\ \/ device = "mouse"
                 \/ m.placed = Tracked(m) /\ m.contacts <= Cardinality(m.captured)
              => ~m.failed
  BY PointGoesUp
<1>2. /\ IsFiniteSet(l.captured) /\ Cardinality(l.captured) \in Nat /\ l.contacts \in Int
      /\ l.timed \in [Pointers -> Nat]
  BY CapturedFinite DEF Sound, Lists
<1>3. /\ Cardinality(l.captured \ {p}) =
           (IF p \in l.captured THEN Cardinality(l.captured) - 1 ELSE Cardinality(l.captured))
      /\ Cardinality(l.captured \ {p}) \in Nat
      /\ Cardinality(l.captured \ {p}) = 0 => l.captured \ {p} = {}
      /\ l.captured \ {p} = {} => Cardinality(l.captured \ {p}) = 0
  <2>1. IsFiniteSet(l.captured \ {p})
    BY <1>2, FS_RemoveElement
  <2> QED BY <1>2, <2>1, FS_RemoveElement, FS_CardinalityType, FS_EmptySet
<1>4. CASE l.failed \/ p \notin Tracked(l)
  BY <1>1, <1>4
<1>5. CASE ~l.failed /\ p \in Tracked(l)
  <2> HIDE DEF m
  <2>1. ASSUME Counted(l), l.wasCaptured => p \in l.captured PROVE Counted(m)
    <3>1. m.contacts = Cardinality(m.captured)
      BY <1>1, <1>3, <1>5, <2>1 DEF Counted
    <3>2. m.timed = [q \in Pointers |-> IF q \in m.captured THEN 1 ELSE 0]
      <4>1. CASE p \in l.captured
        BY <1>1, <1>5, <2>1, <4>1 DEF Counted, Less
      <4>2. CASE p \notin l.captured
        BY <1>1, <1>5, <2>1, <4>2 DEF Counted
      <4> QED BY <4>1, <4>2
    <3> QED BY <3>1, <3>2 DEF Counted
  <2>2. ASSUME Counted(l), Pressed(l), known, l.wasCaptured => p \in l.captured
        PROVE  Pressed(m)
    <3>1. m.contacts = Cardinality(l.captured \ {p}) /\ m.captured = l.captured \ {p}
      BY <1>1, <1>5, <2>1, <2>2 DEF Counted
    <3>2. m.pressed = (l.captured # {} /\ ~(was /\ m.contacts = 0))
      BY <1>1, <1>5, <2>2 DEF Pressed
    <3>3. p \notin l.captured => l.captured \ {p} = l.captured /\ ~was
      BY <2>2
    <3>4. p \in l.captured => was /\ l.captured # {}
      OBVIOUS
    <3> HIDE DEF was
    <3>5. CASE p \in l.captured
      BY <1>3, <3>1, <3>2, <3>4, <3>5 DEF Pressed
    <3>6. CASE p \notin l.captured
      BY <1>3, <3>1, <3>2, <3>3, <3>6 DEF Pressed
    <3> QED BY <3>5, <3>6
  <2>3. ASSUME Loose(l), known PROVE Loose(m)
    <3>1. /\ Tracked(m) = Tracked(l) /\ m.placed = Tracked(m) /\ m.inside = Tracked(m)
      BY <1>1, <1>5, <2>3 DEF Loose, With
    <3>2. m.contacts <= Cardinality(m.captured)
      <4>1. l.contacts <= Cardinality(l.captured) /\ m.captured = l.captured \ {p}
        BY <1>1, <1>5, <2>3 DEF Loose
      <4>2. CASE was
        <5>1. m.contacts = l.contacts - 1
          BY <1>1, <1>5, <4>2
        <5> QED BY <1>2, <1>3, <4>1, <5>1
      <4>3. CASE ~was
        <5>1. m.contacts = l.contacts /\ p \notin l.captured
          BY <1>1, <1>5, <4>3
        <5> QED BY <1>2, <1>3, <4>1, <5>1
      <4> QED BY <4>2, <4>3
    <3> QED BY <1>1, <1>5, <2>3, <3>1, <3>2 DEF Loose
  <2> QED BY <1>5, <2>1, <2>2, <2>3 DEF m
<1> QED BY <1>4, <1>5

-----------------------------------------------------------------------------
(* What the points of an event do *)

\* The first k points of an event.
Firsts(ps, k) == {ps[i] : i \in 1..k}

LEMMA FirstPoints ==
  ASSUME NEW ps \in Seq(Pointers)
  PROVE  /\ Len(ps) \in Nat /\ Firsts(ps, 0) = {} /\ Firsts(ps, Len(ps)) = ToSet(ps)
         /\ \A k \in 1..Len(ps) :
              /\ ps[k] \in Pointers /\ k - 1 \in 0..Len(ps)
              /\ Firsts(ps, k) = Firsts(ps, k - 1) \cup {ps[k]}
         /\ Distinct(ps) => \A k \in 1..Len(ps) : ps[k] \notin Firsts(ps, k - 1)
<1>1. Len(ps) \in Nat /\ \A i \in 1..Len(ps) : ps[i] \in Pointers
  BY LenProperties, ElementOfSeq
<1>2. Firsts(ps, 0) = {}
  BY DEF Firsts
<1>3. Firsts(ps, Len(ps)) = ToSet(ps)
  <2> SUFFICES ASSUME NEW x PROVE x \in Firsts(ps, Len(ps)) <=> x \in ToSet(ps)
    OBVIOUS
  <2> QED BY SetOfList DEF Firsts
<1>4. ASSUME NEW k \in 1..Len(ps)
      PROVE  /\ k - 1 \in 0..Len(ps) /\ Firsts(ps, k) = Firsts(ps, k - 1) \cup {ps[k]}
             /\ Distinct(ps) => ps[k] \notin Firsts(ps, k - 1)
  <2>1. k \in Nat /\ k >= 1 /\ 1..k = 1..(k - 1) \cup {k} /\ k - 1 \in 0..Len(ps)
    BY <1>1
  <2>2. Distinct(ps) => \A i \in 1..(k - 1) : ps[i] # ps[k]
    BY <1>1, <2>1 DEF Distinct
  <2> QED BY <2>1, <2>2 DEF Firsts
<1> QED BY <1>1, <1>2, <1>3, <1>4

\* What holds of the list before the first point, and is kept by each, holds at the end.
LEMMA PointByPoint ==
  ASSUME NEW n \in Nat, NEW Q, 0 \in Q, \A k \in 1..n : k - 1 \in Q => k \in Q
  PROVE  n \in Q
<1> DEFINE T == {k \in Nat : k <= n => k \in Q}
<1>1. 0 \in T
  OBVIOUS
<1>2. ASSUME NEW k \in Nat, k \in T PROVE k + 1 \in T
  <2>1. k + 1 <= n => k + 1 \in 1..n /\ (k + 1) - 1 = k /\ k \in Q
    BY <1>2
  <2> QED BY <2>1
<1>3. \A k \in Nat : k \in T
  <2> HIDE DEF T
  <2> QED BY <1>1, <1>2, AllNumbers
<1> QED BY <1>3

LEMMA PointsEnter ==
  ASSUME NEW l \in Sound, NEW ps \in Seq(Pointers)
  PROVE  LET m == UpdatePointersEnter(l, ps)
         IN /\ m \in Sound /\ Tracked(m) = Tracked(l) \cup ToSet(ps)
            /\ m.captured = l.captured /\ m.inside = l.inside \cup ToSet(ps)
            /\ m.placed = l.placed \cup ToSet(ps)
            /\ SameCounts(l, m) /\ SameCapture(l, m) /\ SameLocals(l, m)
<1> DEFINE r == UpdatePointersEnter(l, ps)
<1>1. PICK f \in [0..Len(ps) -> Sound] :
        /\ f[0] = l /\ f[Len(ps)] = r
        /\ \A k \in 1..Len(ps) : f[k] = EnterStep[<<f[k - 1], ps[k]>>]
  BY EnterFold DEF Stepwise
<1> HIDE DEF r
<1> DEFINE Entered(m, S) ==
             /\ Tracked(m) = Tracked(l) \cup S
             /\ m.captured = l.captured /\ m.inside = l.inside \cup S
             /\ m.placed = l.placed \cup S
             /\ SameCounts(l, m) /\ SameCapture(l, m) /\ SameLocals(l, m)
           Q == {k \in 0..Len(ps) : Entered(f[k], Firsts(ps, k))}
<1>2. 0 \in Q
  BY <1>1, FirstPoints DEF SameCounts, SameCapture, SameLocals
<1>3. ASSUME NEW k \in 1..Len(ps), k - 1 \in Q PROVE k \in Q
  <2>1. f[k - 1] \in Sound /\ ps[k] \in Pointers /\ k \in 0..Len(ps)
    BY FirstPoints
  <2>2. f[k] = EnterPoint(f[k - 1], ps[k])
    BY <1>1, <2>1 DEF EnterStep
  <2> DEFINE a == f[k - 1]
             m == f[k]
  <2>3. /\ Tracked(m) = Tracked(a) \cup {ps[k]}
        /\ m.captured = a.captured /\ m.inside = a.inside \cup {ps[k]}
        /\ m.placed = a.placed \cup {ps[k]}
        /\ SameCounts(a, m) /\ SameCapture(a, m) /\ SameLocals(a, m)
    BY <2>1, <2>2, PointEnters
  <2>4. Entered(a, Firsts(ps, k - 1))
    BY <1>3
  <2>5. Firsts(ps, k) = Firsts(ps, k - 1) \cup {ps[k]}
    BY FirstPoints
  <2> HIDE DEF a, m
  <2>6. Entered(m, Firsts(ps, k))
    BY <2>3, <2>4, <2>5 DEF SameCounts, SameCapture, SameLocals
  <2> QED BY <2>1, <2>6 DEF m
<1>4. Len(ps) \in Q
  <2> HIDE DEF Q
  <2> QED BY <1>2, <1>3, FirstPoints, PointByPoint
<1>5. r \in Sound /\ Firsts(ps, Len(ps)) = ToSet(ps)
  BY <1>1, FirstPoints
<1> QED BY <1>1, <1>4, <1>5 DEF r

LEMMA PointsMove ==
  ASSUME NEW l \in Sound, NEW ps \in Seq(Pointers), NEW changed \in BOOLEAN
  PROVE  LET m == UpdatePointersMove(l, ps, changed)
         IN /\ m \in Sound /\ Tracked(m) = Tracked(l) \cup ToSet(ps)
            /\ m.captured = l.captured /\ m.placed = l.placed \cup ToSet(ps)
            /\ l.inside = Tracked(l) => m.inside = Tracked(m)
            /\ ToSet(ps) \subseteq Tracked(l) => m.inside = l.inside
            /\ SameCounts(l, m) /\ SameCapture(l, m) /\ SameLocals(l, m)
<1> DEFINE r == UpdatePointersMove(l, ps, changed)
<1>1. PICK f \in [0..Len(ps) -> Sound] :
        /\ f[0] = l /\ f[Len(ps)] = r
        /\ \A k \in 1..Len(ps) : f[k] = MoveStep(changed)[<<f[k - 1], ps[k]>>]
  BY MoveFold DEF Stepwise
<1> HIDE DEF r
<1> DEFINE After(m, S) ==
             /\ Tracked(m) = Tracked(l) \cup S
             /\ m.captured = l.captured /\ m.placed = l.placed \cup S
             /\ l.inside = Tracked(l) => m.inside = Tracked(m)
             /\ ToSet(ps) \subseteq Tracked(l) => m.inside = l.inside
             /\ SameCounts(l, m) /\ SameCapture(l, m) /\ SameLocals(l, m)
           Q == {k \in 0..Len(ps) : After(f[k], Firsts(ps, k))}
<1>2. 0 \in Q
  BY <1>1, FirstPoints DEF SameCounts, SameCapture, SameLocals
<1>3. ASSUME NEW k \in 1..Len(ps), k - 1 \in Q PROVE k \in Q
  <2>1. f[k - 1] \in Sound /\ ps[k] \in Pointers /\ k \in 0..Len(ps) /\ ps[k] \in ToSet(ps)
    BY FirstPoints, SetOfList
  <2>2. f[k] = MovePoint(f[k - 1], ps[k], changed)
    BY <1>1, <2>1 DEF MoveStep
  <2> DEFINE a == f[k - 1]
             m == f[k]
  <2>3. /\ Tracked(m) = Tracked(a) \cup {ps[k]}
        /\ m.captured = a.captured /\ m.placed = a.placed \cup {ps[k]}
        /\ m.inside = (IF ps[k] \in Tracked(a) THEN a.inside ELSE a.inside \cup {ps[k]})
        /\ SameCounts(a, m) /\ SameCapture(a, m) /\ SameLocals(a, m)
    BY <2>1, <2>2, PointMoves
  <2>4. After(a, Firsts(ps, k - 1))
    BY <1>3
  <2>5. Firsts(ps, k) = Firsts(ps, k - 1) \cup {ps[k]}
    BY FirstPoints
  <2> HIDE DEF a, m
  <2>6. After(m, Firsts(ps, k))
    BY <2>1, <2>3, <2>4, <2>5 DEF SameCounts, SameCapture, SameLocals
  <2> QED BY <2>1, <2>6 DEF m
<1>4. Len(ps) \in Q
  <2> HIDE DEF Q
  <2> QED BY <1>2, <1>3, FirstPoints, PointByPoint
<1>5. r \in Sound /\ Firsts(ps, Len(ps)) = ToSet(ps)
  BY <1>1, FirstPoints
<1> QED BY <1>1, <1>4, <1>5 DEF r

LEMMA PointsGoDown ==
  ASSUME NEW l \in Sound, NEW ps \in Seq(Pointers)
  PROVE  LET m == UpdatePointersDown(l, ps)
         IN /\ m \in Sound /\ SameCapture(l, m)
            /\ Loose(l) /\ Distinct(ps) /\ l.captured \cap ToSet(ps) = {} =>
                 /\ Loose(m) /\ Tracked(m) = Tracked(l) \cup ToSet(ps)
                 /\ m.captured = l.captured \cup ToSet(ps)
                 /\ Counted(l) => Counted(m)
                 /\ Counted(l) /\ Pressed(l) => Pressed(m)
<1> DEFINE r == UpdatePointersDown(l, ps)
<1>1. PICK f \in [0..Len(ps) -> Sound] :
        /\ f[0] = l /\ f[Len(ps)] = r
        /\ \A k \in 1..Len(ps) : f[k] = DownStep[<<f[k - 1], ps[k]>>]
  BY DownFold DEF Stepwise
<1> HIDE DEF r
<1> DEFINE After(m, S) ==
             /\ SameCapture(l, m)
             /\ Loose(l) /\ Distinct(ps) /\ l.captured \cap ToSet(ps) = {} =>
                  /\ Loose(m) /\ Tracked(m) = Tracked(l) \cup S
                  /\ m.captured = l.captured \cup S
                  /\ Counted(l) => Counted(m)
                  /\ Counted(l) /\ Pressed(l) => Pressed(m)
           Q == {k \in 0..Len(ps) : After(f[k], Firsts(ps, k))}
<1>2. 0 \in Q
  BY <1>1, FirstPoints DEF SameCapture, SameCounts
<1>3. ASSUME NEW k \in 1..Len(ps), k - 1 \in Q PROVE k \in Q
  <2>1. f[k - 1] \in Sound /\ ps[k] \in Pointers /\ k \in 0..Len(ps) /\ ps[k] \in ToSet(ps)
    BY FirstPoints, SetOfList
  <2>2. f[k] = IF f[k - 1].failed THEN f[k - 1] ELSE DownPoint(f[k - 1], ps[k])
    BY <1>1, <2>1 DEF DownStep, DownOnce
  <2> DEFINE a == f[k - 1]
             m == f[k]
             p == ps[k]
  <2>4. After(a, Firsts(ps, k - 1))
    BY <1>3
  <2>5. Firsts(ps, k) = Firsts(ps, k - 1) \cup {p} /\ (Distinct(ps) => p \notin Firsts(ps, k - 1))
    BY FirstPoints
  <2>0. /\ a \in Sound /\ p \in Pointers /\ p \in ToSet(ps)
        /\ m = (IF a.failed THEN a ELSE DownPoint(a, p))
    BY <2>1, <2>2
  <2> HIDE DEF a, m, p
  <2>6. LET d == DownPoint(a, p)
        IN /\ SameCapture(a, d) /\ Tracked(d) = Tracked(a) \cup {p}
           /\ d.captured = a.captured \cup {p}
    BY <2>0, PointGoesDown
  <2>7. p \notin a.captured =>
          LET d == DownPoint(a, p)
          IN /\ Counted(a) => Counted(d)
             /\ Counted(a) /\ Pressed(a) => Pressed(d)
             /\ Loose(a) => Loose(d)
    BY <2>0, DownCounts
  <2>9. Loose(l) /\ Distinct(ps) /\ l.captured \cap ToSet(ps) = {} =>
          p \notin a.captured /\ ~a.failed
    BY <2>0, <2>4, <2>5 DEF Loose
  <2>10. m = a \/ m = DownPoint(a, p)
    BY <2>0
  <2>11. Loose(l) /\ Distinct(ps) /\ l.captured \cap ToSet(ps) = {} => m = DownPoint(a, p)
    BY <2>0, <2>9
  <2>12. SameCapture(l, m)
    BY <2>4, <2>6, <2>10 DEF SameCapture
  <2>8. After(m, Firsts(ps, k))
    BY <2>4, <2>5, <2>6, <2>7, <2>9, <2>11, <2>12
  <2> QED BY <2>1, <2>8 DEF m
<1>4. Len(ps) \in Q
  <2> HIDE DEF Q
  <2> QED BY <1>2, <1>3, FirstPoints, PointByPoint
<1>5. r \in Sound /\ Firsts(ps, Len(ps)) = ToSet(ps)
  BY <1>1, FirstPoints
<1> QED BY <1>1, <1>4, <1>5 DEF r

LEMMA PointsGoUp ==
  ASSUME NEW l \in Sound, NEW ps \in Seq(Pointers), NEW known \in BOOLEAN
  PROVE  LET m == UpdatePointersUp(l, ps, known)
         IN /\ m \in Sound /\ SameCapture(l, m)
            /\ Loose(l) /\ known =>
                 /\ Loose(m) /\ Tracked(m) = Tracked(l)
                 /\ m.captured = l.captured \ ToSet(ps)
                 /\ Distinct(ps) /\ ToSet(ps) \subseteq l.captured /\ Counted(l) =>
                      Counted(m) /\ (Pressed(l) => Pressed(m))
<1> DEFINE r == UpdatePointersUp(l, ps, known)
<1>1. PICK f \in [0..Len(ps) -> Sound] :
        /\ f[0] = l /\ f[Len(ps)] = r
        /\ \A k \in 1..Len(ps) : f[k] = UpStep(known)[<<f[k - 1], ps[k]>>]
  BY UpFold DEF Stepwise
<1> HIDE DEF r
<1> DEFINE After(m, S) ==
             /\ SameCapture(l, m)
             /\ Loose(l) /\ known =>
                  /\ Loose(m) /\ Tracked(m) = Tracked(l)
                  /\ m.captured = l.captured \ S
                  /\ Distinct(ps) /\ ToSet(ps) \subseteq l.captured /\ Counted(l) =>
                       Counted(m) /\ (Pressed(l) => Pressed(m))
           Q == {k \in 0..Len(ps) : After(f[k], Firsts(ps, k))}
<1>2. 0 \in Q
  BY <1>1, FirstPoints DEF SameCapture, SameCounts
<1>3. ASSUME NEW k \in 1..Len(ps), k - 1 \in Q PROVE k \in Q
  <2>1. f[k - 1] \in Sound /\ ps[k] \in Pointers /\ k \in 0..Len(ps) /\ ps[k] \in ToSet(ps)
    BY FirstPoints, SetOfList
  <2>2. f[k] = UpPoint(f[k - 1], ps[k], known)
    BY <1>1, <2>1 DEF UpStep
  <2> DEFINE a == f[k - 1]
             m == f[k]
             p == ps[k]
  <2>4. After(a, Firsts(ps, k - 1))
    BY <1>3
  <2>5. Firsts(ps, k) = Firsts(ps, k - 1) \cup {p} /\ (Distinct(ps) => p \notin Firsts(ps, k - 1))
    BY FirstPoints
  <2> DEFINE on == known
  <2>0. on \in BOOLEAN /\ m = UpPoint(a, p, on)
    BY <2>2
  <2>3. Loose(l) /\ known => (p \in Tracked(a) => on)
    BY <2>4 DEF Loose
  <2> HIDE DEF a, m, p, on
  <2>6. /\ SameCapture(a, m) /\ (a.failed \/ p \notin Tracked(a) => m = a)
        /\ ~a.failed /\ p \in Tracked(a) =>
             /\ Tracked(m) = (IF p \in a.inside THEN Tracked(a) ELSE Tracked(a) \ {p})
             /\ m.captured = a.captured \ {p}
    BY <2>0, <2>1, PointGoesUp DEF a, p
  <2>7. /\ Counted(a) /\ (a.wasCaptured => p \in a.captured) => Counted(m)
        /\ Counted(a) /\ Pressed(a) /\ on /\ (a.wasCaptured => p \in a.captured) => Pressed(m)
        /\ Loose(a) /\ (p \in Tracked(a) => on) => Loose(m)
    BY <2>0, <2>1, UpCounts DEF a, p
  <2>9. a.captured \subseteq Tracked(a) /\ p \in ToSet(ps)
    BY <2>1 DEF Sound, a, p
  <2>12. SameCapture(l, m)
    BY <2>4, <2>6 DEF SameCapture
  <2>13. Loose(l) /\ known =>
           Loose(m) /\ Tracked(m) = Tracked(l) /\ m.captured = l.captured \ Firsts(ps, k)
    <3>1. ASSUME Loose(l), known
          PROVE  Loose(m) /\ Tracked(m) = Tracked(a) /\ m.captured = a.captured \ {p}
      <4>1. Loose(a)
        BY <2>4, <3>1
      <4>2. Tracked(m) = Tracked(a) /\ m.captured = a.captured \ {p}
        BY <2>6, <2>9, <4>1 DEF Loose
      <4> QED BY <2>3, <2>7, <3>1, <4>1, <4>2
    <3> QED BY <2>4, <2>5, <3>1
  <2>14. ASSUME Loose(l), known, Distinct(ps), ToSet(ps) \subseteq l.captured, Counted(l)
         PROVE  Counted(m) /\ (Pressed(l) => Pressed(m))
    <3>1. Counted(a) /\ (Pressed(l) => Pressed(a)) /\ p \in a.captured
      BY <2>4, <2>5, <2>9, <2>14
    <3>2. on
      BY <2>3, <2>9, <2>14, <3>1
    <3> QED BY <2>7, <3>1, <3>2
  <2>8. After(m, Firsts(ps, k))
    BY <2>12, <2>13, <2>14
  <2> QED BY <2>1, <2>8 DEF m
<1>4. Len(ps) \in Q
  <2> HIDE DEF Q
  <2> QED BY <1>2, <1>3, FirstPoints, PointByPoint
<1>5. r \in Sound /\ Firsts(ps, Len(ps)) = ToSet(ps)
  BY <1>1, FirstPoints
<1> QED BY <1>1, <1>4, <1>5 DEF r

LEMMA PointsLifted ==
  ASSUME NEW l \in Sound, NEW ps \in Seq(Pointers)
  PROVE  LET m == LiftInPlace(l, ps)
         IN /\ m \in Sound /\ SameCapture(l, m)
            /\ Loose(l) =>
                 /\ Loose(m) /\ Tracked(m) = Tracked(l)
                 /\ m.captured = l.captured \ ToSet(ps)
                 /\ Distinct(ps) /\ ToSet(ps) \subseteq l.captured /\ Counted(l) =>
                      Counted(m) /\ (Pressed(l) => Pressed(m))
<1> DEFINE r == LiftInPlace(l, ps)
<1>1. PICK f \in [0..Len(ps) -> Sound] :
        /\ f[0] = l /\ f[Len(ps)] = r
        /\ \A k \in 1..Len(ps) : f[k] = LiftStep[<<f[k - 1], ps[k]>>]
  BY LiftFold DEF Stepwise
<1> HIDE DEF r
<1> DEFINE After(m, S) ==
             /\ SameCapture(l, m)
             /\ Loose(l) =>
                  /\ Loose(m) /\ Tracked(m) = Tracked(l)
                  /\ m.captured = l.captured \ S
                  /\ Distinct(ps) /\ ToSet(ps) \subseteq l.captured /\ Counted(l) =>
                       Counted(m) /\ (Pressed(l) => Pressed(m))
           Q == {k \in 0..Len(ps) : After(f[k], Firsts(ps, k))}
<1>2. 0 \in Q
  BY <1>1, FirstPoints DEF SameCapture, SameCounts
<1>3. ASSUME NEW k \in 1..Len(ps), k - 1 \in Q PROVE k \in Q
  <2>1. f[k - 1] \in Sound /\ ps[k] \in Pointers /\ k \in 0..Len(ps) /\ ps[k] \in ToSet(ps)
    BY FirstPoints, SetOfList
  <2>2. f[k] = UpPoint(f[k - 1], ps[k], ps[k] \in f[k - 1].placed)
    BY <1>1, <2>1 DEF LiftStep, LiftOnce
  <2> DEFINE a == f[k - 1]
             m == f[k]
             p == ps[k]
  <2>4. After(a, Firsts(ps, k - 1))
    BY <1>3
  <2>5. Firsts(ps, k) = Firsts(ps, k - 1) \cup {p} /\ (Distinct(ps) => p \notin Firsts(ps, k - 1))
    BY FirstPoints
  <2> DEFINE on == p \in a.placed
  <2>0. on \in BOOLEAN /\ m = UpPoint(a, p, on)
    BY <2>2
  <2>3. Loose(l) => (p \in Tracked(a) => on)
    BY <2>4 DEF Loose
  <2> HIDE DEF a, m, p, on
  <2>6. /\ SameCapture(a, m) /\ (a.failed \/ p \notin Tracked(a) => m = a)
        /\ ~a.failed /\ p \in Tracked(a) =>
             /\ Tracked(m) = (IF p \in a.inside THEN Tracked(a) ELSE Tracked(a) \ {p})
             /\ m.captured = a.captured \ {p}
    BY <2>0, <2>1, PointGoesUp DEF a, p
  <2>7. /\ Counted(a) /\ (a.wasCaptured => p \in a.captured) => Counted(m)
        /\ Counted(a) /\ Pressed(a) /\ on /\ (a.wasCaptured => p \in a.captured) => Pressed(m)
        /\ Loose(a) /\ (p \in Tracked(a) => on) => Loose(m)
    BY <2>0, <2>1, UpCounts DEF a, p
  <2>9. a.captured \subseteq Tracked(a) /\ p \in ToSet(ps)
    BY <2>1 DEF Sound, a, p
  <2>12. SameCapture(l, m)
    BY <2>4, <2>6 DEF SameCapture
  <2>13. Loose(l) =>
           Loose(m) /\ Tracked(m) = Tracked(l) /\ m.captured = l.captured \ Firsts(ps, k)
    <3>1. ASSUME Loose(l)
          PROVE  Loose(m) /\ Tracked(m) = Tracked(a) /\ m.captured = a.captured \ {p}
      <4>1. Loose(a)
        BY <2>4, <3>1
      <4>2. Tracked(m) = Tracked(a) /\ m.captured = a.captured \ {p}
        BY <2>6, <2>9, <4>1 DEF Loose
      <4> QED BY <2>3, <2>7, <3>1, <4>1, <4>2
    <3> QED BY <2>4, <2>5, <3>1
  <2>14. ASSUME Loose(l), Distinct(ps), ToSet(ps) \subseteq l.captured, Counted(l)
         PROVE  Counted(m) /\ (Pressed(l) => Pressed(m))
    <3>1. Counted(a) /\ (Pressed(l) => Pressed(a)) /\ p \in a.captured
      BY <2>4, <2>5, <2>9, <2>14
    <3>2. on
      BY <2>3, <2>9, <2>14, <3>1
    <3> QED BY <2>7, <3>1, <3>2
  <2>8. After(m, Firsts(ps, k))
    BY <2>12, <2>13, <2>14
  <2> QED BY <2>1, <2>8 DEF m
<1>4. Len(ps) \in Q
  <2> HIDE DEF Q
  <2> QED BY <1>2, <1>3, FirstPoints, PointByPoint
<1>5. r \in Sound /\ Firsts(ps, Len(ps)) = ToSet(ps)
  BY <1>1, FirstPoints
<1> QED BY <1>1, <1>4, <1>5 DEF r

LEMMA PointsExit ==
  ASSUME NEW l \in Sound, NEW ps \in Seq(Pointers), NEW known \in BOOLEAN
  PROVE  LET m == UpdatePointersExit(l, ps, known)
         IN /\ m \in Sound /\ SameCapture(l, m)
            /\ SameCounts(l, m) /\ m.captured = l.captured
            /\ Loose(l) /\ known /\ l.captured \cap ToSet(ps) = {} =>
                 Loose(m) /\ Tracked(m) = Tracked(l) \ ToSet(ps)
<1> DEFINE r == UpdatePointersExit(l, ps, known)
<1>1. PICK f \in [0..Len(ps) -> Sound] :
        /\ f[0] = l /\ f[Len(ps)] = r
        /\ \A k \in 1..Len(ps) : f[k] = ExitStep(known)[<<f[k - 1], ps[k]>>]
  BY ExitFold DEF Stepwise
<1> HIDE DEF r
<1> DEFINE After(m, S) ==
             /\ SameCapture(l, m)
             /\ SameCounts(l, m) /\ m.captured = l.captured
             /\ Loose(l) /\ known /\ l.captured \cap ToSet(ps) = {} =>
                  Loose(m) /\ Tracked(m) = Tracked(l) \ S
           Q == {k \in 0..Len(ps) : After(f[k], Firsts(ps, k))}
<1>2. 0 \in Q
  BY <1>1, FirstPoints DEF SameCapture, SameCounts
<1>3. ASSUME NEW k \in 1..Len(ps), k - 1 \in Q PROVE k \in Q
  <2>1. f[k - 1] \in Sound /\ ps[k] \in Pointers /\ k \in 0..Len(ps) /\ ps[k] \in ToSet(ps)
    BY FirstPoints, SetOfList
  <2>2. f[k] = ExitPoint(f[k - 1], ps[k], known)
    BY <1>1, <2>1 DEF ExitStep
  <2> DEFINE a == f[k - 1]
             m == f[k]
             p == ps[k]
  <2>4. After(a, Firsts(ps, k - 1))
    BY <1>3
  <2>5. Firsts(ps, k) = Firsts(ps, k - 1) \cup {p} /\ (Distinct(ps) => p \notin Firsts(ps, k - 1))
    BY FirstPoints
  <2>6. /\ SameCounts(a, m) /\ SameCapture(a, m)
        /\ a.failed => m = a
        /\ ~a.failed /\ p \in a.captured => m.captured = a.captured
        /\ ~a.failed /\ p \notin a.captured =>
             /\ Tracked(m) = Tracked(a) \ {p} /\ m.captured = a.captured
             /\ m.inside = a.inside \ {p} /\ m.placed = a.placed \ {p}
             /\ m.failed = IF p \in Tracked(a) THEN p \notin a.placed ELSE ~known
    BY <2>1, <2>2, PointExits
  <2> HIDE DEF a, m, p
  <2>7. SameCounts(l, m) /\ SameCapture(l, m) /\ m.captured = l.captured
    BY <2>4, <2>6 DEF SameCounts, SameCapture
  <2>9. p \in ToSet(ps)
    BY <2>1 DEF p
  <2>10. Loose(l) /\ known /\ l.captured \cap ToSet(ps) = {} =>
           Loose(m) /\ Tracked(m) = Tracked(l) \ Firsts(ps, k)
    BY <2>4, <2>5, <2>6, <2>9 DEF Loose, SameCounts
  <2>8. After(m, Firsts(ps, k))
    BY <2>7, <2>10
  <2> QED BY <2>1, <2>8 DEF m
<1>4. Len(ps) \in Q
  <2> HIDE DEF Q
  <2> QED BY <1>2, <1>3, FirstPoints, PointByPoint
<1>5. r \in Sound /\ Firsts(ps, Len(ps)) = ToSet(ps)
  BY <1>1, FirstPoints
<1> QED BY <1>1, <1>4, <1>5 DEF r

-----------------------------------------------------------------------------
(* One point, and the ends of a handler *)

LEMMA OnePointUp ==
  ASSUME NEW l \in Sound, NEW p \in Pointers, NEW known \in BOOLEAN
  PROVE  UpdatePointersUp(l, <<p>>, known) = UpPoint(l, p, known)
<1> DEFINE ps == <<p>>
<1>1. ps \in Seq(Pointers) /\ Len(ps) = 1 /\ ps[1] = p
  OBVIOUS
<1> HIDE DEF ps
<1>2. PICK f \in [0..Len(ps) -> Sound] :
        /\ f[0] = l /\ f[Len(ps)] = UpdatePointersUp(l, ps, known)
        /\ \A k \in 1..Len(ps) : f[k] = UpStep(known)[<<f[k - 1], ps[k]>>]
  BY <1>1, UpFold DEF Stepwise
<1>3. UpdatePointersUp(l, ps, known) = UpStep(known)[<<l, p>>]
  BY <1>1, <1>2
<1> QED BY <1>3 DEF UpStep, ps

LEMMA OnePointExits ==
  ASSUME NEW l \in Sound, NEW p \in Pointers, NEW known \in BOOLEAN
  PROVE  UpdatePointersExit(l, <<p>>, known) = ExitPoint(l, p, known)
<1> DEFINE ps == <<p>>
<1>1. ps \in Seq(Pointers) /\ Len(ps) = 1 /\ ps[1] = p
  OBVIOUS
<1> HIDE DEF ps
<1>2. PICK f \in [0..Len(ps) -> Sound] :
        /\ f[0] = l /\ f[Len(ps)] = UpdatePointersExit(l, ps, known)
        /\ \A k \in 1..Len(ps) : f[k] = ExitStep(known)[<<f[k - 1], ps[k]>>]
  BY <1>1, ExitFold DEF Stepwise
<1>3. UpdatePointersExit(l, ps, known) = ExitStep(known)[<<l, p>>]
  BY <1>1, <1>2
<1> QED BY <1>3 DEF ExitStep, ps

SamePoints(l, m) ==
  /\ Tracked(m) = Tracked(l) /\ m.captured = l.captured
  /\ m.inside = l.inside /\ m.placed = l.placed

\* A listener is never left without a captured pointer to count.
Heard(l) == l.listening => l.captureCount > 0

LEMMA HandlerEnds ==
  ASSUME NEW l \in Sound
  PROVE  LET m == Ended(l)
         IN /\ m \in Sound /\ SamePoints(l, m) /\ SameCounts(l, m) /\ SameCapture(l, m)
            /\ ~m.release /\ ~m.wasCaptured /\ ~m.failed
<1> DEFINE m == Ended(l)
<1>1. l \in Lists /\ Distinct(l.points)
      /\ l.captured \cup l.inside \cup l.placed \subseteq Tracked(l)
  BY DEF Sound
<1>2. m = [l EXCEPT !.release = FALSE, !.wasCaptured = FALSE, !.failed = FALSE]
  BY DEF Ended
<1> HIDE DEF m
<1>3. /\ m \in Lists /\ m.points = l.points /\ m.captured = l.captured
      /\ m.inside = l.inside /\ m.placed = l.placed /\ SameCounts(l, m) /\ SameCapture(l, m)
      /\ ~m.release /\ ~m.wasCaptured /\ ~m.failed
  BY <1>1, <1>2 DEF Lists, SameCounts, SameCapture
<1>4. Tracked(m) = Tracked(l)
  BY <1>3 DEF Tracked
<1>5. m \in Sound
  BY <1>1, <1>3, <1>4 DEF Sound
<1> QED BY <1>3, <1>4, <1>5 DEF m, SamePoints

\* What changes in the counting of captures is no more than that.
Recaptured(l, n, b) == [l EXCEPT !.captureCount = n, !.listening = b]

LEMMA CaptureChanged ==
  ASSUME NEW l \in Sound, NEW n \in Int, NEW b \in BOOLEAN
  PROVE  LET m == Recaptured(l, n, b)
         IN /\ m \in Sound /\ SamePoints(l, m) /\ SameCounts(l, m) /\ SameLocals(l, m)
            /\ m.captureCount = n /\ m.listening = b /\ m.points = l.points
<1> DEFINE m == Recaptured(l, n, b)
<1>1. l \in Lists /\ Distinct(l.points)
      /\ l.captured \cup l.inside \cup l.placed \subseteq Tracked(l)
  BY DEF Sound
<1>2. m = [l EXCEPT !.captureCount = n, !.listening = b]
  BY DEF Recaptured
<1> HIDE DEF m
<1>3. /\ m \in Lists /\ m.points = l.points /\ m.captured = l.captured
      /\ m.inside = l.inside /\ m.placed = l.placed /\ SameCounts(l, m) /\ SameLocals(l, m)
      /\ m.captureCount = n /\ m.listening = b
  BY <1>1, <1>2 DEF Lists, SameCounts, SameLocals
<1>4. Tracked(m) = Tracked(l)
  BY <1>3 DEF Tracked
<1>5. m \in Sound
  BY <1>1, <1>3, <1>4 DEF Sound
<1> QED BY <1>3, <1>4, <1>5 DEF m, SamePoints

LEMMA PointerIsCaptured ==
  ASSUME NEW l \in Sound
  PROVE  LET m == CapturePointer(l)
         IN /\ m \in Sound /\ SamePoints(l, m) /\ SameCounts(l, m) /\ SameLocals(l, m)
            /\ Heard(l) => Heard(m)
            /\ ~l.failed => /\ m.captureCount = l.captureCount + 1
                            /\ m.listening = (l.listening \/ l.captureCount = 0)
<1>1. CASE l.failed
  BY <1>1 DEF CapturePointer, SamePoints, SameCounts, SameLocals
<1>2. CASE ~l.failed
  <2> DEFINE n == l.captureCount + 1
             b == l.listening \/ l.captureCount = 0
             m == Recaptured(l, n, b)
  <2>1. l.captureCount \in Int /\ l.listening \in BOOLEAN
    BY DEF Sound, Lists
  <2>2. n \in Int /\ b \in BOOLEAN
    BY <2>1
  <2>3. CapturePointer(l) = m
    BY <1>2 DEF CapturePointer, Recaptured, Sound, Lists
  <2>4. Heard(l) /\ b => n > 0
    BY <2>1 DEF Heard
  <2>5. /\ m \in Sound /\ SamePoints(l, m) /\ SameCounts(l, m) /\ SameLocals(l, m)
        /\ m.captureCount = n /\ m.listening = b
    <3> HIDE DEF n, b
    <3> QED BY <2>2, CaptureChanged
  <2> HIDE DEF m
  <2> QED BY <1>2, <2>3, <2>4, <2>5 DEF Heard
<1> QED BY <1>1, <1>2

LEMMA PointerIsReleased ==
  ASSUME NEW l \in Sound
  PROVE  LET m == ReleasePointer(l)
         IN /\ m \in Sound /\ SamePoints(l, m) /\ SameCounts(l, m) /\ SameLocals(l, m)
            /\ Heard(l) => Heard(m)
            /\ ~l.failed /\ l.release =>
                 /\ m.captureCount = l.captureCount - 1
                 /\ m.listening = (l.listening /\ l.captureCount # 1)
            /\ ~l.release => SameCapture(l, m)
<1>1. CASE l.failed \/ ~l.release
  BY <1>1 DEF ReleasePointer, SamePoints, SameCounts, SameLocals, SameCapture
<1>2. CASE ~l.failed /\ l.release
  <2> DEFINE n == l.captureCount - 1
             b == l.listening /\ l.captureCount # 1
             m == Recaptured(l, n, b)
  <2>1. l.captureCount \in Int /\ l.listening \in BOOLEAN
    BY DEF Sound, Lists
  <2>2. n \in Int /\ b \in BOOLEAN
    BY <2>1
  <2>3. ReleasePointer(l) = m
    BY <1>2 DEF ReleasePointer, Recaptured, Sound, Lists
  <2>4. Heard(l) /\ b => n > 0
    BY <2>1 DEF Heard
  <2>5. /\ m \in Sound /\ SamePoints(l, m) /\ SameCounts(l, m) /\ SameLocals(l, m)
        /\ m.captureCount = n /\ m.listening = b
    <3> HIDE DEF n, b
    <3> QED BY <2>2, CaptureChanged
  <2> HIDE DEF m
  <2> QED BY <1>2, <2>3, <2>4, <2>5 DEF Heard
<1> QED BY <1>1, <1>2

\* The touches left in the list are lifted and leave.
LEMMA TouchesAborted ==
  ASSUME NEW l \in Sound, Heard(l)
  PROVE  LET m == AbortTouchContacts(l)
         IN /\ m \in Sound /\ Heard(m)
            /\ Loose(l) => Loose(m) /\ Tracked(m) = {}
<1> DEFINE m  == AbortTouchContacts(l)
           up == LiftInPlace(l, l.points)
           released == Recaptured(up, 0, FALSE)
<1>1. l.points \in Seq(Pointers) /\ ToSet(l.points) = Tracked(l)
      /\ l.captured \subseteq Tracked(l)
  BY DEF Sound, Lists, Tracked
<1>2. /\ up \in Sound /\ SameCapture(l, up)
      /\ Loose(l) => /\ Loose(up) /\ Tracked(up) = Tracked(l)
                     /\ up.captured = l.captured \ Tracked(l)
  BY <1>1, PointsLifted
<1> HIDE DEF up
<1>3. CASE l.points = <<>>
  <2>1. m = l
    BY <1>3 DEF AbortTouchContacts
  <2>2. Tracked(l) = {}
    BY <1>3 DEF Tracked, ToSet
  <2> QED BY <2>1, <2>2
<1>4. CASE l.points # <<>> /\ up.failed
  <2>1. m = up
    BY <1>4 DEF AbortTouchContacts, up
  <2>2. Heard(up) /\ ~Loose(up)
    BY <1>2, <1>4 DEF Heard, SameCapture, Loose
  <2> HIDE DEF m
  <2> QED BY <1>2, <2>1, <2>2 DEF m
<1>5. CASE l.points # <<>> /\ ~up.failed
  <2> DEFINE left == UpdatePointersExit(released, l.points, TRUE)
  <2>1. m = left
    BY <1>5 DEF AbortTouchContacts, Recaptured, up
  <2>2. /\ released \in Sound /\ SamePoints(up, released) /\ SameCounts(up, released)
        /\ SameLocals(up, released) /\ released.captureCount = 0 /\ released.listening = FALSE
    <3> DEFINE none == 0
               off == FALSE
    <3>1. none \in Int /\ off \in BOOLEAN /\ released = Recaptured(up, none, off)
      OBVIOUS
    <3> HIDE DEF none, off, released
    <3>2. LET m2 == Recaptured(up, none, off)
          IN /\ m2 \in Sound /\ SamePoints(up, m2) /\ SameCounts(up, m2) /\ SameLocals(up, m2)
             /\ m2.captureCount = none /\ m2.listening = off
      BY <1>2, <3>1, CaptureChanged
    <3> QED BY <3>1, <3>2 DEF none, off
  <2> HIDE DEF released
  <2>3. /\ left \in Sound /\ SameCapture(released, left)
        /\ Loose(released) /\ released.captured \cap ToSet(l.points) = {} =>
             Loose(left) /\ Tracked(left) = Tracked(released) \ ToSet(l.points)
    <3> DEFINE ps == l.points
    <3>1. ps \in Seq(Pointers) /\ released \in Sound
      BY <1>1, <2>2
    <3> HIDE DEF ps
    <3>2. LET e == UpdatePointersExit(released, ps, TRUE)
          IN /\ e \in Sound /\ SameCapture(released, e)
             /\ Loose(released) /\ TRUE /\ released.captured \cap ToSet(ps) = {} =>
                  Loose(e) /\ Tracked(e) = Tracked(released) \ ToSet(ps)
      BY <3>1, PointsExit
    <3> QED BY <3>2 DEF ps
  <2>4. Heard(left)
    BY <2>2, <2>3 DEF Heard, SameCapture
  <2>5. ASSUME Loose(l) PROVE Loose(left) /\ Tracked(left) = {}
    <3>1. /\ Loose(up) /\ Tracked(up) = Tracked(l) /\ up.captured = {}
      BY <1>1, <1>2, <2>5
    <3>2. Loose(released)
      BY <2>2, <3>1 DEF Loose, SamePoints, SameCounts, SameLocals
    <3>3. released.captured = {} /\ Tracked(released) = Tracked(l)
      BY <2>2, <3>1 DEF SamePoints
    <3> QED BY <1>1, <2>3, <3>2, <3>3
  <2> HIDE DEF left, m
  <2> QED BY <2>1, <2>3, <2>4, <2>5 DEF m
<1> QED BY <1>3, <1>4, <1>5

\* The touches of one event: one or two, none of them twice.
LEMMA TouchesOfEvent ==
  ASSUME NEW S, S \subseteq Pointers, NEW ps \in Changes(S)
  PROVE  /\ ps \in Seq(Pointers) /\ Distinct(ps) /\ ToSet(ps) \subseteq S /\ ToSet(ps) # {}
         /\ IsFiniteSet(ToSet(ps)) /\ Cardinality(ToSet(ps)) = Len(ps) /\ Len(ps) \in Nat
         /\ Len(ps) > 0
<1>1. PICK n \in 1..2 : ps \in [1..n -> S]
  BY DEF Changes
<1>2. IsInjective(ps)
  BY DEF Changes
<1>3. ps \in Seq(S) /\ Len(ps) = n /\ n \in Nat
  BY <1>1
<1>4. Distinct(ps)
  BY <1>1, <1>2, <1>3 DEF IsInjective, Distinct
<1>5. ps \in Seq(Pointers) /\ ToSet(ps) \subseteq S /\ ToSet(ps) # {}
  <2>1. \A i \in 1..n : ps[i] \in Pointers /\ ps[i] \in S
    BY <1>1
  <2>2. ps \in [1..n -> Pointers]
    BY <1>1, <2>1
  <2>3. ps \in Seq(Pointers)
    BY <1>3, <2>2
  <2>4. ps[1] \in ToSet(ps)
    BY <1>3, SetOfList
  <2>5. \A x \in ToSet(ps) : x \in S
    BY <1>3, <2>1, SetOfList
  <2> QED BY <2>3, <2>4, <2>5
<1> QED BY <1>3, <1>4, <1>5, ListLength

LEMMA EmptyIsSound ==
  /\ EmptyList \in Sound /\ Heard(EmptyList) /\ Tracked(EmptyList) = {}
  /\ EmptyList.captured = {} /\ EmptyList.inside = {} /\ EmptyList.placed = {}
  /\ EmptyList.contacts = 0 /\ EmptyList.captureCount = 0
  /\ EmptyList.timed = [p \in Pointers |-> 0]
  /\ ~EmptyList.pressed /\ ~EmptyList.release /\ ~EmptyList.wasCaptured /\ ~EmptyList.failed
<1>1. <<>> \in Seq(Pointers) /\ Distinct(<<>>) /\ ToSet(<<>>) = {}
  BY DEF Distinct, ToSet
<1>2. [p \in Pointers |-> 0] \in [Pointers -> Nat]
  OBVIOUS
<1>3. EmptyList \in Lists /\ ~EmptyList.listening
  BY <1>1, <1>2 DEF EmptyList, Lists
<1>4. EmptyList \in Sound
  BY <1>1, <1>3 DEF Sound, Tracked, EmptyList
<1>5. Tracked(EmptyList) = {}
  BY <1>1 DEF Tracked, EmptyList
<1> QED BY <1>3, <1>4, <1>5 DEF Heard, EmptyList

LEMMA ListCleared ==
  ASSUME NEW l \in Sound, Heard(l)
  PROVE  LET m == Cleared(l)
         IN /\ m \in Sound /\ Tracked(m) = {} /\ m.captured = {} /\ m.inside = {}
            /\ m.placed = {} /\ m.contacts = 0 /\ m.timed = l.timed /\ ~m.pressed
            /\ ~m.listening /\ ~m.release /\ ~m.wasCaptured /\ ~m.failed
            /\ l.captureCount = 0 => m.captureCount = 0
<1> DEFINE n == IF l.captureCount > 0 THEN 0 ELSE l.captureCount
           b == l.listening /\ l.captureCount <= 0
           e == EmptyList
           m == Cleared(l)
<1>1. l.captureCount \in Int /\ l.listening \in BOOLEAN /\ l.timed \in [Pointers -> Nat]
  BY DEF Sound, Lists
<1>2. n \in Int /\ b = FALSE /\ (l.captureCount = 0 => n = 0)
  BY <1>1 DEF Heard
<1>3. m = [e EXCEPT !.timed = l.timed, !.captureCount = n, !.listening = b]
  BY DEF Cleared
<1>4. /\ e \in Lists /\ Distinct(e.points) /\ Tracked(e) = {} /\ e.captured = {}
      /\ e.inside = {} /\ e.placed = {} /\ e.contacts = 0
      /\ ~e.pressed /\ ~e.release /\ ~e.wasCaptured /\ ~e.failed
  BY EmptyIsSound DEF Sound
<1> HIDE DEF m, n, b, e
<1>5. /\ m \in Lists /\ m.points = e.points /\ m.captured = {} /\ m.inside = {}
      /\ m.placed = {} /\ m.contacts = 0 /\ m.timed = l.timed /\ ~m.pressed
      /\ ~m.listening /\ ~m.release /\ ~m.wasCaptured /\ ~m.failed /\ m.captureCount = n
  BY <1>1, <1>2, <1>3, <1>4 DEF Lists
<1>6. Tracked(m) = {}
  BY <1>4, <1>5 DEF Tracked
<1>7. m \in Sound
  BY <1>4, <1>5, <1>6 DEF Sound
<1> QED BY <1>2, <1>5, <1>6, <1>7 DEF m

-----------------------------------------------------------------------------
(* The inductive invariant *)

\* A list that knows exactly the pointers of S, all of them in contact.
Exact(l, S) ==
  /\ l.captured = S /\ Tracked(l) = S /\ l.inside = S /\ l.placed = S
  /\ Counted(l) /\ Pressed(l)

\* The contacts are captured one by one, and the listeners are there for them.
Heeds(l, S) == l.captureCount = Cardinality(S) /\ (l.listening <=> S # {})

MouseInv ==
  /\ ~cancelled /\ down \subseteq {Mouse} /\ list.captured = down
  /\ list.inside = (IF over THEN {Mouse} ELSE {})
  /\ Tracked(list) = list.captured \cup list.inside /\ list.placed = Tracked(list)
  /\ list.captureCount = Cardinality(down)
  /\ Counted(list) /\ Pressed(list)

PointerInv ==
  /\ down \subseteq Fingers /\ list.captured \subseteq down /\ Counted(list)
  /\ ~cancelled => Exact(list, down) /\ list.captureCount = Cardinality(down)

TouchInv ==
  /\ down \subseteq Fingers
  /\ ~cancelled => Loose(list)
  /\ ~cancelled /\ ~lost => Exact(list, down)
  /\ ~cancelled /\ ~lost /\ ~grouped => Heeds(list, down)

\* The listeners follow the contacts.
Listens == device # "touch" /\ ~cancelled => (list.listening <=> down # {})

TypesInv ==
  /\ device \in Devices /\ tracking \in BOOLEAN /\ container \subseteq Pointers
  /\ IsFiniteSet(down)

\* No handler has left anything behind.
ListInv ==
  /\ list \in Sound /\ Heard(list)
  /\ ~list.release /\ ~list.wasCaptured /\ ~list.failed
  /\ ~tracking => ~list.listening

DeviceInv ==
  tracking => /\ device = "mouse" => MouseInv
              /\ device = "pointer" => PointerInv
              /\ device = "touch" => TouchInv
              /\ Listens

IInv == TypesInv /\ ListInv /\ DeviceInv

LEMMA InitIInv == Init => IInv
<1> SUFFICES ASSUME Init PROVE IInv
  OBVIOUS
<1>1. /\ list \in Sound /\ Tracked(list) = {} /\ list.captured = {} /\ list.inside = {}
      /\ list.placed = {} /\ list.contacts = 0 /\ list.timed = [p \in Pointers |-> 0]
      /\ ~list.pressed /\ ~list.listening /\ ~list.release /\ ~list.wasCaptured /\ ~list.failed
      /\ list.captureCount = 0
  BY EmptyIsSound, ListCleared DEF Init, Started
<1>2. TypesInv
  BY FS_EmptySet DEF TypesInv, Init
<1>3. ListInv
  BY <1>1 DEF ListInv, Heard, Init
<1>4. Cardinality({}) = 0
  BY FS_EmptySet
<1>5. Counted(list) /\ Pressed(list)
  BY <1>1, <1>4 DEF Counted, Pressed, Sound, Lists
<1>6. Exact(list, {})
  BY <1>1, <1>5 DEF Exact
<1>7. Loose(list)
  BY <1>1, <1>4 DEF Loose
<1>8. DeviceInv
  BY <1>1, <1>4, <1>5, <1>6, <1>7 DEF DeviceInv, MouseInv, PointerInv, TouchInv, Heeds,
                                          Listens, Init
<1> QED BY <1>2, <1>3, <1>8 DEF IInv

-----------------------------------------------------------------------------
(* The steps of a mouse *)

\* What does not touch the captured points keeps the counts.
LEMMA CountsKept ==
  ASSUME NEW l \in Sound, NEW m \in Sound, SameCounts(l, m), m.captured = l.captured
  PROVE  /\ Counted(l) => Counted(m)
         /\ Pressed(l) => Pressed(m)
BY DEF SameCounts, Counted, Pressed

LEMMA MouseOverKeeps ==
  ASSUME IInv, tracking, MouseOver
  PROVE  IInv'
<1>1. /\ list \in Sound /\ Mouse \in Pointers /\ list' = EnterPoint(list, Mouse)
      /\ device = "mouse" /\ device' = device /\ down' = down /\ over' = TRUE
      /\ tracking' = tracking /\ cancelled' = cancelled /\ MouseInv /\ Listens
  BY DEF IInv, ListInv, DeviceInv, MouseOver, Pointers
<1>2. /\ list' \in Sound /\ Tracked(list') = Tracked(list) \cup {Mouse}
      /\ list'.captured = list.captured /\ list'.inside = list.inside \cup {Mouse}
      /\ list'.placed = list.placed \cup {Mouse}
      /\ SameCounts(list, list') /\ SameCapture(list, list') /\ SameLocals(list, list')
  BY <1>1, PointEnters
<1>3. TypesInv'
  BY <1>1 DEF IInv, TypesInv, MouseOver, ContainerEnters
<1>4. ListInv'
  BY <1>1, <1>2 DEF IInv, ListInv, SameCapture, SameLocals, Heard
<1>5. Counted(list') /\ Pressed(list')
  BY <1>1, <1>2, CountsKept DEF MouseInv
<1>6. MouseInv'
  BY <1>1, <1>2, <1>5 DEF MouseInv, SameCapture
<1>7. Listens'
  BY <1>1, <1>2 DEF Listens, SameCapture
<1> QED BY <1>1, <1>3, <1>4, <1>6, <1>7 DEF IInv, DeviceInv

LEMMA MouseOutKeeps ==
  ASSUME IInv, tracking, MouseOut
  PROVE  IInv'
<1> DEFINE m == ExitPoint(list, Mouse, TRUE)
<1>1. /\ list \in Sound /\ Mouse \in Pointers /\ list' = Ended(m) /\ ~list.failed
      /\ device = "mouse" /\ device' = device /\ down' = down /\ over' = FALSE
      /\ tracking' = tracking /\ cancelled' = cancelled /\ MouseInv /\ Listens
      /\ down \in {{}, {Mouse}}
  BY DEF IInv, ListInv, DeviceInv, MouseOut, Pointers, MouseInv
<1>2. /\ m \in Sound /\ SameCounts(list, m) /\ SameCapture(list, m)
      /\ Mouse \in list.captured =>
           /\ Tracked(m) = Tracked(list) /\ m.captured = list.captured
           /\ m.inside = list.inside \ {Mouse} /\ m.placed = With(list.placed, Mouse, TRUE)
      /\ Mouse \notin list.captured =>
           /\ Tracked(m) = Tracked(list) \ {Mouse} /\ m.captured = list.captured
           /\ m.inside = list.inside \ {Mouse} /\ m.placed = list.placed \ {Mouse}
  BY <1>1, PointExits
<1> HIDE DEF m
<1>3. /\ list' \in Sound /\ SamePoints(m, list') /\ SameCounts(m, list')
      /\ SameCapture(m, list') /\ ~list'.release /\ ~list'.wasCaptured /\ ~list'.failed
  BY <1>1, <1>2, HandlerEnds
<1>4. TypesInv'
  BY <1>1 DEF IInv, TypesInv, MouseOut, ContainerExits
<1>5. ListInv'
  BY <1>1, <1>2, <1>3 DEF IInv, ListInv, SameCapture, Heard
<1>6. Counted(list') /\ Pressed(list')
  BY <1>1, <1>2, <1>3, CountsKept DEF MouseInv, SamePoints
<1>7. MouseInv'
  BY <1>1, <1>2, <1>3, <1>6 DEF MouseInv, SameCapture, SamePoints, With
<1>8. Listens'
  BY <1>1, <1>2, <1>3 DEF Listens, SameCapture
<1> QED BY <1>1, <1>4, <1>5, <1>7, <1>8 DEF IInv, DeviceInv

LEMMA MouseDownKeeps ==
  ASSUME IInv, tracking, MouseDown
  PROVE  IInv'
<1> DEFINE d == DownPoint(list, Mouse)
           c == CapturePointer(d)
<1>1. /\ list \in Sound /\ Mouse \in Pointers /\ list' = Ended(c) /\ Heard(list)
      /\ device = "mouse" /\ device' = device /\ down = {} /\ down' = {Mouse} /\ over' = over
      /\ over /\ tracking' = tracking /\ cancelled' = cancelled /\ MouseInv /\ Listens
  BY DEF IInv, ListInv, DeviceInv, MouseDown, Pointers
<1>2. /\ d \in Sound /\ SameCapture(list, d) /\ ~d.failed
      /\ Tracked(d) = Tracked(list) \cup {Mouse} /\ d.captured = list.captured \cup {Mouse}
      /\ d.inside = list.inside \cup {Mouse} /\ d.placed = list.placed \cup {Mouse}
  BY <1>1, PointGoesDown
<1>3. Counted(d) /\ Pressed(d)
  BY <1>1, DownCounts DEF MouseInv
<1> HIDE DEF d
<1>4. /\ c \in Sound /\ SamePoints(d, c) /\ SameCounts(d, c)
      /\ (Heard(d) => Heard(c)) /\ c.captureCount = d.captureCount + 1
      /\ c.listening = (d.listening \/ d.captureCount = 0)
  BY <1>2, PointerIsCaptured
<1> HIDE DEF c
<1>5. /\ list' \in Sound /\ SamePoints(c, list') /\ SameCounts(c, list')
      /\ SameCapture(c, list') /\ ~list'.release /\ ~list'.wasCaptured /\ ~list'.failed
  BY <1>1, <1>4, HandlerEnds
<1>6. TypesInv'
  BY <1>1, FS_Singleton DEF IInv, TypesInv, MouseDown, ContainerSame
<1>7. ListInv'
  BY <1>1, <1>2, <1>4, <1>5 DEF IInv, ListInv, SameCapture, Heard
<1>8. Counted(list') /\ Pressed(list')
  BY <1>2, <1>3, <1>4, <1>5, CountsKept DEF SamePoints
<1>9. Cardinality({}) = 0 /\ Cardinality({Mouse}) = 1
  BY FS_EmptySet, FS_Singleton
<1>10. list'.captureCount = 1 /\ list'.listening
  <2>1. list.captureCount = 0
    BY <1>1, <1>9 DEF MouseInv
  <2>2. d.captureCount = 0 /\ list'.captureCount = c.captureCount /\ list'.listening = c.listening
    BY <1>2, <1>5, <2>1 DEF SameCapture
  <2>3. c.listening
    BY <1>4, <2>2
  <2> QED BY <1>4, <2>2, <2>3
<1>11. MouseInv'
  BY <1>1, <1>2, <1>4, <1>5, <1>8, <1>9, <1>10 DEF MouseInv, SamePoints
<1>12. Listens'
  BY <1>1, <1>10 DEF Listens
<1> QED BY <1>1, <1>6, <1>7, <1>11, <1>12 DEF IInv, DeviceInv

LEMMA MouseUpKeeps ==
  ASSUME IInv, tracking, MouseUp
  PROVE  IInv'
<1> DEFINE u == UpPoint(list, Mouse, TRUE)
           c == ReleasePointer(u)
<1>0. /\ list \in Sound /\ Mouse \in Pointers /\ Heard(list) /\ ~list.failed
      /\ ~list.wasCaptured
      /\ device = "mouse" /\ device' = device /\ down = {Mouse} /\ down' = {} /\ over' = over
      /\ tracking' = tracking /\ cancelled' = cancelled /\ MouseInv /\ Listens
  BY DEF IInv, ListInv, DeviceInv, MouseUp, Pointers
<1>1. list' = Ended(c)
  \* A mouse that is pressed is heard, if not over the canvas then on the window.
  <2>1. CASE list.listening \/ over
    BY <2>1 DEF MouseUp
  <2>2. CASE ~ (list.listening \/ over)
    BY <1>0, <2>2 DEF Listens, MouseInv
  <2> QED BY <2>1, <2>2
<1>2. /\ u \in Sound /\ SameCapture(list, u) /\ u.release /\ ~u.failed
      /\ Tracked(u) = (IF Mouse \in list.inside THEN Tracked(list) ELSE Tracked(list) \ {Mouse})
      /\ u.captured = list.captured \ {Mouse} /\ u.inside = list.inside
      /\ u.placed = (IF Mouse \in list.inside THEN With(list.placed, Mouse, TRUE)
                                              ELSE list.placed \ {Mouse})
  <2>1. Mouse \in Tracked(list) /\ Mouse \in list.captured
    BY <1>0 DEF MouseInv
  <2> QED BY <1>0, <2>1, PointGoesUp
<1>3. Counted(u) /\ Pressed(u)
  BY <1>0, UpCounts DEF MouseInv
<1> HIDE DEF u
<1>4. /\ c \in Sound /\ SamePoints(u, c) /\ SameCounts(u, c)
      /\ (Heard(u) => Heard(c)) /\ c.captureCount = u.captureCount - 1
      /\ c.listening = (u.listening /\ u.captureCount # 1)
  BY <1>2, PointerIsReleased
<1> HIDE DEF c
<1>5. /\ list' \in Sound /\ SamePoints(c, list') /\ SameCounts(c, list')
      /\ SameCapture(c, list') /\ ~list'.release /\ ~list'.wasCaptured /\ ~list'.failed
  BY <1>1, <1>4, HandlerEnds
<1>6. TypesInv'
  BY <1>0, FS_EmptySet DEF IInv, TypesInv, MouseUp, ContainerSame
<1>7. ListInv'
  BY <1>0, <1>2, <1>4, <1>5 DEF IInv, ListInv, SameCapture, Heard
<1>8. Counted(list') /\ Pressed(list')
  BY <1>2, <1>3, <1>4, <1>5, CountsKept DEF SamePoints
<1>9. Cardinality({}) = 0 /\ Cardinality({Mouse}) = 1
  BY FS_EmptySet, FS_Singleton
<1>10. list'.captureCount = 0 /\ ~list'.listening
  <2>1. list.captureCount = 1
    BY <1>0, <1>9 DEF MouseInv
  <2>2. u.captureCount = 1 /\ list'.captureCount = c.captureCount /\ list'.listening = c.listening
    BY <1>2, <1>5, <2>1 DEF SameCapture
  <2>3. ~c.listening
    BY <1>4, <2>2
  <2> QED BY <1>4, <2>2, <2>3
<1>11. MouseInv'
  BY <1>0, <1>2, <1>4, <1>5, <1>8, <1>9, <1>10 DEF MouseInv, SamePoints, With
<1>12. Listens'
  BY <1>0, <1>10 DEF Listens
<1> QED BY <1>0, <1>6, <1>7, <1>11, <1>12 DEF IInv, DeviceInv

-----------------------------------------------------------------------------
(* The steps of fingers reported by pointer events *)

LEMMA ExactIsLoose ==
  ASSUME NEW l \in Sound, NEW S, Exact(l, S), ~l.failed
  PROVE  Loose(l)
BY CapturedFinite DEF Exact, Loose, Counted

LEMMA FingerLandsKeeps ==
  ASSUME IInv, tracking, NEW p \in Fingers, FingerLands(p)
  PROVE  IInv'
<1> DEFINE e == EnterPoint(list, p)
           d == DownPoint(e, p)
           c == CapturePointer(d)
<1>1. /\ list \in Sound /\ p \in Pointers /\ list' = Ended(c) /\ Heard(list) /\ ~list.failed
      /\ device = "pointer" /\ device' = device /\ p \notin down /\ down' = down \cup {p}
      /\ tracking' = tracking /\ cancelled' = cancelled /\ PointerInv /\ Listens
      /\ IsFiniteSet(down)
  BY DEF IInv, TypesInv, ListInv, DeviceInv, FingerLands, Pointers
<1>2. /\ e \in Sound /\ Tracked(e) = Tracked(list) \cup {p}
      /\ e.captured = list.captured /\ e.inside = list.inside \cup {p}
      /\ e.placed = list.placed \cup {p}
      /\ SameCounts(list, e) /\ SameCapture(list, e) /\ SameLocals(list, e)
  BY <1>1, PointEnters
<1>3. Counted(e) /\ (Pressed(list) => Pressed(e)) /\ p \notin e.captured
  BY <1>1, <1>2, CountsKept DEF PointerInv
<1>4. ~cancelled => Loose(e)
  <2>1. ~cancelled => Loose(list)
    BY <1>1, ExactIsLoose DEF PointerInv
  <2> HIDE DEF e
  <2> QED BY <1>2, <2>1 DEF Loose, SameCounts, SameLocals
<1> HIDE DEF e
<1>5. /\ d \in Sound /\ SameCapture(e, d)
      /\ Tracked(d) = Tracked(e) \cup {p} /\ d.captured = e.captured \cup {p}
      /\ d.inside = e.inside \cup {p} /\ d.placed = e.placed \cup {p}
  BY <1>1, <1>2, PointGoesDown
<1>6. /\ Counted(d) /\ (Pressed(e) => Pressed(d)) /\ (~cancelled => Loose(d))
  BY <1>1, <1>2, <1>3, <1>4, DownCounts
<1> HIDE DEF d
<1>7. /\ c \in Sound /\ SamePoints(d, c) /\ SameCounts(d, c) /\ (Heard(d) => Heard(c))
      /\ ~d.failed => /\ c.captureCount = d.captureCount + 1
                      /\ c.listening = (d.listening \/ d.captureCount = 0)
  BY <1>5, PointerIsCaptured
<1> HIDE DEF c
<1>8. /\ list' \in Sound /\ SamePoints(c, list') /\ SameCounts(c, list')
      /\ SameCapture(c, list') /\ ~list'.release /\ ~list'.wasCaptured /\ ~list'.failed
  BY <1>1, <1>7, HandlerEnds
<1>9. TypesInv'
  BY <1>1, FS_AddElement DEF IInv, TypesInv, FingerLands, ContainerEnters
<1>10. ListInv'
  BY <1>1, <1>2, <1>5, <1>7, <1>8 DEF IInv, ListInv, SameCapture, Heard
<1>11. Counted(list') /\ (Pressed(list) => Pressed(list'))
  BY <1>3, <1>5, <1>6, <1>7, <1>8, CountsKept DEF SamePoints
<1>12. list'.captured = list.captured \cup {p}
  BY <1>2, <1>5, <1>7, <1>8 DEF SamePoints
<1>13. ASSUME ~cancelled
       PROVE  /\ Exact(list', down') /\ list'.captureCount = Cardinality(down')
              /\ list'.listening
  <2>1. /\ Exact(list, down) /\ list.captureCount = Cardinality(down)
        /\ list.listening <=> down # {}
    BY <1>1, <1>13 DEF PointerInv, Listens
  <2>2. Exact(list', down')
    BY <1>1, <1>2, <1>5, <1>7, <1>8, <1>11, <1>12, <2>1 DEF Exact, SamePoints
  <2>3. /\ Cardinality(down') = Cardinality(down) + 1 /\ Cardinality(down) \in Nat
        /\ down = {} => Cardinality(down) = 0
    BY <1>1, FS_AddElement, FS_CardinalityType, FS_EmptySet
  <2>4. ~d.failed
    BY <1>6, <1>13 DEF Loose
  <2>5. list'.captureCount = list.captureCount + 1
    BY <1>2, <1>5, <1>7, <1>8, <2>4 DEF SameCapture
  <2>6. list'.listening = (list.listening \/ list.captureCount = 0)
    BY <1>2, <1>5, <1>7, <1>8, <2>4 DEF SameCapture
  <2> QED BY <2>1, <2>2, <2>3, <2>5, <2>6
<1>14. PointerInv'
  BY <1>1, <1>11, <1>12, <1>13 DEF PointerInv
<1>15. Listens'
  BY <1>1, <1>13 DEF Listens
<1> QED BY <1>1, <1>9, <1>10, <1>14, <1>15 DEF IInv, DeviceInv

LEMMA FingerLiftedKeeps ==
  ASSUME IInv, tracking, NEW p \in Fingers, FingerLifted(p)
  PROVE  IInv'
<1> DEFINE u == UpPoint(list, p, TRUE)
           r == ReleasePointer(u)
           e == Ended(r)
           x == ExitPoint(e, p, TRUE)
<1>1. /\ list \in Sound /\ p \in Pointers /\ list' = Ended(x) /\ Heard(list)
      /\ ~list.failed /\ ~list.wasCaptured /\ ~list.release
      /\ device = "pointer" /\ device' = device /\ p \in down /\ down' = down \ {p}
      /\ tracking' = tracking /\ cancelled' = cancelled /\ PointerInv /\ Listens
      /\ IsFiniteSet(down)
  BY DEF IInv, TypesInv, ListInv, DeviceInv, FingerLifted, Pointers
<1>2. /\ u \in Sound /\ SameCapture(list, u)
      /\ p \notin Tracked(list) => u = list
      /\ p \in Tracked(list) =>
           /\ Tracked(u) = (IF p \in list.inside THEN Tracked(list) ELSE Tracked(list) \ {p})
           /\ u.captured = list.captured \ {p} /\ u.inside = list.inside
           /\ u.placed = (IF p \in list.inside THEN With(list.placed, p, TRUE)
                                               ELSE list.placed \ {p})
           /\ u.release = (list.release \/ p \in list.captured)
  BY <1>1, PointGoesUp
<1>3. Counted(u) /\ (Pressed(list) => Pressed(u)) /\ (Loose(list) => Loose(u))
  BY <1>1, UpCounts DEF PointerInv
<1>4. u.captured = list.captured \ {p}
  BY <1>1, <1>2 DEF Sound
<1> HIDE DEF u
<1>5. /\ r \in Sound /\ SamePoints(u, r) /\ SameCounts(u, r) /\ (Heard(u) => Heard(r))
      /\ ~u.failed /\ u.release =>
           /\ r.captureCount = u.captureCount - 1
           /\ r.listening = (u.listening /\ u.captureCount # 1)
  BY <1>2, PointerIsReleased
<1> HIDE DEF r
<1>6. /\ e \in Sound /\ SamePoints(r, e) /\ SameCounts(r, e) /\ SameCapture(r, e) /\ ~e.failed
  BY <1>5, HandlerEnds
<1> HIDE DEF e
<1>7. p \notin e.captured
  BY <1>4, <1>5, <1>6 DEF SamePoints
<1>8. /\ x \in Sound /\ SameCounts(e, x) /\ SameCapture(e, x)
      /\ Tracked(x) = Tracked(e) \ {p} /\ x.captured = e.captured
      /\ x.inside = e.inside \ {p} /\ x.placed = e.placed \ {p}
  <2> DEFINE on == TRUE
  <2>1. on \in BOOLEAN /\ x = ExitPoint(e, p, on)
    OBVIOUS
  <2> HIDE DEF on, x
  <2>2. LET y == ExitPoint(e, p, on)
        IN /\ y \in Sound /\ SameCounts(e, y) /\ SameCapture(e, y)
           /\ ~e.failed /\ p \notin e.captured =>
                /\ Tracked(y) = Tracked(e) \ {p} /\ y.captured = e.captured
                /\ y.inside = e.inside \ {p} /\ y.placed = e.placed \ {p}
    BY <1>1, <1>6, <2>1, PointExits
  <2> QED BY <1>6, <1>7, <2>1, <2>2
<1> HIDE DEF x
<1>9. /\ list' \in Sound /\ SamePoints(x, list') /\ SameCounts(x, list')
      /\ SameCapture(x, list') /\ ~list'.release /\ ~list'.wasCaptured /\ ~list'.failed
  BY <1>1, <1>8, HandlerEnds
<1>10. TypesInv'
  BY <1>1, FS_RemoveElement DEF IInv, TypesInv, FingerLifted, ContainerExits
<1>11. ListInv'
  BY <1>1, <1>2, <1>5, <1>6, <1>8, <1>9 DEF IInv, ListInv, SameCapture, Heard
<1>12. list'.captured = list.captured \ {p} /\ SameCounts(u, list') /\ list'.captured = u.captured
  BY <1>4, <1>5, <1>6, <1>8, <1>9 DEF SamePoints, SameCounts
<1>13. Counted(list') /\ (Pressed(list) => Pressed(list'))
  BY <1>2, <1>3, <1>9, <1>12, CountsKept
<1>14. ASSUME ~cancelled
       PROVE  /\ Exact(list', down') /\ list'.captureCount = Cardinality(down')
              /\ list'.listening <=> down' # {}
  <2>1. /\ Exact(list, down) /\ list.captureCount = Cardinality(down) /\ list.listening
    BY <1>1, <1>14 DEF PointerInv, Listens
  <2>2. /\ Tracked(u) = down /\ u.inside = down /\ u.placed = down /\ u.release
    BY <1>1, <1>2, <2>1 DEF Exact, With
  <2>3. Exact(list', down')
    BY <1>1, <1>5, <1>6, <1>8, <1>9, <1>12, <1>13, <2>1, <2>2 DEF Exact, SamePoints
  <2>4. ~u.failed
    BY <1>1, <1>3, <2>1, ExactIsLoose DEF Loose
  <2>5. /\ Cardinality(down') = Cardinality(down) - 1 /\ Cardinality(down) \in Nat
        /\ Cardinality(down') = 0 <=> down' = {}
    <3>1. /\ Cardinality(down') = Cardinality(down) - 1 /\ Cardinality(down) \in Nat
          /\ IsFiniteSet(down')
      BY <1>1, FS_RemoveElement, FS_CardinalityType
    <3> QED BY <3>1, FS_EmptySet
  <2>6. list'.captureCount = list.captureCount - 1
    BY <1>2, <1>5, <1>6, <1>8, <1>9, <2>2, <2>4 DEF SameCapture
  <2>7. list'.listening = (list.listening /\ list.captureCount # 1)
    BY <1>2, <1>5, <1>6, <1>8, <1>9, <2>2, <2>4 DEF SameCapture
  <2>8. list.captureCount # 1 <=> Cardinality(down') # 0
    BY <2>1, <2>5
  <2> QED BY <2>1, <2>3, <2>5, <2>6, <2>7, <2>8
<1>15. PointerInv'
  BY <1>1, <1>12, <1>13, <1>14 DEF PointerInv
<1>16. Listens'
  BY <1>1, <1>14 DEF Listens
<1> QED BY <1>1, <1>10, <1>11, <1>15, <1>16 DEF IInv, DeviceInv

\* A point that is lifted is captured no more, wherever it was.
LEMMA OnceUp ==
  ASSUME NEW l \in Sound, NEW p \in Pointers, NEW known \in BOOLEAN, ~l.failed, ~l.wasCaptured
  PROVE  LET m == UpPoint(l, p, known)
         IN /\ m \in Sound /\ SameCapture(l, m) /\ m.captured = l.captured \ {p}
            /\ Counted(l) => Counted(m)
<1> DEFINE m == UpPoint(l, p, known)
<1>1. m \in Sound /\ SameCapture(l, m)
  BY PointGoesUp
<1>c. (l.failed \/ p \notin Tracked(l) => m = l)
      /\ (~l.failed /\ p \in Tracked(l) => m.captured = l.captured \ {p})
  <2> DEFINE was == l.wasCaptured \/ p \in l.captured
  <2>1. /\ l.failed \/ p \notin Tracked(l) => m = l
        /\ ~l.failed /\ p \in Tracked(l) =>
           /\ Tracked(m) = (IF p \in l.inside THEN Tracked(l) ELSE Tracked(l) \ {p})
           /\ m.captured = l.captured \ {p} /\ m.inside = l.inside
           /\ m.placed = (IF p \in l.inside THEN With(l.placed, p, known)
                                            ELSE l.placed \ {p})
           /\ m.contacts = (IF was THEN l.contacts - 1 ELSE l.contacts)
           /\ m.timed = (IF was THEN Less(l.timed, p) ELSE l.timed)
           /\ m.pressed = (l.pressed /\ ~(was /\ m.contacts = 0 /\ known))
           /\ /\ known
              /\ \/ device = "mouse"
                 \/ m.placed = Tracked(m) /\ m.contacts <= Cardinality(m.captured)
              => ~m.failed
    BY PointGoesUp
  <2> HIDE DEF m
  <2> QED BY <2>1
<1>2. Counted(l) => Counted(m)
  BY UpCounts
<1>3. l.captured \subseteq Tracked(l)
  BY DEF Sound
<1> HIDE DEF m
<1> QED BY <1>1, <1>c, <1>2, <1>3 DEF m

LEMMA FingerCancelledKeeps ==
  ASSUME IInv, tracking, NEW p \in Fingers, FingerCancelled(p)
  PROVE  IInv'
<1> DEFINE off == FALSE
           u == UpPoint(list, p, off)
           v == ExitPoint(u, p, off)
           e == Ended(v)
           x == ExitPoint(e, p, TRUE)
<1>0. off \in BOOLEAN
  OBVIOUS
<1>1. /\ list \in Sound /\ p \in Pointers /\ Heard(list) /\ ~list.wasCaptured
      /\ device = "pointer" /\ device' = device /\ p \in down /\ down' = down \ {p}
      /\ tracking' = tracking /\ cancelled' = TRUE /\ PointerInv /\ IsFiniteSet(down)
      /\ list' = Ended(ExitPoint(Ended(UpdatePointersCancel(list, <<p>>)), p, TRUE))
      /\ ~list.failed
  BY DEF IInv, TypesInv, ListInv, DeviceInv, FingerCancelled, Pointers
<1> HIDE DEF off
<1>2. /\ u \in Sound /\ SameCapture(list, u) /\ u.captured = list.captured \ {p}
      /\ Counted(list) => Counted(u)
  BY <1>0, <1>1, OnceUp
<1>3. Counted(u)
  BY <1>1, <1>2 DEF PointerInv
<1>4. list' = Ended(x)
  <2>1. UpdatePointersUp(list, <<p>>, off) = u
    BY <1>0, <1>1, OnePointUp
  <2>2. UpdatePointersExit(u, <<p>>, off) = v
    <3> HIDE DEF u
    <3> QED BY <1>0, <1>1, <1>2, OnePointExits
  <2> HIDE DEF u, v
  <2>3. UpdatePointersCancel(list, <<p>>) = v
    BY <2>1, <2>2 DEF UpdatePointersCancel, off
  <2> QED BY <1>1, <2>3
<1> HIDE DEF u
<1>5. /\ v \in Sound /\ SameCounts(u, v) /\ SameCapture(u, v) /\ v.captured = u.captured
  BY <1>0, <1>1, <1>2, PointExits
<1> HIDE DEF v
<1>6. /\ e \in Sound /\ SamePoints(v, e) /\ SameCounts(v, e) /\ SameCapture(v, e)
  BY <1>5, HandlerEnds
<1> HIDE DEF e
<1>7. /\ x \in Sound /\ SameCounts(e, x) /\ SameCapture(e, x) /\ x.captured = e.captured
  <2> DEFINE on == TRUE
  <2>1. on \in BOOLEAN /\ x = ExitPoint(e, p, on)
    OBVIOUS
  <2> HIDE DEF on, x
  <2>2. p \notin e.captured
    BY <1>2, <1>5, <1>6 DEF SamePoints
  <2>3. LET y == ExitPoint(e, p, on)
        IN /\ y \in Sound /\ SameCounts(e, y) /\ SameCapture(e, y)
           /\ e.failed => y = e
           /\ ~e.failed /\ p \notin e.captured => y.captured = e.captured
    BY <1>1, <1>6, <2>1, PointExits
  <2> QED BY <2>1, <2>2, <2>3
<1> HIDE DEF x
<1>8. /\ list' \in Sound /\ SamePoints(x, list') /\ SameCounts(x, list')
      /\ SameCapture(x, list') /\ ~list'.release /\ ~list'.wasCaptured /\ ~list'.failed
  BY <1>4, <1>7, HandlerEnds
<1>9. TypesInv'
  BY <1>1, FS_RemoveElement DEF IInv, TypesInv, FingerCancelled, ContainerExits
<1>10. ListInv'
  BY <1>1, <1>2, <1>5, <1>6, <1>7, <1>8 DEF IInv, ListInv, SameCapture, Heard
<1>11. Counted(list') /\ list'.captured = list.captured \ {p}
  <2>1. SameCounts(u, list') /\ list'.captured = u.captured
    BY <1>5, <1>6, <1>7, <1>8 DEF SamePoints, SameCounts
  <2> QED BY <1>2, <1>3, <1>8, <2>1, CountsKept
<1>12. PointerInv'
  BY <1>1, <1>11 DEF PointerInv
<1>13. Listens'
  BY <1>1 DEF Listens
<1> QED BY <1>1, <1>9, <1>10, <1>12, <1>13 DEF IInv, DeviceInv

-----------------------------------------------------------------------------
(* Moves, and the end *)

LEMMA MovesKeep ==
  ASSUME IInv, tracking, NEW ps \in Seq(Pointers), Moves(ps),
         ~cancelled /\ ~(device = "touch" /\ lost) => ToSet(ps) \subseteq Tracked(list)
  PROVE  IInv'
<1>1. /\ list \in Sound /\ UNCHANGED <<device, tracking, container, down, over, lost>>
      /\ UNCHANGED <<cancelled, grouped>>
  BY DEF IInv, ListInv, Moves
<1>2. PICK changed \in BOOLEAN : list' = UpdatePointersMove(list, ps, changed)
  BY DEF Moves
<1>3. /\ list' \in Sound /\ Tracked(list') = Tracked(list) \cup ToSet(ps)
      /\ list'.captured = list.captured /\ list'.placed = list.placed \cup ToSet(ps)
      /\ list.inside = Tracked(list) => list'.inside = Tracked(list')
      /\ ToSet(ps) \subseteq Tracked(list) => list'.inside = list.inside
      /\ SameCounts(list, list') /\ SameCapture(list, list') /\ SameLocals(list, list')
  BY <1>1, <1>2, PointsMove
<1>4. TypesInv'
  BY <1>1 DEF IInv, TypesInv
<1>5. ListInv'
  BY <1>1, <1>3 DEF IInv, ListInv, SameCapture, SameLocals, Heard
<1>6. /\ Counted(list) => Counted(list')
      /\ Pressed(list) => Pressed(list')
  BY <1>1, <1>3, CountsKept
<1>7. ASSUME ~cancelled, ~(device = "touch" /\ lost), list.placed = Tracked(list)
      PROVE  SamePoints(list, list')
  BY <1>3, <1>7 DEF SamePoints
<1>8. ASSUME device = "mouse", MouseInv PROVE MouseInv'
  <2>1. SamePoints(list, list') /\ Counted(list') /\ Pressed(list')
    BY <1>6, <1>7, <1>8 DEF MouseInv
  <2> QED BY <1>1, <1>3, <1>8, <2>1 DEF MouseInv, SamePoints, SameCapture
<1>9. ASSUME device = "pointer", PointerInv PROVE PointerInv'
  <2>1. ~cancelled => SamePoints(list, list')
    BY <1>7, <1>9 DEF PointerInv, Exact
  <2>2. Counted(list')
    BY <1>6, <1>9 DEF PointerInv
  <2>3. ~cancelled => Exact(list', down)
    BY <1>6, <1>9, <2>1 DEF PointerInv, Exact, SamePoints
  <2> QED BY <1>1, <1>3, <1>9, <2>2, <2>3 DEF PointerInv, SameCapture
<1>10. ASSUME device = "touch", TouchInv PROVE TouchInv'
  <2>1. ~cancelled => Loose(list')
    BY <1>3, <1>10 DEF TouchInv, Loose, SameCounts, SameLocals
  <2>2. ~cancelled /\ ~lost => Exact(list', down)
    <3>1. ~cancelled /\ ~lost => SamePoints(list, list')
      BY <1>7, <1>10 DEF TouchInv, Exact
    <3> QED BY <1>6, <1>10, <3>1 DEF TouchInv, Exact, SamePoints
  <2>3. ~cancelled /\ ~lost /\ ~grouped => Heeds(list', down)
    BY <1>3, <1>10 DEF TouchInv, Heeds, SameCapture
  <2> QED BY <1>1, <1>10, <2>1, <2>2, <2>3 DEF TouchInv
<1>11. Listens => Listens'
  BY <1>1, <1>3 DEF Listens, SameCapture
<1> QED BY <1>1, <1>4, <1>5, <1>8, <1>9, <1>10, <1>11 DEF IInv, DeviceInv

LEMMA MouseMoveKeeps ==
  ASSUME IInv, tracking, MouseMove
  PROVE  IInv'
<1>1. /\ <<Mouse>> \in Seq(Pointers) /\ Moves(<<Mouse>>) /\ device = "mouse"
      /\ over \/ list.listening
  BY DEF MouseMove, Pointers
<1>2. MouseInv /\ Listens
  BY <1>1 DEF IInv, DeviceInv
<1>3. Mouse \in Tracked(list)
  BY <1>1, <1>2 DEF MouseInv, Listens
<1>4. ToSet(<<Mouse>>) \subseteq Tracked(list)
  BY <1>3 DEF ToSet
<1> QED BY <1>1, <1>4, MovesKeep

LEMMA PointerMoveKeeps ==
  ASSUME IInv, tracking, NEW p \in Fingers, PointerMove(p)
  PROVE  IInv'
<1>1. <<p>> \in Seq(Pointers) /\ Moves(<<p>>) /\ device = "pointer" /\ p \in down
  BY DEF PointerMove, Pointers
<1>2. PointerInv
  BY <1>1 DEF IInv, DeviceInv
<1>3. ~cancelled => ToSet(<<p>>) \subseteq Tracked(list)
  BY <1>1, <1>2 DEF PointerInv, Exact, ToSet
<1> QED BY <1>1, <1>3, MovesKeep

LEMMA DestroyKeeps ==
  ASSUME IInv, tracking, Destroy
  PROVE  IInv'
<1>1. /\ list \in Sound /\ Heard(list) /\ list' = Cleared(list) /\ tracking' = FALSE
  BY DEF IInv, ListInv, Destroy, Stopped
<1>2. /\ list' \in Sound /\ ~list'.listening /\ ~list'.release /\ ~list'.wasCaptured
      /\ ~list'.failed
  BY <1>1, ListCleared
<1>3. TypesInv'
  BY DEF IInv, TypesInv, Destroy
<1>4. ListInv'
  BY <1>1, <1>2 DEF ListInv, Heard
<1> QED BY <1>1, <1>3, <1>4 DEF IInv, DeviceInv

-----------------------------------------------------------------------------
(* The steps of fingers reported by touch events *)

LEMMA LooseKept ==
  ASSUME NEW l \in Sound, NEW m \in Sound, SamePoints(l, m), SameCounts(l, m), ~m.failed,
         Loose(l)
  PROVE  Loose(m)
BY DEF Loose, SamePoints, SameCounts

\* Touches that start are added to those on the screen; what is left of lost ones goes.
LEMMA TouchStartKeeps ==
  ASSUME IInv, tracking, NEW ps \in Changes(Fingers \ down), TouchStart(ps)
  PROVE  /\ IInv'
         /\ ~cancelled /\ down \subseteq Tracked(list) => Tracked(list') \subseteq down'
<1> DEFINE S == ToSet(ps)
           mismatch == Len(list.points) > Cardinality(down') - Len(ps)
           cleared == IF mismatch THEN AbortTouchContacts(list) ELSE list
           e == UpdatePointersEnter(cleared, ps)
           d == UpdatePointersDown(e, ps)
           c == CapturePointer(d)
<1>1. /\ list \in Sound /\ Heard(list) /\ device = "touch" /\ device' = device
      /\ down' = down \cup S /\ S \cap Tracked(list) = {} /\ tracking' = tracking
      /\ cancelled' = cancelled /\ lost' = lost /\ TouchInv /\ IsFiniteSet(down)
      /\ container \subseteq Pointers
  BY DEF IInv, TypesInv, ListInv, DeviceInv, TouchStart
<1>g. ~grouped' => ~grouped /\ ~(Len(ps) > 1)
  BY DEF TouchStart
<1>2. /\ ps \in Seq(Pointers) /\ Distinct(ps) /\ S \subseteq Fingers \ down /\ IsFiniteSet(S)
      /\ Cardinality(S) = Len(ps) /\ Len(ps) \in Nat /\ Len(ps) > 0 /\ S # {}
  <2>1. Fingers \ down \subseteq Pointers
    BY DEF Pointers
  <2> QED BY <2>1, TouchesOfEvent
<1>3. \/ cleared.failed /\ list' = Ended(cleared)
      \/ ~cleared.failed /\ list' = Ended(c)
  BY DEF TouchStart
<1>c. container' \subseteq Pointers
  <2>1. container' = container \/ container' = container \cup S
    BY DEF TouchStart, ContainerSame, ContainerEnters
  <2> QED BY <1>1, <1>2, <2>1 DEF Pointers
<1>4. /\ IsFiniteSet(down') /\ Cardinality(down) \in Nat
      /\ Cardinality(down') = Cardinality(down) + Len(ps)
  <2>1. down \cap S = {}
    BY <1>2
  <2>2. IsFiniteSet(down \cup S)
        /\ Cardinality(down \cup S) = Cardinality(down) + Cardinality(S) - Cardinality(down \cap S)
    BY <1>1, <1>2, FS_Union
  <2>3. Cardinality(down \cap S) = 0 /\ Cardinality(down) \in Nat
    BY <1>1, <2>1, FS_EmptySet, FS_CardinalityType
  <2> QED BY <1>1, <1>2, <2>2, <2>3
<1>5. /\ IsFiniteSet(Tracked(list)) /\ Cardinality(Tracked(list)) = Len(list.points)
      /\ Len(list.points) \in Nat
  BY <1>1, CapturedFinite
<1>6. mismatch <=> Cardinality(Tracked(list)) > Cardinality(down)
  BY <1>2, <1>4, <1>5
<1> HIDE DEF S, mismatch
<1>7. /\ cleared \in Sound /\ Heard(cleared) /\ (~mismatch => cleared = list)
      /\ Loose(list) => /\ Loose(cleared)
                        /\ mismatch => Tracked(cleared) = {}
  BY <1>1, TouchesAborted
<1> HIDE DEF cleared
<1>8. /\ e \in Sound /\ Tracked(e) = Tracked(cleared) \cup S
      /\ e.captured = cleared.captured /\ e.inside = cleared.inside \cup S
      /\ e.placed = cleared.placed \cup S
      /\ SameCounts(cleared, e) /\ SameCapture(cleared, e) /\ SameLocals(cleared, e)
  BY <1>2, <1>7, PointsEnter DEF S
<1> HIDE DEF e
<1>9. /\ d \in Sound /\ SameCapture(e, d)
      /\ Loose(e) /\ Distinct(ps) /\ e.captured \cap S = {} =>
           /\ Loose(d) /\ Tracked(d) = Tracked(e) \cup S /\ d.captured = e.captured \cup S
           /\ Counted(e) => Counted(d)
           /\ Counted(e) /\ Pressed(e) => Pressed(d)
  BY <1>2, <1>8, PointsGoDown DEF S
<1> HIDE DEF d
<1>10. /\ c \in Sound /\ SamePoints(d, c) /\ SameCounts(d, c) /\ SameLocals(d, c)
       /\ Heard(d) => Heard(c)
       /\ ~d.failed => /\ c.captureCount = d.captureCount + 1
                       /\ c.listening = (d.listening \/ d.captureCount = 0)
  BY <1>9, PointerIsCaptured
<1> HIDE DEF c
<1>11. Heard(c)
  BY <1>7, <1>8, <1>9, <1>10 DEF Heard, SameCapture
<1>12. /\ list' \in Sound /\ Heard(list')
       /\ ~list'.release /\ ~list'.wasCaptured /\ ~list'.failed
       /\ ~cleared.failed => /\ SamePoints(c, list') /\ SameCounts(c, list')
                             /\ SameCapture(c, list')
  BY <1>3, <1>7, <1>10, <1>11, HandlerEnds DEF Heard, SameCapture
<1>13. ASSUME ~cancelled
       PROVE  /\ Loose(list') /\ Tracked(list') = Tracked(cleared) \cup S
              /\ list'.captured = cleared.captured \cup S
              /\ Counted(cleared) => Counted(list')
              /\ Counted(cleared) /\ Pressed(cleared) => Pressed(list')
              /\ list'.captureCount = cleared.captureCount + 1
              /\ list'.listening = (cleared.listening \/ cleared.captureCount = 0)
  <2>1. Loose(list) /\ Loose(cleared)
    BY <1>1, <1>7, <1>13 DEF TouchInv
  <2>2. Loose(e)
    BY <1>8, <2>1 DEF Loose, SameCounts, SameLocals
  <2>3. cleared.captured \cap S = {}
    <3>1. cleared.captured \subseteq Tracked(cleared)
      BY <1>7 DEF Sound
    <3>2. Tracked(cleared) \subseteq Tracked(list)
      BY <1>7, <2>1
    <3> QED BY <1>1, <3>1, <3>2
  <2>4. /\ Loose(d) /\ Tracked(d) = Tracked(cleared) \cup S
        /\ d.captured = cleared.captured \cup S
        /\ Counted(e) => Counted(d)
        /\ Counted(e) /\ Pressed(e) => Pressed(d)
    BY <1>2, <1>8, <1>9, <2>2, <2>3
  <2>5. /\ Counted(cleared) => Counted(e)
        /\ Pressed(cleared) => Pressed(e)
    BY <1>7, <1>8, CountsKept
  <2>6. SamePoints(d, list') /\ SameCounts(d, list')
    BY <1>10, <1>12, <2>1 DEF SamePoints, SameCounts, Loose
  <2>7. /\ Counted(d) => Counted(list')
        /\ Pressed(d) => Pressed(list')
    BY <1>9, <1>12, <2>6, CountsKept DEF SamePoints
  <2>8. Loose(list')
    BY <1>9, <1>12, <2>4, <2>6, LooseKept
  <2>9. SameCapture(c, list')
    BY <1>12, <2>1 DEF Loose
  <2>10. /\ list'.captureCount = cleared.captureCount + 1
         /\ list'.listening = (cleared.listening \/ cleared.captureCount = 0)
    BY <1>8, <1>9, <1>10, <2>4, <2>9 DEF Loose, SameCapture
  <2> QED BY <2>4, <2>5, <2>6, <2>7, <2>8, <2>10 DEF SamePoints
<1>14. ASSUME ~cancelled, ~lost PROVE Exact(list', down')
  <2>1. Exact(list, down) /\ ~mismatch
    BY <1>1, <1>4, <1>6, <1>14 DEF TouchInv, Exact
  <2> QED BY <1>1, <1>7, <1>13, <1>14, <2>1 DEF Exact, Loose
<1>20. ASSUME ~cancelled, ~lost, ~grouped' PROVE Heeds(list', down')
  <2>1. Exact(list, down) /\ ~mismatch /\ Heeds(list, down)
    BY <1>1, <1>4, <1>6, <1>g, <1>20 DEF TouchInv, Exact
  <2>2. cleared = list /\ Len(ps) = 1 /\ down' # {}
    BY <1>1, <1>2, <1>7, <1>g, <1>20, <2>1
  <2>3. down = {} => Cardinality(down) = 0
    BY FS_EmptySet
  <2> QED BY <1>4, <1>13, <1>20, <2>1, <2>2, <2>3 DEF Heeds
<1>15. ASSUME ~cancelled, down \subseteq Tracked(list) PROVE Tracked(list') \subseteq down'
  <2>1. Tracked(list') = Tracked(cleared) \cup S
    BY <1>13, <1>15
  <2>2. CASE mismatch
    BY <1>1, <1>7, <1>15, <2>1, <2>2 DEF TouchInv
  <2>3. CASE ~mismatch
    <3>1. Cardinality(Tracked(list)) <= Cardinality(down)
      BY <1>4, <1>5, <1>6, <2>3
    <3>2. Tracked(list) = down
      BY <1>4, <1>5, <1>15, <3>1, FS_Subset
    <3> QED BY <1>1, <1>7, <2>1, <2>3, <3>2
  <2> QED BY <2>2, <2>3
<1>16. TypesInv'
  BY <1>1, <1>4, <1>c DEF IInv, TypesInv
<1>17. ListInv'
  BY <1>1, <1>12 DEF ListInv
<1>18. TouchInv'
  BY <1>1, <1>2, <1>13, <1>14, <1>20 DEF TouchInv
<1>19. Listens'
  BY <1>1 DEF Listens
<1> QED BY <1>1, <1>15, <1>16, <1>17, <1>18, <1>19 DEF IInv, DeviceInv

LEMMA TouchEndKeeps ==
  ASSUME IInv, tracking, NEW ps \in Changes(down), TouchEnd(ps)
  PROVE  IInv'
<1> DEFINE on == TRUE
           S == ToSet(ps)
           u == UpdatePointersUp(list, ps, on)
           r == ReleasePointer(u)
           x == UpdatePointersExit(r, ps, on)
<1>1. /\ list \in Sound /\ Heard(list) /\ device = "touch" /\ device' = device
      /\ down' = down \ S /\ tracking' = tracking /\ list' = Ended(x)
      /\ cancelled' = cancelled /\ lost' = lost /\ TouchInv /\ IsFiniteSet(down)
      /\ down \subseteq Fingers
      /\ ~list.failed /\ ~list.wasCaptured /\ ~list.release
  BY DEF IInv, TypesInv, ListInv, DeviceInv, TouchEnd, TouchInv
<1>g. ~grouped' => ~grouped /\ ~(Len(ps) > 1)
  BY DEF TouchEnd
<1>2. /\ ps \in Seq(Pointers) /\ Distinct(ps) /\ S \subseteq down
      /\ Len(ps) \in Nat /\ Len(ps) > 0
  <2>1. down \subseteq Pointers
    BY <1>1 DEF Pointers
  <2> QED BY <2>1, TouchesOfEvent
<1>3. on \in BOOLEAN /\ on
  OBVIOUS
<1>s. Len(ps) = 1 => S = {ps[1]} /\ ps[1] \in Pointers /\ ps = <<ps[1]>>
  BY <1>2, SetOfList
<1> HIDE DEF on, S
<1>u. ASSUME Len(ps) = 1, ~cancelled, ~lost PROVE u.release
  <2> DEFINE p == ps[1]
  <2>1. p \in down /\ p \in Pointers /\ p \in Tracked(list) /\ p \in list.captured
    BY <1>1, <1>2, <1>s, <1>u DEF TouchInv, Exact
  <2>2. u = UpPoint(list, p, on)
    <3> HIDE DEF p
    <3>1. ps = <<p>>
      BY <1>s, <1>u DEF p
    <3> QED BY <1>1, <1>3, <2>1, <3>1, OnePointUp
  <2> HIDE DEF u, p
  <2>3. LET m == UpPoint(list, p, on)
        IN ~list.failed /\ p \in Tracked(list) =>
             m.release = (list.release \/ p \in list.captured)
    BY <1>1, <1>3, <2>1, PointGoesUp
  <2> QED BY <1>1, <2>1, <2>2, <2>3
<1>4. /\ u \in Sound /\ SameCapture(list, u)
      /\ Loose(list) => /\ Loose(u) /\ Tracked(u) = Tracked(list)
                        /\ u.captured = list.captured \ S
      /\ Loose(list) /\ Counted(list) /\ Pressed(list) /\ S \subseteq list.captured =>
           Counted(u) /\ Pressed(u)
  <2>1. /\ u \in Sound /\ SameCapture(list, u)
        /\ Loose(list) /\ on =>
             /\ Loose(u) /\ Tracked(u) = Tracked(list)
             /\ u.captured = list.captured \ ToSet(ps)
             /\ Distinct(ps) /\ ToSet(ps) \subseteq list.captured /\ Counted(list) =>
                  Counted(u) /\ (Pressed(list) => Pressed(u))
    BY <1>1, <1>2, <1>3, PointsGoUp
  <2> HIDE DEF u
  <2> QED BY <1>2, <1>3, <2>1 DEF S
<1> HIDE DEF u
<1>5. /\ r \in Sound /\ SamePoints(u, r) /\ SameCounts(u, r) /\ SameLocals(u, r)
      /\ Heard(u) => Heard(r)
      /\ ~u.failed /\ u.release => /\ r.captureCount = u.captureCount - 1
                                  /\ r.listening = (u.listening /\ u.captureCount # 1)
  BY <1>4, PointerIsReleased
<1> HIDE DEF r
<1>6. /\ x \in Sound /\ SameCapture(r, x) /\ SameCounts(r, x) /\ x.captured = r.captured
      /\ Loose(r) /\ on /\ r.captured \cap S = {} =>
           Loose(x) /\ Tracked(x) = Tracked(r) \ S
  BY <1>2, <1>3, <1>5, PointsExit DEF S
<1> HIDE DEF x
<1>7. /\ list' \in Sound /\ SamePoints(x, list') /\ SameCounts(x, list')
      /\ SameCapture(x, list') /\ ~list'.release /\ ~list'.wasCaptured /\ ~list'.failed
  BY <1>1, <1>6, HandlerEnds
<1>8. ASSUME ~cancelled
      PROVE  /\ Loose(list') /\ Tracked(list') = Tracked(list) \ S
             /\ list'.captured = list.captured \ S
  <2>1. /\ Loose(list) /\ Loose(u) /\ Tracked(u) = Tracked(list)
        /\ u.captured = list.captured \ S
    BY <1>1, <1>3, <1>4, <1>8 DEF TouchInv
  <2>2. ~r.failed
    BY <1>5, <2>1 DEF Loose, SameLocals
  <2>3. Loose(r)
    BY <1>4, <1>5, <2>1, <2>2, LooseKept
  <2>4. r.captured = list.captured \ S /\ Tracked(r) = Tracked(list)
    BY <1>5, <2>1 DEF SamePoints
  <2>5. Loose(x) /\ Tracked(x) = Tracked(list) \ S /\ x.captured = list.captured \ S
    BY <1>3, <1>6, <2>3, <2>4
  <2>6. Loose(list')
    BY <1>6, <1>7, <2>5, LooseKept
  <2> QED BY <1>7, <2>5, <2>6 DEF SamePoints
<1>9. ASSUME ~cancelled, ~lost PROVE Exact(list', down')
  <2>1. Exact(list, down) /\ Loose(list)
    BY <1>1, <1>9 DEF TouchInv
  <2>2. Counted(u) /\ Pressed(u)
    BY <1>2, <1>3, <1>4, <2>1 DEF Exact
  <2>3. SameCounts(u, list') /\ list'.captured = u.captured
    BY <1>5, <1>6, <1>7 DEF SamePoints, SameCounts
  <2>4. Counted(list') /\ Pressed(list')
    BY <1>4, <1>7, <2>2, <2>3, CountsKept
  <2> QED BY <1>1, <1>8, <1>9, <2>1, <2>4 DEF Exact, Loose
<1>14. ASSUME ~cancelled, ~lost, ~grouped' PROVE Heeds(list', down')
  <2>1. Exact(list, down) /\ Loose(list) /\ Heeds(list, down)
    BY <1>1, <1>g, <1>14 DEF TouchInv
  <2>2. Len(ps) = 1 /\ down' = down \ {ps[1]} /\ ps[1] \in down
    BY <1>1, <1>2, <1>g, <1>14, <1>s DEF TouchInv
  <2>3. /\ Cardinality(down') = Cardinality(down) - 1 /\ Cardinality(down) \in Nat
        /\ Cardinality(down') = 0 <=> down' = {}
    <3> DEFINE p == ps[1]
    <3>2. p \in down /\ down' = down \ {p} /\ IsFiniteSet(down)
      BY <1>1, <2>2
    <3> HIDE DEF p
    <3>1. /\ Cardinality(down') = Cardinality(down) - 1 /\ Cardinality(down) \in Nat
          /\ IsFiniteSet(down')
      BY <3>2, FS_RemoveElement, FS_CardinalityType
    <3> QED BY <3>1, FS_EmptySet
  <2>4. ~u.failed /\ u.release
    BY <1>3, <1>4, <1>14, <1>u, <2>1, <2>2 DEF Loose
  <2>5. /\ list'.captureCount = list.captureCount - 1
        /\ list'.listening = (list.listening /\ list.captureCount # 1)
    BY <1>4, <1>5, <1>6, <1>7, <2>4 DEF SameCapture
  <2>6. down # {} /\ (list.captureCount # 1 <=> down' # {})
    BY <2>1, <2>2, <2>3 DEF Heeds
  <2> QED BY <2>1, <2>3, <2>5, <2>6 DEF Heeds
<1>10. TypesInv'
  <2>1. container' \subseteq container
    BY DEF TouchEnd, ContainerSame, ContainerExits
  <2>2. IsFiniteSet(down')
    BY <1>1, FS_Subset
  <2> QED BY <1>1, <2>1, <2>2 DEF IInv, TypesInv
<1>11. ListInv'
  BY <1>1, <1>4, <1>5, <1>6, <1>7 DEF ListInv, SameCapture, Heard
<1>12. TouchInv'
  BY <1>1, <1>8, <1>9, <1>14 DEF TouchInv
<1>13. Listens'
  BY <1>1 DEF Listens
<1> QED BY <1>1, <1>10, <1>11, <1>12, <1>13 DEF IInv, DeviceInv

LEMMA TouchCancelKeeps ==
  ASSUME IInv, tracking, NEW ps \in Changes(down), TouchCancel(ps)
  PROVE  IInv'
<1> DEFINE off == FALSE
           u == UpdatePointersUp(list, ps, off)
           x == UpdatePointersExit(u, ps, off)
<1>1. /\ list \in Sound /\ Heard(list) /\ device = "touch" /\ device' = device
      /\ down' = down \ ToSet(ps) /\ tracking' = tracking /\ list' = Ended(x)
      /\ cancelled' = TRUE /\ down \subseteq Fingers /\ IsFiniteSet(down)
  BY DEF IInv, TypesInv, ListInv, DeviceInv, TouchCancel, TouchInv, UpdatePointersCancel
<1>2. ps \in Seq(Pointers) /\ off \in BOOLEAN
  <2>1. down \subseteq Pointers
    BY <1>1 DEF Pointers
  <2> QED BY <2>1, TouchesOfEvent
<1> HIDE DEF off
<1>3. u \in Sound /\ SameCapture(list, u)
  BY <1>1, <1>2, PointsGoUp
<1> HIDE DEF u
<1>4. x \in Sound /\ SameCapture(u, x)
  BY <1>2, <1>3, PointsExit
<1> HIDE DEF x
<1>5. /\ list' \in Sound /\ SameCapture(x, list') /\ ~list'.release /\ ~list'.wasCaptured
      /\ ~list'.failed
  BY <1>1, <1>4, HandlerEnds
<1>6. IsFiniteSet(down')
  BY <1>1, FS_Subset
<1>7. TypesInv'
  BY <1>1, <1>6 DEF IInv, TypesInv, TouchCancel
<1>8. ListInv'
  BY <1>1, <1>3, <1>4, <1>5 DEF ListInv, SameCapture, Heard
<1>9. TouchInv' /\ Listens'
  BY <1>1 DEF TouchInv, Listens
<1> QED BY <1>1, <1>7, <1>8, <1>9 DEF IInv, DeviceInv

LEMMA TouchLostKeeps ==
  ASSUME IInv, tracking, NEW p \in Fingers, TouchLost(p)
  PROVE  IInv'
<1>1. /\ device = "touch" /\ down' = down \ {p} /\ lost' = TRUE /\ TouchInv
      /\ UNCHANGED <<device, tracking, list, container, cancelled>>
  BY DEF IInv, DeviceInv, TouchLost
<1>2. IsFiniteSet(down')
  BY <1>1, FS_RemoveElement DEF IInv, TypesInv
<1>3. TypesInv' /\ ListInv'
  BY <1>1, <1>2 DEF IInv, TypesInv, ListInv
<1>4. TouchInv' /\ Listens'
  BY <1>1 DEF TouchInv, Listens
<1> QED BY <1>1, <1>3, <1>4 DEF IInv, DeviceInv

LEMMA TouchMoveKeeps ==
  ASSUME IInv, tracking, NEW ps \in Changes(down), TouchMove(ps)
  PROVE  IInv'
<1>1. device = "touch" /\ Moves(ps) /\ TouchInv
  BY DEF IInv, DeviceInv, TouchMove
<1>2. ps \in Seq(Pointers) /\ ToSet(ps) \subseteq down
  <2>1. down \subseteq Pointers
    BY <1>1 DEF TouchInv, Pointers
  <2> QED BY <2>1, TouchesOfEvent
<1>3. ~cancelled /\ ~lost => ToSet(ps) \subseteq Tracked(list)
  BY <1>1, <1>2 DEF TouchInv, Exact
<1> QED BY <1>1, <1>2, <1>3, MovesKeep

-----------------------------------------------------------------------------
(* The theorems *)

LEMMA NextIInv ==
  ASSUME IInv, [Next]_vars
  PROVE  IInv'
<1>1. CASE Next
  <2>1. tracking
    BY <1>1 DEF Next
  <2>2. CASE MouseOver \/ MouseOut \/ MouseDown \/ MouseUp \/ MouseMove
    BY <2>1, <2>2, MouseOverKeeps, MouseOutKeeps, MouseDownKeeps, MouseUpKeeps, MouseMoveKeeps
  <2>3. CASE \E p \in Fingers : \/ FingerLands(p) \/ FingerLifted(p) \/ FingerCancelled(p)
                                \/ PointerMove(p) \/ TouchLost(p)
    BY <2>1, <2>3, FingerLandsKeeps, FingerLiftedKeeps, FingerCancelledKeeps,
       PointerMoveKeeps, TouchLostKeeps
  <2>4. CASE \E ps \in Changes(Fingers \ down) : TouchStart(ps)
    BY <2>1, <2>4, TouchStartKeeps
  <2>5. CASE \E ps \in Changes(down) : TouchEnd(ps) \/ TouchCancel(ps) \/ TouchMove(ps)
    BY <2>1, <2>5, TouchEndKeeps, TouchCancelKeeps, TouchMoveKeeps
  <2>6. CASE Destroy
    BY <2>1, <2>6, DestroyKeeps
  <2> QED BY <1>1, <2>2, <2>3, <2>4, <2>5, <2>6 DEF Next
<1>2. CASE UNCHANGED vars
  BY <1>2 DEF vars, IInv, TypesInv, ListInv, DeviceInv, MouseInv, PointerInv, TouchInv,
              Heeds, Listens
<1> QED BY <1>1, <1>2

\* The pointers, the list and the counts have their types: no handler tracks a pointer
\* twice or says anything of one it does not track.
THEOREM PointersAreTyped == Spec => []TypeOK
<1>1. IInv => TypeOK
  <2> SUFFICES ASSUME IInv PROVE TypeOK
    OBVIOUS
  <2>1. list \in Lists /\ Distinct(list.points)
        /\ list.captured \cup list.inside \cup list.placed \subseteq Tracked(list)
    BY DEF IInv, ListInv, Sound
  <2>2. IsInjective(list.points)
    BY <2>1 DEF Distinct, IsInjective, Lists
  <2> QED BY <2>1, <2>2 DEF TypeOK, Lists, IInv, TypesInv
<1> QED BY InitIInv, NextIInv, <1>1, PTL DEF Spec

\* The count of contacts that tells a drag from a pinch is the number of captured points,
\* whatever the number of fingers and the order of pointer or touch events: with touch
\* events, until the first touch that is cancelled or lost, which no handler accounts for.
THEOREM ContactsStayCounted == Spec => []ContactsAreCounted
<1>1. IInv => ContactsAreCounted
  <2> SUFFICES ASSUME IInv, tracking, ~(device = "touch" /\ (cancelled \/ lost))
               PROVE  /\ list.contacts = Cardinality(list.captured)
                      /\ \A p \in Pointers : list.timed[p] = IF p \in list.captured THEN 1 ELSE 0
                      /\ ~cancelled => /\ list.pressed <=> list.contacts > 0
                                       /\ list.contacts = 1 => list.points[1] \in list.captured
    BY DEF ContactsAreCounted
  <2>1. /\ list \in Sound /\ device \in Devices
        /\ device = "mouse" => MouseInv
        /\ device = "pointer" => PointerInv
        /\ device = "touch" => TouchInv
    BY DEF IInv, TypesInv, ListInv, DeviceInv
  <2>2. Counted(list)
    BY <2>1 DEF Devices, MouseInv, PointerInv, TouchInv, Exact
  <2>3. ~cancelled => Pressed(list)
    BY <2>1 DEF Devices, MouseInv, PointerInv, TouchInv, Exact
  <2>4. ~cancelled /\ list.captured # {} => list.captured = Tracked(list) \/ device = "mouse"
    BY <2>1 DEF Devices, PointerInv, TouchInv, Exact
  <2>5. device = "mouse" /\ list.captured # {} => list.captured = Tracked(list)
    BY <2>1 DEF MouseInv
  <2>6. /\ IsFiniteSet(list.captured) /\ Cardinality(list.captured) \in Nat
        /\ list.points \in Seq(Pointers) /\ Len(list.points) \in Nat
        /\ Cardinality(Tracked(list)) = Len(list.points)
    BY <2>1, CapturedFinite DEF Sound, Lists
  <2>7. Cardinality(list.captured) = 0 <=> list.captured = {}
    BY <2>6, FS_EmptySet
  <2>8. list.pressed \in BOOLEAN
    BY <2>1 DEF Sound, Lists
  <2>9. ~cancelled => (list.pressed <=> list.contacts > 0)
    BY <2>2, <2>3, <2>6, <2>7, <2>8 DEF Counted, Pressed
  <2>10. ASSUME ~cancelled, list.contacts = 1 PROVE list.points[1] \in list.captured
    <3>1. list.captured = Tracked(list)
      BY <2>2, <2>4, <2>5, <2>7, <2>10 DEF Counted
    <3>2. 1 \in 1..Len(list.points)
      <4>1. Cardinality(list.captured) = 1
        BY <2>2, <2>10 DEF Counted
      <4>2. Len(list.points) = 1
        BY <2>6, <3>1, <4>1
      <4> QED BY <4>2
    <3>3. list.points[1] \in ToSet(list.points)
      BY <2>6, <3>2, SetOfList
    <3> QED BY <3>1, <3>3 DEF Tracked
  <2> QED BY <2>2, <2>9, <2>10 DEF Counted
<1> QED BY InitIInv, NextIInv, <1>1, PTL DEF Spec

\* With a mouse or pointer events, until one is cancelled, the tracker listens to the window
\* exactly while something is down; a viewer that is destroyed leaves no listener there.
THEOREM ListenersComeAndGo == Spec => []ListensWhileCaptured
<1>1. IInv => ListensWhileCaptured
  <2> SUFFICES ASSUME IInv PROVE ListensWhileCaptured
    OBVIOUS
  <2>1. ASSUME tracking, ~cancelled, ~lost, ~grouped PROVE list.listening <=> down # {}
    <3>1. device = "touch" => Heeds(list, down)
      BY <2>1 DEF IInv, DeviceInv, TouchInv
    <3>2. device # "touch" => (list.listening <=> down # {})
      BY <2>1 DEF IInv, DeviceInv, Listens
    <3> QED BY <3>1, <3>2 DEF Heeds
  <2> QED BY <2>1 DEF IInv, ListInv, ListensWhileCaptured
<1> QED BY InitIInv, NextIInv, <1>1, PTL DEF Spec

\* Lost touches do not stay: whichever were lost, touchstart drops them all before it
\* tracks the next one, as long as none was cancelled.
THEOREM LostTouchesAreDropped == Spec => TouchStartsClean
<1>1. ASSUME IInv, Next, device = "touch", ~cancelled, down' \ down # {},
             down \subseteq Tracked(list)
      PROVE  Tracked(list') \subseteq down'
  <2>1. tracking
    BY <1>1 DEF Next
  <2>2. ~(MouseOver \/ MouseOut \/ MouseDown \/ MouseUp \/ MouseMove)
    BY <1>1 DEF MouseOver, MouseOut, MouseDown, MouseUp, MouseMove
  <2>3. \A p \in Fingers : ~(FingerLands(p) \/ FingerLifted(p) \/ FingerCancelled(p)
                             \/ PointerMove(p) \/ TouchLost(p))
    BY <1>1 DEF FingerLands, FingerLifted, FingerCancelled, PointerMove, TouchLost
  <2>4. \A ps \in Changes(down) : ~(TouchEnd(ps) \/ TouchCancel(ps) \/ TouchMove(ps))
    BY <1>1 DEF TouchEnd, TouchCancel, TouchMove, Moves
  <2>5. ~Destroy
    BY <1>1 DEF Destroy
  <2>6. PICK ps \in Changes(Fingers \ down) : TouchStart(ps)
    BY <1>1, <2>2, <2>3, <2>4, <2>5 DEF Next
  <2> QED BY <1>1, <2>1, <2>6, TouchStartKeeps
<1>2. IInv /\ [Next]_vars =>
        [/\ device = "touch" /\ ~cancelled
         /\ down' \ down # {} /\ down \subseteq Tracked(list)
         => Tracked(list') \subseteq down']_vars
  BY <1>1
<1> QED BY InitIInv, NextIInv, <1>2, PTL DEF Spec, TouchStartsClean

==============================================================================
