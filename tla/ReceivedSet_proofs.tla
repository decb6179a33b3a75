------------------------- MODULE ReceivedSet_proofs -------------------------
(* That the range list of ReceivedSet stays coalesced and stands for exactly *)
(* the SNs inserted, for every bound MaxSN and every order of insertion, and *)
(* that the queries on it return what they promise of that set.              *)
EXTENDS ReceivedSet, LeastElement, FiniteSetTheorems, TLAPS

RangeType == [lo : 1..MaxSN, hi : 1..MaxSN]
Ranges    == Seq(RangeType)

(* Coalesced, of any list. *)
Sorted(rs) ==
    /\ \A i \in 1..Len(rs) : rs[i].lo <= rs[i].hi
    /\ \A i, j \in 1..Len(rs) : i < j => rs[i].hi + 1 < rs[j].lo

(* The elements of a range list. *)
LEMMA RangesElements ==
    ASSUME NEW rs \in Ranges
    PROVE  /\ Len(rs) \in Nat /\ DOMAIN rs = 1..Len(rs)
           /\ \A k \in 1..Len(rs) : /\ rs[k] \in RangeType
                                   /\ rs[k].lo \in 1..MaxSN /\ rs[k].hi \in 1..MaxSN
                                   /\ rs[k].lo \in Int /\ rs[k].hi \in Int
<1>1. Len(rs) \in Nat /\ DOMAIN rs = 1..Len(rs)
      BY DEF Ranges
<1>2. \A k \in 1..Len(rs) : rs[k] \in RangeType
      BY DEF Ranges
<1>3. \A x \in RangeType :
          x.lo \in 1..MaxSN /\ x.hi \in 1..MaxSN /\ x.lo \in Int /\ x.hi \in Int
      BY MaxSNAssumption DEF RangeType
<1> QED  BY <1>1, <1>2, <1>3

(* insert() finds its place: the scan of the sorted list ends. *)
LEMMA InsertIdxExists ==
    ASSUME NEW rs \in Ranges, NEW sn \in Int
    PROVE  LET i == InsertIdx(rs, sn)
           IN  /\ i \in 0..Len(rs)
               /\ \A j \in 1..i : rs[j].lo <= sn
               /\ i < Len(rs) => rs[i + 1].lo > sn
<1> DEFINE T == {k \in 1..(Len(rs) + 1) : k = Len(rs) + 1 \/ rs[k].lo > sn}
<1>1. Len(rs) \in Nat /\ \A k \in 1..Len(rs) : rs[k].lo \in Int
      BY RangesElements
<1>2. T \subseteq Nat /\ Len(rs) + 1 \in T
      BY <1>1
<1>3. PICK k \in T : \A y \in T : k <= y
      BY <1>2, LeastNatural
<1>4. /\ k - 1 \in 0..Len(rs)
      /\ \A j \in 1..(k - 1) : rs[j].lo <= sn
      /\ k - 1 < Len(rs) => rs[(k - 1) + 1].lo > sn
  <2>1. k \in 1..(Len(rs) + 1) /\ (k = Len(rs) + 1 \/ rs[k].lo > sn)
        BY <1>3
  <2>2. \A j \in 1..(k - 1) : j \notin T /\ j \in 1..Len(rs)
        BY <1>3, <2>1, <1>1
  <2>3. \A j \in 1..(k - 1) : rs[j].lo <= sn
        BY <2>1, <2>2, <1>1
  <2> QED  BY <2>1, <2>3, <1>1
<1>5. \E i \in 0..Len(rs) : /\ \A j \in 1..i : rs[j].lo <= sn
                            /\ i < Len(rs) => rs[i + 1].lo > sn
      BY <1>4
<1> QED  BY <1>5 DEF InsertIdx

(* What insert() changes, of a list that lacks sn: the four ways in which sn *)
(* may touch its neighbours.                                                *)
LEMMA InsertAtType ==
    ASSUME NEW rs \in Ranges, NEW i \in 0..Len(rs), NEW sn \in 1..MaxSN
    PROVE  InsertAt(rs, i, sn) \in Ranges
<1> DEFINE p == IF JoinsPred(rs, i, sn) THEN 1 ELSE 0
           s == IF JoinsSucc(rs, i, sn) THEN 1 ELSE 0
           lo == IF p = 1 THEN rs[i].lo ELSE sn
           hi == IF s = 1 THEN rs[i + 1].hi ELSE sn
           n  == Len(rs) + 1 - p - s
           e(k) == IF k < i + 1 - p THEN rs[k]
                   ELSE IF k = i + 1 - p THEN SnRange(lo, hi)
                   ELSE rs[k - 1 + p + s]
<1>1. /\ Len(rs) \in Nat
      /\ \A k \in 1..Len(rs) : /\ rs[k] \in RangeType
                              /\ rs[k].lo \in 1..MaxSN /\ rs[k].hi \in 1..MaxSN
      BY RangesElements
<1>2. p \in 0..1 /\ s \in 0..1 /\ (p = 1 => i > 0) /\ (s = 1 => i < Len(rs))
      BY DEF JoinsPred, JoinsSucc
<1>3. lo \in 1..MaxSN /\ hi \in 1..MaxSN
      BY <1>1, <1>2
<1>4. n \in Nat
      BY <1>1, <1>2
<1> HIDE DEF p, s, lo, hi
<1>5. \A k \in 1..n : e(k) \in RangeType
  <2>1. SnRange(lo, hi) \in RangeType
        BY <1>3 DEF SnRange, RangeType
  <2> QED  BY <1>1, <1>2, <1>4, <2>1
<1>6. [k \in 1..n |-> e(k)] \in Ranges
  <2> HIDE DEF n, e
  <2>1. \A x \in [1..n -> RangeType] : x \in Seq(RangeType)
        BY <1>4
  <2> QED  BY <2>1, <1>5 DEF Ranges
<1>7. InsertAt(rs, i, sn) = [k \in 1..n |-> e(k)]
      BY DEF InsertAt, p, s, lo, hi
<1> QED  BY <1>6, <1>7

(* What insert() relies on where it puts sn, at i: the ranges before it end *)
(* below sn, those behind it start above.                                   *)
Fits(rs, i, sn) ==
    /\ i \in 0..Len(rs)
    /\ i > 0 => rs[i].hi < sn
    /\ i < Len(rs) => sn < rs[i + 1].lo

(* The list f that insert() leaves, range by range: those before the new     *)
(* one, at m, stay, and those behind it, from above rs[i + s], move by d.     *)
Moved(rs, f, m, i, s, d) ==
    /\ m \in 1..Len(f)
    /\ \A k \in 1..Len(f) : k < m => /\ k \in 1..Len(rs) /\ k <= i
                                      /\ f[k].lo = rs[k].lo /\ f[k].hi = rs[k].hi
    /\ \A k \in 1..Len(f) : k > m => \E j \in 1..Len(rs) :
                 j = k + d /\ j > i + s /\ f[k].lo = rs[j].lo /\ f[k].hi = rs[j].hi
    /\ \A j \in 1..Len(rs) : j > i + s => \E k \in 1..Len(f) :
                 j = k + d /\ k > m /\ f[k].lo = rs[j].lo /\ f[k].hi = rs[j].hi

(* The new range: sn, and the neighbours it took the place of. *)
Joined(rs, f, m, i, s, sn) ==
    /\ s \in 0..1 /\ m \in {i, i + 1} /\ i + s <= Len(rs)
    /\ f[m].lo \in Int /\ f[m].hi \in Int
    /\ \/ m = i + 1 /\ f[m].lo = sn /\ (i > 0 => rs[i].hi + 1 < sn)
       \/ i > 0 /\ m = i /\ f[m].lo = rs[i].lo /\ rs[i].hi + 1 = sn
    /\ \/ s = 0 /\ f[m].hi = sn /\ \A j \in 1..Len(rs) : j = i + 1 => sn + 1 < rs[j].lo
       \/ s = 1 /\ \E j \in 1..Len(rs) : j = i + 1 /\ f[m].hi = rs[j].hi /\ sn + 1 = rs[j].lo

LEMMA InsertAtShape ==
    ASSUME NEW rs \in Ranges, NEW sn \in 1..MaxSN, NEW i, Fits(rs, i, sn)
    PROVE  \E m, s, d \in Int : LET f == InsertAt(rs, i, sn)
                              IN  Moved(rs, f, m, i, s, d) /\ Joined(rs, f, m, i, s, sn)
<1> DEFINE p == IF JoinsPred(rs, i, sn) THEN 1 ELSE 0
           s == IF JoinsSucc(rs, i, sn) THEN 1 ELSE 0
           lo == IF p = 1 THEN rs[i].lo ELSE sn
           hi == IF s = 1 THEN rs[i + 1].hi ELSE sn
           n  == Len(rs) + 1 - p - s
           f  == InsertAt(rs, i, sn)
           m  == i + 1 - p
           d  == p + s - 1
<1>1. /\ Len(rs) \in Nat
      /\ \A k \in 1..Len(rs) : rs[k].lo \in Int /\ rs[k].hi \in Int
      /\ i \in 0..Len(rs) /\ i \in Int /\ sn \in Int
      BY RangesElements, MaxSNAssumption DEF Fits
<1>2. /\ p \in 0..1 /\ s \in 0..1
      /\ p = 1 <=> (i > 0 /\ rs[i].hi + 1 = sn)
      /\ s = 1 <=> (i < Len(rs) /\ sn + 1 = rs[i + 1].lo)
      BY DEF JoinsPred, JoinsSucc
<1>3. /\ lo \in Int /\ lo = IF p = 1 THEN rs[i].lo ELSE sn
      /\ hi \in Int /\ hi = IF s = 1 THEN rs[i + 1].hi ELSE sn
      BY <1>1, <1>2
<1>4. f = [k \in 1..n |-> IF k < i + 1 - p THEN rs[k]
                          ELSE IF k = i + 1 - p THEN SnRange(lo, hi)
                          ELSE rs[k - 1 + p + s]]
      BY DEF InsertAt
<1>5. Len(f) \in Nat /\ DOMAIN f = 1..Len(f)
      BY <1>1, InsertAtType, RangesElements
<1> HIDE DEF p, s, lo, hi, f
<1>6. n \in Nat /\ m \in 1..n /\ m \in Int /\ d \in Int
      BY <1>1, <1>2
<1>7. Len(f) = n
  <2>1. DOMAIN f = 1..n
        BY <1>4
  <2> QED  BY <2>1, <1>5, <1>6
<1>8. f[m].lo = lo /\ f[m].hi = hi
  <2>1. f[m] = SnRange(lo, hi)
        BY <1>4, <1>6
  <2> QED  BY <2>1 DEF SnRange
<1>9. \A k \in 1..n : k < m => f[k] = rs[k]
      BY <1>4, <1>1, <1>2
<1>10. \A k \in 1..n, j \in Int : k > m /\ j = k + d => f[k] = rs[j]
  <2>1. \A k \in 1..n : k > m => f[k] = rs[k - 1 + p + s]
        BY <1>4, <1>1, <1>2
  <2>2. \A k \in 1..n : k + d = k - 1 + p + s
        BY <1>2, <1>6
  <2> QED  BY <2>1, <2>2
<1>11. Moved(rs, f, m, i, s, d)
  <2>1. \A k \in 1..n : k < m => k \in 1..Len(rs) /\ k <= i
        BY <1>1, <1>2
  <2>2. \A k \in 1..n : k > m => k + d \in 1..Len(rs) /\ k + d > i + s
        BY <1>1, <1>2
  <2>3. \A j \in 1..Len(rs) : j > i + s => j - d \in 1..n /\ j - d > m /\ j = (j - d) + d
        BY <1>1, <1>2
  <2> HIDE DEF n, m, d
  <2>4. \A k \in 1..Len(f) : k > m => \E j \in 1..Len(rs) :
                 j = k + d /\ j > i + s /\ f[k] = rs[j]
        BY <2>2, <1>7, <1>10
  <2>5. \A j \in 1..Len(rs) : j > i + s => \E k \in 1..Len(f) :
                 j = k + d /\ k > m /\ f[k] = rs[j]
        BY <2>3, <1>7, <1>10
  <2> QED  BY <2>1, <2>4, <2>5, <1>6, <1>7, <1>9 DEF Moved
<1>12. Joined(rs, f, m, i, s, sn)
  <2>1. s \in 0..1 /\ m \in {i, i + 1} /\ i + s <= Len(rs)
        BY <1>1, <1>2
  <2>2. \/ m = i + 1 /\ lo = sn /\ (i > 0 => rs[i].hi + 1 < sn)
        \/ i > 0 /\ m = i /\ lo = rs[i].lo /\ rs[i].hi + 1 = sn
        BY <1>1, <1>2, <1>3 DEF Fits
  <2>3. CASE s = 0
    <3>1. \A j \in 1..Len(rs) : j = i + 1 => sn + 1 < rs[j].lo
          BY <2>3, <1>1, <1>2 DEF Fits
    <3> QED  BY <2>1, <2>2, <2>3, <3>1, <1>3, <1>8 DEF Joined
  <2>4. CASE s = 1
    <3>1. \E j \in 1..Len(rs) : j = i + 1 /\ hi = rs[j].hi /\ sn + 1 = rs[j].lo
          BY <2>4, <1>1, <1>2, <1>3
    <3> QED  BY <2>1, <2>2, <2>4, <3>1, <1>3, <1>8 DEF Joined
  <2> QED  BY <2>1, <2>3, <2>4
<1>13. m \in Int /\ s \in Int /\ d \in Int
       BY <1>2, <1>6
<1> HIDE DEF m, d
<1> QED  BY <1>11, <1>12, <1>13 DEF f

(* The new range keeps its distance from the ranges that stay. *)
LEMMA InsertAtApart ==
    ASSUME NEW rs \in Ranges, NEW sn \in 1..MaxSN, NEW i, Sorted(rs), Fits(rs, i, sn),
           NEW f, NEW m \in Int, NEW s \in Int, Joined(rs, f, m, i, s, sn)
    PROVE  /\ f[m].lo <= sn /\ sn <= f[m].hi
           /\ \A j \in 1..Len(rs) : j < m => rs[j].hi + 1 < f[m].lo
           /\ \A j \in 1..Len(rs) : j > i + s => f[m].hi + 1 < rs[j].lo
<1>1. /\ Len(rs) \in Nat
      /\ \A k \in 1..Len(rs) : rs[k].lo \in Int /\ rs[k].hi \in Int
      /\ i \in 0..Len(rs) /\ i \in Int /\ sn \in Int
      BY RangesElements, MaxSNAssumption DEF Fits
<1>2. f[m].lo <= sn /\ \A j \in 1..Len(rs) : j < m => rs[j].hi + 1 < f[m].lo
  <2>1. CASE m = i + 1 /\ f[m].lo = sn /\ (i > 0 => rs[i].hi + 1 < sn)
    <3>1. \A j \in 1..Len(rs) : j < i => rs[j].hi + 1 < rs[i].lo /\ rs[i].lo <= rs[i].hi
          BY <1>1 DEF Sorted
    <3> QED  BY <1>1, <2>1, <3>1
  <2>2. CASE i > 0 /\ m = i /\ f[m].lo = rs[i].lo /\ rs[i].hi + 1 = sn
        BY <1>1, <2>2 DEF Sorted, Joined
  <2> QED  BY <2>1, <2>2 DEF Joined
<1>3. sn <= f[m].hi /\ \A j \in 1..Len(rs) : j > i + s => f[m].hi + 1 < rs[j].lo
  <2>1. CASE s = 0 /\ f[m].hi = sn /\ \A j \in 1..Len(rs) : j = i + 1 => sn + 1 < rs[j].lo
    <3>1. ASSUME NEW j \in 1..Len(rs), j > i + s
          PROVE  sn + 1 < rs[j].lo
      <4>1. PICK u \in 1..Len(rs) : u = i + 1
            BY <1>1, <2>1, <3>1
      <4>2. u < j => rs[u].lo <= rs[u].hi /\ rs[u].hi + 1 < rs[j].lo
            BY <1>1 DEF Sorted
      <4> QED  BY <1>1, <2>1, <3>1, <4>1, <4>2
    <3> QED  BY <1>1, <2>1, <3>1
  <2>2. CASE s = 1 /\ \E j \in 1..Len(rs) : j = i + 1 /\ f[m].hi = rs[j].hi /\ sn + 1 = rs[j].lo
        BY <1>1, <2>2 DEF Sorted
  <2> QED  BY <2>1, <2>2 DEF Joined
<1> QED  BY <1>2, <1>3

(* Inserting an SN keeps the list coalesced. *)
LEMMA InsertAtSorted ==
    ASSUME NEW rs \in Ranges, NEW sn \in 1..MaxSN, NEW i, Sorted(rs), Fits(rs, i, sn)
    PROVE  Sorted(InsertAt(rs, i, sn))
<1> DEFINE f == InsertAt(rs, i, sn)
<1>1. /\ Len(rs) \in Nat /\ sn \in Int /\ i \in Int
      /\ \A k \in 1..Len(rs) : rs[k].lo \in Int /\ rs[k].hi \in Int
      BY RangesElements, MaxSNAssumption DEF Fits
<1>2. /\ Len(f) \in Nat
      /\ \A k \in 1..Len(f) : f[k].lo \in Int /\ f[k].hi \in Int
      BY InsertAtType, RangesElements DEF Fits
<1>3. PICK m, s, d \in Int : Moved(rs, f, m, i, s, d) /\ Joined(rs, f, m, i, s, sn)
      BY InsertAtShape
<1> HIDE DEF f
<1>4. /\ f[m].lo <= sn /\ sn <= f[m].hi
      /\ \A j \in 1..Len(rs) : j < m => rs[j].hi + 1 < f[m].lo
      /\ \A j \in 1..Len(rs) : j > i + s => f[m].hi + 1 < rs[j].lo
      BY <1>3, InsertAtApart
<1>5. \A k \in 1..Len(f) : f[k].lo <= f[k].hi
  <2> TAKE k \in 1..Len(f)
  <2>1. CASE k < m
        BY <1>3, <2>1 DEF Moved, Sorted
  <2>2. CASE k = m
        BY <1>1, <1>2, <1>4, <2>2
  <2>3. CASE k > m
        BY <1>3, <2>3 DEF Moved, Sorted
  <2> QED  BY <1>1, <1>2, <1>3, <2>1, <2>2, <2>3
<1>6. ASSUME NEW a \in 1..Len(f), NEW b \in 1..Len(f), a < b
      PROVE  f[a].hi + 1 < f[b].lo
  <2>1. CASE a < m /\ b < m
        BY <1>3, <1>6, <2>1 DEF Moved, Sorted
  <2>2. CASE a < m /\ b = m
        BY <1>3, <1>4, <2>2 DEF Moved
  <2>3. CASE a < m /\ b > m
    <3>1. a \in 1..Len(rs) /\ f[a].hi = rs[a].hi /\ rs[a].hi + 1 < f[m].lo
          BY <1>3, <1>4, <2>3 DEF Moved
    <3>2. f[m].hi + 1 < f[b].lo
          BY <1>3, <1>4, <2>3 DEF Moved
    <3>3. /\ f[m].lo \in Int /\ f[m].hi \in Int /\ rs[a].hi \in Int /\ f[b].lo \in Int
          /\ f[m].lo <= f[m].hi
          BY <1>1, <1>2, <1>3, <1>4, <3>1 DEF Moved
    <3>4. \A u, v, x, y \in Int : u + 1 < v /\ v <= x /\ x + 1 < y => u + 1 < y
          OBVIOUS
    <3> QED  BY <3>1, <3>2, <3>3, <3>4
  <2>4. CASE a = m /\ b > m
        BY <1>3, <1>4, <2>4 DEF Moved
  <2>5. CASE a > m /\ b > m
    <3>1. PICK j \in 1..Len(rs) : j = a + d /\ f[a].hi = rs[j].hi
          BY <1>3, <2>5 DEF Moved
    <3>2. PICK u \in 1..Len(rs) : u = b + d /\ f[b].lo = rs[u].lo
          BY <1>3, <2>5 DEF Moved
    <3> QED  BY <1>6, <3>1, <3>2 DEF Sorted
  <2> QED  BY <1>3, <1>6, <2>1, <2>2, <2>3, <2>4, <2>5 DEF Moved
<1> QED  BY <1>5, <1>6 DEF Sorted, f

(* Inserting an SN adds that SN and nothing else. *)
LEMMA InsertAtContent ==
    ASSUME NEW rs \in Ranges, NEW sn \in 1..MaxSN, NEW i, Sorted(rs), Fits(rs, i, sn)
    PROVE  Content(InsertAt(rs, i, sn)) = Content(rs) \union {sn}
<1> DEFINE f == InsertAt(rs, i, sn)
           In(l, k, n) == l[k].lo <= n /\ n <= l[k].hi
<1>1. /\ Len(rs) \in Nat /\ sn \in Int /\ i \in 0..Len(rs)
      /\ \A k \in 1..Len(rs) : rs[k].lo \in Int /\ rs[k].hi \in Int
      /\ \A n \in 1..MaxSN : n \in Int
      BY RangesElements, MaxSNAssumption DEF Fits
<1>2. /\ Len(f) \in Nat
      /\ \A k \in 1..Len(f) : f[k].lo \in Int /\ f[k].hi \in Int
      BY InsertAtType, RangesElements DEF Fits
<1>3. PICK m, s, d \in Int : Moved(rs, f, m, i, s, d) /\ Joined(rs, f, m, i, s, sn)
      BY InsertAtShape
<1> HIDE DEF f
<1>4. m \in 1..Len(f) /\ f[m].lo <= sn /\ sn <= f[m].hi
      BY <1>3, InsertAtApart DEF Moved
<1>5. ASSUME NEW n \in 1..MaxSN, NEW k \in 1..Len(f), In(f, k, n), n # sn
      PROVE  \E j \in 1..Len(rs) : In(rs, j, n)
  <2>1. CASE k < m
        BY <1>3, <1>5, <2>1 DEF Moved
  <2>4. CASE k > m
        BY <1>3, <1>5, <2>4 DEF Moved
  <2>2. CASE k = m /\ n < sn
    <3>1. i > 0 /\ m = i /\ f[m].lo = rs[i].lo /\ rs[i].hi + 1 = sn
          BY <1>1, <1>2, <1>3, <1>5, <2>2 DEF Joined
    <3> QED  BY <1>1, <1>2, <1>4, <1>5, <2>2, <3>1
  <2>3. CASE k = m /\ n > sn
    <3>1. PICK j \in 1..Len(rs) : f[m].hi = rs[j].hi /\ sn + 1 = rs[j].lo
          BY <1>1, <1>2, <1>3, <1>5, <2>3 DEF Joined
    <3> QED  BY <1>1, <1>2, <1>4, <1>5, <2>3, <3>1
  <2> QED  BY <1>1, <1>3, <1>5, <2>1, <2>2, <2>3, <2>4
<1>6. ASSUME NEW n \in 1..MaxSN, NEW j \in 1..Len(rs), In(rs, j, n)
      PROVE  \E k \in 1..Len(f) : In(f, k, n)
  <2>1. CASE j > i + s
        BY <1>1, <1>3, <1>6, <2>1 DEF Moved
  <2>2. CASE j < m
    <3>1. j \in 1..Len(f)
          BY <1>1, <1>2, <1>4, <2>2
    <3> QED  BY <1>1, <1>3, <1>6, <2>2, <3>1 DEF Moved
  <2>3. CASE j = m /\ m = i
    <3>1. f[m].lo = rs[j].lo /\ rs[j].hi + 1 = sn
          BY <1>1, <1>3, <2>3 DEF Joined
    <3> QED  BY <1>1, <1>2, <1>4, <1>6, <3>1
  <2>4. CASE j = i + 1 /\ s = 1
        BY <1>1, <1>2, <1>3, <1>4, <1>6, <2>4 DEF Joined
  <2> QED  BY <1>1, <1>3, <2>1, <2>2, <2>3, <2>4 DEF Joined
<1>7. \A n \in 1..MaxSN : (\E k \in 1..Len(f) : In(f, k, n))
                           <=> (n = sn \/ \E j \in 1..Len(rs) : In(rs, j, n))
      BY <1>4, <1>5, <1>6
<1> QED  BY <1>7 DEF Content, f

(* With the ranges sorted, contains() finds what they hold in spite of its  *)
(* early return.                                                            *)
LEMMA ContainsContent ==
    ASSUME NEW rs \in Ranges, Sorted(rs), NEW sn \in Int
    PROVE  Contains(rs, sn) <=> sn \in Content(rs)
<1>1. /\ Len(rs) \in Nat
      /\ \A k \in 1..Len(rs) : /\ rs[k].lo \in 1..MaxSN /\ rs[k].hi \in 1..MaxSN
                              /\ rs[k].lo \in Int /\ rs[k].hi \in Int
      BY RangesElements
<1>2. ASSUME NEW i \in 1..Len(rs), rs[i].lo <= sn, sn <= rs[i].hi
      PROVE  Contains(rs, sn) /\ sn \in 1..MaxSN
  <2>1. \A j \in 1..i : rs[j].lo <= sn
    <3> TAKE j \in 1..i
    <3>1. j \in 1..Len(rs)
          BY <1>1
    <3>2. j < i => rs[j].lo <= rs[j].hi /\ rs[j].hi + 1 < rs[i].lo
          BY <3>1 DEF Sorted
    <3> QED  BY <1>1, <1>2, <3>1, <3>2
  <2>2. sn \in 1..MaxSN
        BY <1>1, <1>2, MaxSNAssumption
  <2> QED  BY <1>2, <2>1, <2>2 DEF Contains
<1>3. ASSUME NEW i \in 1..Len(rs), \A j \in 1..i : rs[j].lo <= sn
      PROVE  rs[i].lo <= sn
      BY <1>1, <1>3
<1> QED  BY <1>2, <1>3 DEF Contains, Content

(* An SN that insert() accepts fits where the scan stops. *)
LEMMA AcceptedFits ==
    ASSUME NEW rs \in Ranges, NEW sn \in 1..MaxSN, ~Contains(rs, sn)
    PROVE  Fits(rs, InsertIdx(rs, sn), sn)
<1> DEFINE i == InsertIdx(rs, sn)
<1>1. /\ Len(rs) \in Nat /\ sn \in Int
      /\ \A k \in 1..Len(rs) : rs[k].lo \in Int /\ rs[k].hi \in Int
      BY RangesElements, MaxSNAssumption
<1>2. /\ i \in 0..Len(rs)
      /\ \A j \in 1..i : rs[j].lo <= sn
      /\ i < Len(rs) => rs[i + 1].lo > sn
      BY <1>1, InsertIdxExists
<1> HIDE DEF i
<1>3. i > 0 => rs[i].hi < sn
      BY <1>1, <1>2 DEF Contains
<1> QED  BY <1>1, <1>2, <1>3 DEF Fits, i

-----------------------------------------------------------------------------
Inv == ReceivedTypeOK /\ Coalesced /\ Content(ranges) = inserted

LEMMA InitInv == ReceivedInit => Inv
<1> SUFFICES ASSUME ReceivedInit PROVE Inv
    OBVIOUS
<1>1. ranges = <<>> /\ inserted = {} /\ Len(ranges) = 0
      BY DEF ReceivedInit
<1>2. ReceivedTypeOK
      BY <1>1 DEF ReceivedTypeOK
<1>3. Coalesced /\ Content(ranges) = inserted
      BY <1>1 DEF Coalesced, Content
<1> QED  BY <1>2, <1>3 DEF Inv

LEMMA InvInContext ==
    Inv <=> ranges \in Ranges /\ Sorted(ranges) /\ inserted \in SUBSET (1..MaxSN)
            /\ Content(ranges) = inserted
BY DEF Inv, ReceivedTypeOK, Coalesced, Ranges, RangeType, Sorted

LEMMA InsertInv ==
    ASSUME Inv, NEW sn \in -1..MaxSN, Insert(sn)
    PROVE  Inv'
<1>1. /\ ranges \in Ranges /\ Sorted(ranges) /\ inserted \in SUBSET (1..MaxSN)
      /\ Content(ranges) = inserted
      BY InvInContext
<1>2. sn \in Int /\ (sn >= 1 => sn \in 1..MaxSN)
      BY MaxSNAssumption
<1>3. CASE Accepts(ranges, sn)
  <2> DEFINE i == InsertIdx(ranges, sn)
  <2>1. /\ sn \in 1..MaxSN /\ Fits(ranges, i, sn)
        BY <1>1, <1>2, <1>3, AcceptedFits DEF Accepts
  <2>2. ranges' = InsertAt(ranges, i, sn) /\ inserted' = inserted \union {sn}
        BY <1>2, <1>3 DEF Insert, InsertResult, Accepts
  <2>3. i \in 0..Len(ranges)
        BY <2>1 DEF Fits
  <2> HIDE DEF i
  <2>4. ranges' \in Ranges
        BY <1>1, <2>1, <2>2, <2>3, InsertAtType
  <2>5. Sorted(ranges')
        BY <1>1, <2>1, <2>2, InsertAtSorted
  <2>6. Content(ranges') = inserted'
        BY <1>1, <2>1, <2>2, InsertAtContent
  <2> QED  BY <1>1, <2>1, <2>2, <2>4, <2>5, <2>6
           DEF Inv, ReceivedTypeOK, Coalesced, Ranges, RangeType, Sorted
<1>4. CASE ~Accepts(ranges, sn)
  <2>1. ranges' = ranges
        BY <1>4 DEF Insert, InsertResult
  <2>2. sn >= 1 => sn \in inserted
        BY <1>1, <1>2, <1>4, ContainsContent DEF Accepts
  <2>3. inserted' = inserted
        BY <2>2 DEF Insert
  <2> QED  BY <2>1, <2>3 DEF Inv, ReceivedTypeOK, Coalesced, Content
<1> QED  BY <1>3, <1>4

(* Inv is inductive, for every MaxSN. *)
LEMMA SpecInv == ReceivedSpec => []Inv
<1>1. Inv /\ [ReceivedNext]_rvars => Inv'
  <2> SUFFICES ASSUME Inv, [ReceivedNext]_rvars PROVE Inv'
      OBVIOUS
  <2>1. CASE ReceivedNext
        BY <2>1, InsertInv DEF ReceivedNext
  <2>2. CASE UNCHANGED rvars
        BY <2>2 DEF rvars, Inv, ReceivedTypeOK, Coalesced, Content
  <2> QED  BY <2>1, <2>2
<1> QED  BY <1>1, InitInv, PTL DEF ReceivedSpec

(* The list of ranges only ever holds SNs from 1 up (insert()). *)
THEOREM TypeCorrect == ReceivedSpec => []ReceivedTypeOK
<1>1. Inv => ReceivedTypeOK
      BY DEF Inv
<1> QED  BY <1>1, SpecInv, PTL

(* insert() keeps the list sorted, disjoint and never adjacent, whatever    *)
(* the order of arrival.                                                    *)
THEOREM StaysCoalesced == ReceivedSpec => []Coalesced
<1>1. Inv => Coalesced
      BY DEF Inv
<1> QED  BY <1>1, SpecInv, PTL

(* The list stands for exactly the SNs inserted, and contains() tells them. *)
THEOREM StaysExact == ReceivedSpec => []ContentExact
<1>1. Inv => ContentExact
  <2> SUFFICES ASSUME Inv PROVE ContentExact
      OBVIOUS
  <2>1. ranges \in Ranges /\ Sorted(ranges) /\ Content(ranges) = inserted
        BY InvInContext
  <2>2. \A sn \in -1..(MaxSN + 1) : Contains(ranges, sn) <=> sn \in inserted
        BY <2>1, MaxSNAssumption, ContainsContent
  <2> QED  BY <2>1, <2>2 DEF ContentExact
<1> QED  BY <1>1, SpecInv, PTL

-----------------------------------------------------------------------------
(* countBetween() adds up what each range has in the interval. *)

(* The SNs of lo..hi that the first i ranges stand for. *)
Within(rs, i, lo, hi) == {n \in lo..hi : \E j \in 1..i : rs[j].lo <= n /\ n <= rs[j].hi}

(* One more range adds its overlap with the interval, for the ranges are     *)
(* disjoint.                                                                 *)
LEMMA WithinGrows ==
    ASSUME NEW rs \in Ranges, Sorted(rs), NEW lo \in Int, NEW hi \in Int, NEW i \in 1..Len(rs)
    PROVE  Cardinality(Within(rs, i, lo, hi)) = Cardinality(Within(rs, i - 1, lo, hi)) + Overlap(rs[i], lo, hi)
<1>1. /\ Len(rs) \in Nat
      /\ \A k \in 1..Len(rs) : rs[k].lo \in Int /\ rs[k].hi \in Int
      BY RangesElements
<1> DEFINE X == Within(rs, i - 1, lo, hi)
<1>2. PICK a \in Int : a = IF rs[i].lo > lo THEN rs[i].lo ELSE lo
      BY <1>1
<1>3. PICK b \in Int : b = IF rs[i].hi < hi THEN rs[i].hi ELSE hi
      BY <1>1
<1>4. \A n \in Int : n \in a..b <=> n \in lo..hi /\ rs[i].lo <= n /\ n <= rs[i].hi
      BY <1>1, <1>2, <1>3
<1>5. Within(rs, i, lo, hi) = X \union (a..b)
  <2>1. \A j : j \in 1..i <=> j \in 1..(i - 1) \/ j = i
        BY <1>1
  <2>2. \A n : n \in Within(rs, i, lo, hi) <=> n \in X \/ n \in a..b
        BY <1>4, <2>1 DEF Within
  <2> QED  BY <2>2
<1>6. X \cap (a..b) = {}
  <2> SUFFICES ASSUME NEW n \in X, n \in a..b PROVE FALSE
      OBVIOUS
  <2>1. n \in Int /\ rs[i].lo <= n
        BY <1>4
  <2>2. PICK j \in 1..(i - 1) : n <= rs[j].hi
        BY DEF Within
  <2>3. j \in 1..Len(rs) /\ j < i
        BY <1>1
  <2>4. rs[j].hi + 1 < rs[i].lo
        BY <2>3 DEF Sorted
  <2> QED  BY <1>1, <2>1, <2>2, <2>3, <2>4
<1>7. IsFiniteSet(X) /\ IsFiniteSet(a..b) /\ Cardinality(X) \in Nat
  <2>1. X \subseteq lo..hi
        BY DEF Within
  <2>2. IsFiniteSet(lo..hi) /\ IsFiniteSet(a..b)
        BY FS_Interval
  <2> QED  BY <2>1, <2>2, FS_Subset, FS_CardinalityType
<1>8. Cardinality(a..b) = Overlap(rs[i], lo, hi) /\ Cardinality(a..b) \in Nat
  <2>1. Cardinality(a..b) = IF a > b THEN 0 ELSE b - a + 1
        BY FS_Interval
  <2>2. Overlap(rs[i], lo, hi) = IF a <= b THEN b - a + 1 ELSE 0
        BY <1>2, <1>3 DEF Overlap
  <2> QED  BY <1>7, <2>1, <2>2, FS_CardinalityType
<1>9. Cardinality(X \union (a..b)) = Cardinality(X) + Cardinality(a..b) - Cardinality(X \cap (a..b))
  <2> HIDE DEF X
  <2> QED  BY <1>7, FS_Union
<1>10. Cardinality(X \cap (a..b)) = 0
      BY <1>6, FS_EmptySet
<1> HIDE DEF X
<1>11. Cardinality(X \union (a..b)) = Cardinality(X) + Cardinality(a..b)
      BY <1>7, <1>8, <1>9, <1>10
<1> QED  BY <1>5, <1>8, <1>11 DEF X

(* The sums countBetween() makes exist and are those cardinalities: the      *)
(* least index at which they differ would contradict WithinGrows.            *)
LEMMA CountBetweenExact ==
    ASSUME NEW rs \in Ranges, Sorted(rs), NEW lo \in Int, NEW hi \in Int
    PROVE  CountBetween(rs, lo, hi) = Cardinality(Within(rs, Len(rs), lo, hi))
<1> DEFINE Sums(f) == f = [i \in 0..Len(rs) |-> IF i = 0 THEN 0 ELSE f[i - 1] + Overlap(rs[i], lo, hi)]
           s == CHOOSE f : Sums(f)
           c(i) == Cardinality(Within(rs, i, lo, hi))
           g == [i \in 0..Len(rs) |-> c(i)]
<1>1. CountBetween(rs, lo, hi) = s[Len(rs)]
      BY DEF CountBetween
<1>2. Len(rs) \in Nat
      BY RangesElements
<1>3. c(0) = 0
  <2>1. Within(rs, 0, lo, hi) = {}
        BY DEF Within
  <2> QED  BY <2>1, FS_EmptySet
<1>4. \A i \in 1..Len(rs) : c(i) = c(i - 1) + Overlap(rs[i], lo, hi)
      BY WithinGrows
<1> HIDE DEF c
<1>5. \E f : Sums(f)
  <2>1. ASSUME NEW i \in 0..Len(rs) PROVE c(i) = IF i = 0 THEN 0 ELSE g[i - 1] + Overlap(rs[i], lo, hi)
    <3>1. CASE i = 0
          BY <1>3, <3>1
    <3>2. CASE i # 0
      <4>1. i \in 1..Len(rs) /\ i - 1 \in 0..Len(rs)
            BY <1>2, <3>2
      <4>2. g[i - 1] = c(i - 1)
            BY <4>1
      <4>3. c(i) = c(i - 1) + Overlap(rs[i], lo, hi)
            BY <1>4, <4>1
      <4> QED  BY <3>2, <4>2, <4>3
    <3> QED  BY <3>1, <3>2
  <2>2. g = [i \in 0..Len(rs) |-> IF i = 0 THEN 0 ELSE g[i - 1] + Overlap(rs[i], lo, hi)]
        BY <2>1
  <2>3. Sums(g)
        BY <2>2
  <2> QED  BY <2>3
<1>6. Sums(s)
      BY <1>5
<1> HIDE DEF s, g
<1>7. s[0] = 0 /\ \A i \in 1..Len(rs) : s[i] = s[i - 1] + Overlap(rs[i], lo, hi)
  <2>1. \A i \in 0..Len(rs) : s[i] = IF i = 0 THEN 0 ELSE s[i - 1] + Overlap(rs[i], lo, hi)
        BY <1>6
  <2>2. 0 \in 0..Len(rs) /\ \A i \in 1..Len(rs) : i \in 0..Len(rs) /\ i # 0
        BY <1>2
  <2> QED  BY <2>1, <2>2
<1> HIDE DEF Sums
<1> DEFINE T == {i \in 0..Len(rs) : s[i] # c(i)}
<1>8. T = {}
  <2> SUFFICES ASSUME T # {} PROVE FALSE
      OBVIOUS
  <2>1. T \subseteq Nat
        BY <1>2
  <2>2. PICK i \in T : \A y \in T : i <= y
        BY <2>1, LeastNatural
  <2>3. i \in 0..Len(rs) /\ i # 0
        BY <1>3, <1>7, <2>2
  <2>4. i \in 1..Len(rs) /\ i - 1 \in 0..Len(rs) /\ ~(i <= i - 1)
        BY <1>2, <2>3
  <2>5. s[i - 1] = c(i - 1)
        BY <2>2, <2>4
  <2>6. s[i] = c(i)
        BY <1>4, <1>7, <2>4, <2>5
  <2> QED  BY <2>2, <2>6
<1>9. Len(rs) \in 0..Len(rs)
      BY <1>2
<1>10. s[Len(rs)] = c(Len(rs))
      BY <1>8, <1>9
<1> QED  BY <1>1, <1>10 DEF c

(* cumulativeAck(), max() and countBetween() (received_set.zig) return the   *)
(* end of the unbroken prefix, the greatest and the number of the SNs        *)
(* inserted, though the first two read one range only and the third adds up *)
(* overlaps.                                                                 *)
THEOREM QueriesStayExact == ReceivedSpec => []QueriesExact
<1>1. Inv => QueriesExact
  <2> SUFFICES ASSUME Inv PROVE QueriesExact
      OBVIOUS
  <2>1. /\ ranges \in Ranges /\ Sorted(ranges) /\ inserted \in SUBSET (1..MaxSN) /\ Content(ranges) = inserted
        BY InvInContext
  <2>2. /\ Len(ranges) \in Nat /\ MaxSN \in Nat
        /\ \A k \in 1..Len(ranges) : /\ ranges[k].lo \in 1..MaxSN /\ ranges[k].hi \in 1..MaxSN
                                     /\ ranges[k].lo \in Int /\ ranges[k].hi \in Int
        BY <2>1, RangesElements, MaxSNAssumption
  <2>3. \A n \in Int : n \in inserted <=> \E j \in 1..Len(ranges) : ranges[j].lo <= n /\ n <= ranges[j].hi
    <3>1. \A n \in Int : (\E j \in 1..Len(ranges) : ranges[j].lo <= n /\ n <= ranges[j].hi) => n \in 1..MaxSN
          BY <2>2
    <3>2. \A n : n \in inserted <=> n \in 1..MaxSN /\ \E j \in 1..Len(ranges) : ranges[j].lo <= n /\ n <= ranges[j].hi
          BY <2>1 DEF Content
    <3> QED  BY <3>1, <3>2
  <2>4. /\ \A i \in 1..Len(ranges) : ranges[i].lo <= ranges[i].hi
        /\ \A i, j \in 1..Len(ranges) : i < j => ranges[i].hi + 1 < ranges[j].lo
        BY <2>1 DEF Sorted
  <2>5. /\ 1..CumulativeAck(ranges) \subseteq inserted
        /\ CumulativeAck(ranges) + 1 \notin inserted
    <3>1. CASE Len(ranges) = 0 \/ ranges[1].lo > 1
      <4>1. CumulativeAck(ranges) = 0
        <5>1. Len(ranges) = 0 => ranges = <<>>
              BY <2>1 DEF Ranges
        <5> QED  BY <3>1, <5>1 DEF CumulativeAck
      <4>2. \A j \in 1..Len(ranges) : ~(ranges[j].lo <= 1)
        <5> SUFFICES ASSUME NEW j \in 1..Len(ranges), ranges[j].lo <= 1 PROVE FALSE
            OBVIOUS
        <5>1. 1 \in 1..Len(ranges) /\ ranges[1].lo > 1 /\ ranges[1].hi >= 1
              BY <2>2, <3>1
        <5>2. j = 1 \/ ranges[1].hi + 1 < ranges[j].lo
              BY <2>2, <2>4, <5>1
        <5> QED  BY <2>2, <5>1, <5>2
      <4>3. 1 \notin inserted
            BY <2>3, <4>2
      <4> QED  BY <4>1, <4>3
    <3>2. CASE Len(ranges) # 0 /\ ~(ranges[1].lo > 1)
      <4>1. 1 \in 1..Len(ranges) /\ ranges # <<>>
            BY <2>2, <3>2
      <4>2. CumulativeAck(ranges) = ranges[1].hi /\ ranges[1].lo = 1 /\ ranges[1].hi \in Int
            BY <2>2, <3>2, <4>1 DEF CumulativeAck
      <4>3. \A n \in 1..ranges[1].hi : n \in inserted
            BY <2>3, <4>1, <4>2
      <4>4. ASSUME NEW j \in 1..Len(ranges), ranges[j].lo <= ranges[1].hi + 1, ranges[1].hi + 1 <= ranges[j].hi
            PROVE  FALSE
        <5>1. j = 1 \/ ranges[1].hi + 1 < ranges[j].lo
              BY <2>2, <2>4, <4>1
        <5> QED  BY <2>2, <4>1, <4>4, <5>1
      <4>5. ranges[1].hi + 1 \notin inserted
            BY <2>3, <4>2, <4>4
      <4> QED  BY <4>2, <4>3, <4>5
    <3> QED  BY <3>1, <3>2
  <2>6. /\ inserted = {} => MaxReceived(ranges) = 0
        /\ inserted # {} => MaxReceived(ranges) \in inserted /\ \A n \in inserted : n <= MaxReceived(ranges)
    <3>1. CASE Len(ranges) = 0
      <4>1. ranges = <<>>
            BY <2>1, <3>1 DEF Ranges
      <4>2. inserted = {} /\ MaxReceived(ranges) = 0
            BY <2>1, <2>2, <2>3, <3>1, <4>1 DEF MaxReceived
      <4> QED  BY <4>2
    <3>2. CASE Len(ranges) # 0
      <4>1. PICK m \in 1..Len(ranges) : m = Len(ranges)
            BY <2>2, <3>2
      <4>2. MaxReceived(ranges) = ranges[m].hi
            BY <3>2, <4>1 DEF MaxReceived
      <4>3. ranges[m].hi \in inserted
            BY <2>2, <2>3, <2>4
      <4>4. ASSUME NEW n \in inserted PROVE n <= ranges[m].hi
        <5>1. n \in Int
              BY <2>1, <2>2
        <5>2. PICK j \in 1..Len(ranges) : n <= ranges[j].hi
              BY <2>3, <5>1
        <5>3. j = m \/ ranges[j].hi + 1 < ranges[m].lo
              BY <2>2, <2>4, <4>1
        <5>4. ranges[m].lo <= ranges[m].hi
              BY <2>4
        <5> QED  BY <2>2, <5>1, <5>2, <5>3, <5>4
      <4> QED  BY <4>2, <4>3, <4>4
    <3> QED  BY <3>1, <3>2
  <2>7. ASSUME NEW lo \in 0..(MaxSN + 1), NEW hi \in 0..(MaxSN + 1)
        PROVE  CountBetween(ranges, lo, hi) = Cardinality(inserted \cap (lo..hi))
    <3>1. lo \in Int /\ hi \in Int
          BY <2>2
    <3>2. Within(ranges, Len(ranges), lo, hi) = inserted \cap (lo..hi)
          BY <2>3, <3>1 DEF Within
    <3> QED  BY <2>1, <3>1, <3>2, CountBetweenExact
  <2> QED  BY <2>5, <2>6, <2>7 DEF QueriesExact
<1> QED  BY <1>1, SpecInv, PTL

=============================================================================
