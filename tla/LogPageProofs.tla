---------------------------- MODULE LogPageProofs ----------------------------
(***************************************************************************)
(* Proofs about the request log page of both builds, for any projects,     *)
(* logs, filters and events.  The first part shows what the operators on   *)
(* lists do: sorting by id, the binary search, inserting, removing and     *)
(* appending a page.  The inductive invariant then says, for every log,    *)
(* what the events about it that are still on their way will make of the   *)
(* list.                                                                   *)
(***************************************************************************)
EXTENDS DesktopLogPage, FiniteSetTheorems, SequenceTheorems, WellFoundedInduction, TLAPS

-----------------------------------------------------------------------------
(* Sorting by id.                                                           *)

LEMMA NaturalInduction ==
  ASSUME NEW T, 0 \in T, \A n \in Nat : n \in T => n + 1 \in T
  PROVE  Nat \subseteq T
<1> SUFFICES ASSUME Nat \ T # {} PROVE FALSE
  OBVIOUS
<1>1. Nat \ T \subseteq Nat
  OBVIOUS
<1>2. PICK m \in Nat \ T : \A n \in Nat \ T : <<n, m>> \notin OpToRel(<, Nat)
  BY <1>1, NatLessThanWellFounded, WFMin
<1>3. \A n \in Nat \ T : ~(n < m)
  BY <1>2 DEF OpToRel
<1>4. m \in Nat /\ m \notin T /\ m # 0
  BY <1>2
<1>5. m - 1 \in Nat /\ m - 1 < m /\ (m - 1) + 1 = m
  BY <1>4
<1>6. m - 1 \in T
  BY <1>3, <1>5
<1> QED BY <1>4, <1>5, <1>6

Descending(list) ==
    \A i, j \in DOMAIN list : i < j => list[i].id > list[j].id

\* The rows of S have different ids.
Distinct(S) ==
    /\ \A row \in S : row.id \in Nat
    /\ \A a, b \in S : a.id = b.id => a = b

Sorts(list, S) ==
    /\ list \in [1 .. Cardinality(S) -> S]
    /\ \A row \in S : \E i \in DOMAIN list : list[i] = row
    /\ Descending(list)

LEMMA LowestRow ==
  ASSUME NEW S, S # {}, Distinct(S)
  PROVE  \E low \in S : \A row \in S : row # low => low.id < row.id
<1> DEFINE ids == {row.id : row \in S}
<1>1. ids \subseteq Nat /\ ids # {}
  BY DEF Distinct
<1>2. PICK m \in ids : \A n \in ids : <<n, m>> \notin OpToRel(<, Nat)
  <2> HIDE DEF ids
  <2> QED BY <1>1, NatLessThanWellFounded, WFMin
<1>3. PICK low \in S : m = low.id
  OBVIOUS
<1>4. ASSUME NEW row \in S, row # low PROVE low.id < row.id
  <2>1. row.id \in ids /\ low.id \in ids /\ row.id \in Nat /\ low.id \in Nat
    BY <1>1
  <2>2. ~(row.id < low.id)
    BY <1>2, <1>3, <2>1 DEF OpToRel
  <2>3. row.id # low.id
    BY <1>4 DEF Distinct
  <2> QED BY <2>1, <2>2, <2>3
<1> QED BY <1>4

LEMMA SortedExists ==
  ASSUME NEW U, IsFiniteSet(U), Distinct(U)
  PROVE  \E list : Sorts(list, U)
<1> DEFINE T == {n \in Nat : \A S \in SUBSET U :
                               Cardinality(S) = n => \E list : Sorts(list, S)}
<1>1. 0 \in T
  <2> SUFFICES ASSUME NEW S \in SUBSET U, Cardinality(S) = 0 PROVE \E list : Sorts(list, S)
    OBVIOUS
  <2>1. S = {}
    BY FS_Subset, FS_EmptySet
  <2> DEFINE list == [i \in 1 .. 0 |-> 0]
  <2>2. list \in [1 .. 0 -> S] /\ DOMAIN list = {}
    OBVIOUS
  <2>3. Sorts(list, S)
    BY <2>1, <2>2, FS_EmptySet DEF Sorts, Descending
  <2> QED BY <2>3
<1>2. ASSUME NEW n \in Nat, n \in T PROVE n + 1 \in T
  <2> SUFFICES ASSUME NEW S \in SUBSET U, Cardinality(S) = n + 1
               PROVE  \E list : Sorts(list, S)
    OBVIOUS
  <2>1. IsFiniteSet(S) /\ S # {}
    BY FS_Subset, FS_EmptySet
  <2>2. Distinct(S)
    BY DEF Distinct
  <2>3. PICK low \in S : \A row \in S : row # low => low.id < row.id
    BY <2>1, <2>2, LowestRow
  <2>4. Cardinality(S \ {low}) = n
    <3>1. Cardinality(S \ {low}) = Cardinality(S) - 1
      BY <2>1, FS_RemoveElement
    <3> QED BY <3>1
  <2>5. PICK g : Sorts(g, S \ {low})
    BY <1>2, <2>4
  <2>6. /\ g \in [1 .. n -> S \ {low}]
        /\ \A row \in S \ {low} : \E i \in 1 .. n : g[i] = row
        /\ \A i, j \in 1 .. n : i < j => g[i].id > g[j].id
    BY <2>4, <2>5 DEF Sorts, Descending
  <2> DEFINE list == [i \in 1 .. n + 1 |-> IF i = n + 1 THEN low ELSE g[i]]
  <2>7. /\ DOMAIN list = 1 .. n + 1 /\ list[n + 1] = low
        /\ \A i \in 1 .. n : list[i] = g[i] /\ list[i] \in S \ {low}
    BY <2>6
  <2>8. list \in [1 .. n + 1 -> S]
    BY <2>6
  <2>9. \A row \in S : \E i \in DOMAIN list : list[i] = row
    <3> HIDE DEF list
    <3>1. ASSUME NEW row \in S, row # low PROVE \E i \in 1 .. n + 1 : list[i] = row
      <4>1. PICK i \in 1 .. n : g[i] = row
        BY <2>6, <3>1
      <4> QED BY <2>7, <4>1
    <3> QED BY <2>7, <3>1
  <2>10. ASSUME NEW i \in 1 .. n + 1, NEW j \in 1 .. n + 1, i < j
         PROVE  list[i].id > list[j].id
    <3> HIDE DEF list
    <3>1. i \in 1 .. n
      BY <2>10
    <3>2. CASE j = n + 1
      <4>1. list[i] \in S /\ list[i] # low
        BY <2>7, <3>1
      <4>2. low.id < list[i].id
        BY <2>3, <4>1
      <4>3. low.id \in Nat /\ list[i].id \in Nat
        BY <2>2, <4>1 DEF Distinct
      <4> QED BY <2>7, <3>2, <4>2, <4>3
    <3>3. CASE j \in 1 .. n
      BY <2>6, <2>7, <2>10, <3>1, <3>3
    <3> QED BY <3>2, <3>3
  <2>11. Sorts(list, S)
    <3> HIDE DEF list
    <3> QED BY <2>7, <2>8, <2>9, <2>10 DEF Sorts, Descending
  <2> QED BY <2>11
<1> HIDE DEF T
<1>3. Cardinality(U) \in Nat
  BY FS_CardinalityType
<1>4. Cardinality(U) \in T
  BY <1>1, <1>2, <1>3, NaturalInduction
<1> QED BY <1>4 DEF T

\* Newest lists a finite set of logs once each, by descending id.
LEMMA NewestSorts ==
  ASSUME NEW S, IsFiniteSet(S), Distinct(S)
  PROVE  /\ Newest(S) \in Seq(S) /\ Len(Newest(S)) = Cardinality(S)
         /\ DOMAIN Newest(S) = 1 .. Cardinality(S) /\ Cardinality(S) \in Nat
         /\ \A row \in S : \E i \in DOMAIN Newest(S) : Newest(S)[i] = row
         /\ Descending(Newest(S))
<1>1. Cardinality(S) \in Nat
  BY FS_CardinalityType
<1>2. PICK list : Sorts(list, S)
  BY SortedExists
<1>3. Sorts(Newest(S), S)
  BY <1>2 DEF Sorts, Newest, Descending
<1> QED BY <1>1, <1>3 DEF Sorts

\* A descending list of rows of S, the rest of S below it, starts Newest(S).
LEMMA PrefixOfNewest ==
  ASSUME NEW S, IsFiniteSet(S), Distinct(S), NEW list \in Seq(S), Descending(list),
         \A row \in S : \/ \E i \in DOMAIN list : list[i] = row
                        \/ \A i \in DOMAIN list : row.id < list[i].id
  PROVE  /\ list = SubSeq(Newest(S), 1, Len(list))
         /\ (\A row \in S : \E i \in DOMAIN list : list[i] = row) => list = Newest(S)
<1> DEFINE all == Newest(S)
<1>1. /\ all \in Seq(S) /\ DOMAIN all = 1 .. Len(all) /\ Len(all) \in Nat
      /\ \A row \in S : \E i \in DOMAIN all : all[i] = row
      /\ Descending(all)
  BY NewestSorts
<1>2. DOMAIN list = 1 .. Len(list) /\ Len(list) \in Nat
  BY LenProperties
<1>3. /\ \A i \in 1 .. Len(all) : all[i] \in S /\ all[i].id \in Nat
      /\ \A i \in 1 .. Len(list) : list[i] \in S /\ list[i].id \in Nat
  <2>1. \A i \in 1 .. Len(all) : all[i] \in S
    BY <1>1
  <2>2. \A i \in 1 .. Len(list) : list[i] \in S
    BY <1>2
  <2> QED BY <2>1, <2>2 DEF Distinct
<1>4. /\ \A i, j \in 1 .. Len(all) : i < j => all[i].id > all[j].id
      /\ \A i, j \in 1 .. Len(list) : i < j => list[i].id > list[j].id
  BY <1>1, <1>2 DEF Descending
<1> HIDE DEF all
<1> DEFINE Agree(n) == n <= Len(all) /\ \A i \in 1 .. n : list[i] = all[i]
           T == {n \in Nat : n <= Len(list) => Agree(n)}
<1>5. 0 \in T
  BY <1>1
<1>6. ASSUME NEW n \in Nat, n \in T PROVE n + 1 \in T
  <2> SUFFICES ASSUME n + 1 <= Len(list) PROVE Agree(n + 1)
    OBVIOUS
  <2>1. Agree(n) /\ n + 1 \in 1 .. Len(list)
    BY <1>2, <1>6
  <2>2. PICK k \in 1 .. Len(all) : all[k] = list[n + 1]
    BY <1>1, <1>3, <2>1
  <2>3. k > n
    <3> SUFFICES ASSUME k <= n PROVE FALSE
      BY <1>1
    <3>1. list[k] = all[k] /\ k \in 1 .. Len(list) /\ k < n + 1
      BY <1>2, <2>1
    <3>2. list[k].id > list[n + 1].id
      BY <1>4, <2>1, <3>1
    <3> QED BY <1>3, <2>1, <2>2, <3>1, <3>2
  <2>4. k = n + 1
    <3> SUFFICES ASSUME k > n + 1 PROVE FALSE
      BY <1>1, <2>3
    <3>1. n + 1 \in 1 .. Len(all)
      BY <1>1
    <3>2. all[n + 1].id > list[n + 1].id
      BY <1>4, <2>2, <3>1
    <3>3. PICK j \in 1 .. Len(list) : list[j] = all[n + 1]
      <4>1. ~(all[n + 1].id < list[n + 1].id)
        BY <1>3, <2>1, <3>1, <3>2
      <4> QED BY <1>2, <1>3, <2>1, <3>1, <4>1
    <3>4. j < n + 1
      <4> SUFFICES ASSUME j >= n + 1 PROVE FALSE
        BY <1>2
      <4>1. j # n + 1
        BY <1>3, <3>1, <3>2, <3>3, <2>1
      <4>2. list[n + 1].id > list[j].id
        BY <1>2, <1>4, <2>1, <4>1
      <4> QED BY <1>3, <2>1, <3>2, <3>3, <4>2
    <3>5. list[j] = all[j] /\ j \in 1 .. Len(all)
      BY <1>1, <2>1, <3>4
    <3>6. all[j].id > all[n + 1].id
      BY <1>4, <3>1, <3>4, <3>5
    <3> QED BY <1>3, <3>1, <3>3, <3>5, <3>6
  <2> QED
    <3>1. \A i \in 1 .. n + 1 : i \in 1 .. n \/ i = n + 1
      OBVIOUS
    <3> QED BY <2>1, <2>2, <2>4, <3>1
<1> HIDE DEF T
<1>7. Len(list) \in T
  BY <1>2, <1>5, <1>6, NaturalInduction
<1>8. Agree(Len(list))
  BY <1>2, <1>7 DEF T
<1>9. list = SubSeq(all, 1, Len(list))
  <2>1. SubSeq(all, 1, Len(list)) \in Seq(S) /\ Len(SubSeq(all, 1, Len(list))) = Len(list)
    BY <1>1, <1>2, <1>8
  <2>2. \A i \in 1 .. Len(list) : SubSeq(all, 1, Len(list))[i] = all[i]
    BY <1>1, <1>2, <1>8
  <2>3. \A i \in 1 .. Len(list) : list[i] = SubSeq(all, 1, Len(list))[i]
    BY <1>8, <2>2
  <2> QED BY <2>1, <2>3, SeqEqual
<1>10. ASSUME \A row \in S : \E i \in DOMAIN list : list[i] = row PROVE list = all
  <2>1. Len(all) = Len(list)
    <3>1. Len(list) <= Len(all)
      BY <1>8
    <3>2. ASSUME Len(list) + 1 <= Len(all) PROVE FALSE
      <4>1. Len(list) + 1 \in 1 .. Len(all)
        BY <1>1, <1>2, <3>2
      <4>2. PICK j \in 1 .. Len(list) : list[j] = all[Len(list) + 1]
        BY <1>2, <1>3, <1>10, <4>1
      <4>3. list[j] = all[j] /\ j \in 1 .. Len(all) /\ j < Len(list) + 1
        BY <1>1, <1>2, <1>8
      <4>4. all[j].id > all[Len(list) + 1].id
        BY <1>4, <4>1, <4>3
      <4> QED BY <1>3, <4>1, <4>2, <4>3, <4>4
    <3>3. Len(list) \in Nat /\ Len(all) \in Nat
      BY <1>1, <1>2
    <3> QED BY <3>1, <3>2, <3>3
  <2> QED BY <1>1, <1>8, <2>1, SeqEqual
<1> QED BY <1>9, <1>10 DEF all

LEMMA Start1 ==
  ASSUME NEW S, NEW s \in Seq(S), NEW k \in Nat, k <= Len(s)
  PROVE  /\ SubSeq(s, 1, k) \in Seq(S) /\ Len(SubSeq(s, 1, k)) = k
         /\ DOMAIN SubSeq(s, 1, k) = 1 .. k
         /\ \A i \in 1 .. k : SubSeq(s, 1, k)[i] = s[i] /\ i \in DOMAIN s
<1>1. SubSeq(s, 1, k) \in Seq(S) /\ Len(SubSeq(s, 1, k)) = k
  OBVIOUS
<1>2. \A i \in 1 .. k : SubSeq(s, 1, k)[i] = s[i]
  OBVIOUS
<1>3. \A i \in 1 .. k : i \in DOMAIN s
  OBVIOUS
<1> QED BY <1>1, <1>2, <1>3

\* The first n rows of a sorted set: the rest is below them.
LEMMA FirstRows ==
  ASSUME NEW S, IsFiniteSet(S), Distinct(S), NEW n \in Nat
  PROVE  LET all == Newest(S)
             page == SubSeq(all, 1, IF Len(all) < n THEN Len(all) ELSE n)
         IN  /\ page \in Seq(S) /\ Descending(page)
             /\ \A row \in S : \/ \E i \in DOMAIN page : page[i] = row
                               \/ /\ Len(page) = n
                                  /\ \A i \in DOMAIN page : row.id < page[i].id
<1> DEFINE all == Newest(S)
           k == IF Len(all) < n THEN Len(all) ELSE n
           page == SubSeq(all, 1, k)
<1>1. /\ all \in Seq(S) /\ DOMAIN all = 1 .. Len(all) /\ Len(all) \in Nat
      /\ \A row \in S : \E i \in DOMAIN all : all[i] = row
      /\ Descending(all)
  BY NewestSorts
<1> HIDE DEF all
<1>2. k \in Nat /\ k <= Len(all) /\ k <= n /\ (k = n \/ k = Len(all))
  BY <1>1
<1> HIDE DEF k
<1>3. /\ page \in Seq(S) /\ Len(page) = k /\ DOMAIN page = 1 .. k
      /\ \A i \in 1 .. k : page[i] = all[i] /\ i \in DOMAIN all
  BY <1>1, <1>2, Start1
<1> HIDE DEF page
<1>4. \A i, j \in 1 .. Len(all) : i < j => all[i].id > all[j].id
  BY <1>1 DEF Descending
<1>5. \A i \in 1 .. k : i \in 1 .. Len(all)
  BY <1>1, <1>3
<1>6. Descending(page)
  BY <1>3, <1>4, <1>5 DEF Descending
<1>7. ASSUME NEW row \in S, \A i \in DOMAIN page : page[i] # row
      PROVE  Len(page) = n /\ \A i \in DOMAIN page : row.id < page[i].id
  <2>1. PICK m \in 1 .. Len(all) : all[m] = row
    BY <1>1
  <2>2. m > k
    BY <1>2, <1>3, <1>7, <2>1
  <2>3. k = n
    <3>1. PICK l \in Nat : l = Len(all)
      BY <1>1
    <3>2. (k = n \/ k = l) /\ m <= l
      BY <1>2, <3>1
    <3> QED BY <1>2, <2>2, <3>1, <3>2
  <2>4. ASSUME NEW i \in 1 .. k PROVE row.id < page[i].id
    <3>1. all[i].id > all[m].id
      BY <1>2, <1>4, <1>5, <2>2
    <3>2. all[i] \in S
      BY <1>1, <1>5
    <3>3. all[i].id \in Nat /\ row.id \in Nat
      BY <3>2 DEF Distinct
    <3> QED BY <1>3, <2>1, <3>1, <3>3
  <2> QED BY <1>3, <2>3, <2>4
<1> QED BY <1>3, <1>6, <1>7 DEF page, k, all

-----------------------------------------------------------------------------
(* The binary search.                                                       *)

Middle(lo, hi) == (lo + hi) \div 2

LEMMA MiddleBetween ==
  ASSUME NEW lo \in Nat, NEW hi \in Nat
  PROVE  /\ Middle(lo, hi) \in Nat
         /\ lo < hi => lo <= Middle(lo, hi) /\ Middle(lo, hi) < hi
         /\ lo = hi => Middle(lo, hi) = lo
         /\ lo <= hi + 1 => Middle(lo, hi) <= hi
  BY DEF Middle

Lows(list) == 1 .. Len(list) + 1
Highs(list) == 0 .. Len(list)

\* What find of a range is, from find of the narrower ones.
Probe(find, list, id, lo, hi) ==
    IF Middle(lo, hi) = 0 THEN Throws
    ELSE IF list[Middle(lo, hi)].id = id THEN Middle(lo, hi)
    ELSE IF lo >= hi THEN -1
    ELSE IF id > list[Middle(lo, hi)].id THEN find[<<lo, Middle(lo, hi) - 1>>]
    ELSE find[<<Middle(lo, hi) + 1, hi>>]

Finds(find, list, id) ==
    find = [range \in Lows(list) \X Highs(list) |->
              Probe(find, list, id, range[1], range[2])]

\* f and g agree on the ranges with less than n between their ends.
Agree(f, g, list, n) ==
    \A lo \in Lows(list), hi \in Highs(list) : hi - lo < n => f[<<lo, hi>>] = g[<<lo, hi>>]

LEMMA ProbeNarrows ==
  ASSUME NEW list, Len(list) \in Nat, NEW id, NEW f, NEW g, NEW n \in Int,
         Agree(f, g, list, n),
         NEW lo \in Lows(list), NEW hi \in Highs(list), hi - lo <= n
  PROVE  Probe(f, list, id, lo, hi) = Probe(g, list, id, lo, hi)
<1> DEFINE m == Middle(lo, hi)
<1>1. m \in Nat /\ lo \in Nat /\ hi \in Nat
  BY MiddleBetween DEF Lows, Highs
<1>2. CASE m = 0 \/ list[m].id = id \/ lo >= hi
  BY <1>2 DEF Probe
<1>3. CASE m # 0 /\ list[m].id # id /\ lo < hi
  <2>1. lo <= m /\ m < hi
    BY <1>1, <1>3, MiddleBetween
  <2> HIDE DEF m
  <2>2. /\ m - 1 \in Highs(list) /\ (m - 1) - lo < n
        /\ m + 1 \in Lows(list) /\ hi - (m + 1) < n
    BY <1>1, <1>3, <2>1 DEF Lows, Highs
  <2>3. f[<<lo, m - 1>>] = g[<<lo, m - 1>>] /\ f[<<m + 1, hi>>] = g[<<m + 1, hi>>]
    BY <2>2 DEF Agree
  <2> QED BY <2>3 DEF Probe, m
<1>4. lo >= hi \/ lo < hi
  BY <1>1
<1> QED BY <1>2, <1>3, <1>4

LEMMA FindExists ==
  ASSUME NEW list, Len(list) \in Nat, NEW id
  PROVE  \E find : Finds(find, list, id)
<1> DEFINE L == Lows(list)
           H == Highs(list)
           Right(f, n) == \A l \in L, h \in H :
                            h - l < n => f[<<l, h>>] = Probe(f, list, id, l, h)
           T == {n \in Nat : \E f : Right(f, n - Len(list) - 1)}
<1>1. 0 \in T
  <2>1. \A l \in L, h \in H : ~(h - l < 0 - Len(list) - 1)
    BY DEF Lows, Highs
  <2>2. Right(<< >>, 0 - Len(list) - 1)
    BY <2>1
  <2> QED BY <2>2
<1>2. ASSUME NEW n \in Nat, n \in T PROVE n + 1 \in T
  <2> DEFINE w == n - Len(list) - 1
  <2>1. PICK f : Right(f, w)
    BY <1>2
  <2> DEFINE g == [range \in L \X H |->
                     IF range[2] - range[1] < w THEN f[range]
                     ELSE Probe(f, list, id, range[1], range[2])]
  <2>2. w \in Int
    OBVIOUS
  <2> HIDE DEF w
  <2>3. ASSUME NEW l \in L, NEW h \in H
        PROVE  g[<<l, h>>] = IF h - l < w THEN f[<<l, h>>] ELSE Probe(f, list, id, l, h)
    OBVIOUS
  <2> HIDE DEF g
  <2>4. ASSUME NEW l \in L, NEW h \in H, h - l < w + 1
        PROVE  g[<<l, h>>] = Probe(g, list, id, l, h)
    <3>1. g[<<l, h>>] = Probe(f, list, id, l, h)
      BY <2>1, <2>3
    <3>2. Agree(f, g, list, w)
      BY <2>3 DEF Agree
    <3>3. h - l <= w
      BY <2>2, <2>4 DEF Lows, Highs
    <3>4. Probe(f, list, id, l, h) = Probe(g, list, id, l, h)
      BY <2>2, <3>2, <3>3, ProbeNarrows
    <3> QED BY <3>1, <3>4
  <2>5. Right(g, w + 1)
    BY <2>4
  <2>6. (n + 1) - Len(list) - 1 = w + 1
    BY DEF w
  <2> HIDE DEF Right
  <2>7. Right(g, (n + 1) - Len(list) - 1)
    BY <2>5, <2>6
  <2> QED BY <2>7
<1> HIDE DEF T
<1>3. 2 * Len(list) + 1 \in Nat
  OBVIOUS
<1>4. 2 * Len(list) + 1 \in T
  BY <1>1, <1>2, <1>3, NaturalInduction
<1>5. PICK f : Right(f, Len(list))
  <2>1. (2 * Len(list) + 1) - Len(list) - 1 = Len(list)
    OBVIOUS
  <2> QED BY <1>4, <2>1 DEF T
<1> DEFINE g == [range \in L \X H |-> Probe(f, list, id, range[1], range[2])]
<1>6. \A l \in L, h \in H : g[<<l, h>>] = f[<<l, h>>]
  <2>1. ASSUME NEW l \in L, NEW h \in H PROVE g[<<l, h>>] = f[<<l, h>>]
    <3>1. g[<<l, h>>] = Probe(f, list, id, l, h)
      OBVIOUS
    <3>2. h - l < Len(list)
      BY DEF Lows, Highs
    <3> HIDE DEF g
    <3> QED BY <1>5, <3>1, <3>2
  <2> QED BY <2>1
<1>7. ASSUME NEW range \in L \X H PROVE g[range] = Probe(g, list, id, range[1], range[2])
  <2>1. PICK l \in L, h \in H : range = <<l, h>>
    OBVIOUS
  <2>2. g[range] = Probe(f, list, id, l, h)
    BY <2>1
  <2> HIDE DEF g
  <2>3. Probe(f, list, id, l, h) = Probe(g, list, id, l, h)
    <3>1. Agree(f, g, list, h - l)
      BY <1>6 DEF Agree
    <3>2. h - l \in Int /\ h - l <= h - l
      BY DEF Lows, Highs
    <3> QED BY <3>1, <3>2, ProbeNarrows
  <2> QED BY <2>1, <2>2, <2>3
<1>8. g = [range \in L \X H |-> Probe(g, list, id, range[1], range[2])]
  BY <1>7
<1> HIDE DEF g
<1> QED BY <1>8 DEF Finds

Searches(find, list, id) ==
    /\ BinarySearch(list, id) = find[<<1, Len(list)>>]
    /\ \A lo \in Lows(list), hi \in Highs(list) :
         find[<<lo, hi>>] = Probe(find, list, id, lo, hi)

LEMMA SearchIs ==
  ASSUME NEW list, Len(list) \in Nat, list # << >>, NEW id
  PROVE  \E find : Searches(find, list, id)
<1> DEFINE find == CHOOSE f : Finds(f, list, id)
<1>1. Finds(find, list, id)
  BY FindExists
<1>2. BinarySearch(list, id) = find[<<1, Len(list)>>]
  BY DEF BinarySearch, Finds, Probe, Middle, Lows, Highs
<1> HIDE DEF find
<1>3. ASSUME NEW lo \in Lows(list), NEW hi \in Highs(list)
      PROVE  find[<<lo, hi>>] = Probe(find, list, id, lo, hi)
  BY <1>1 DEF Finds
<1> QED BY <1>2, <1>3 DEF Searches

\* The binary search of common.ts finds an id wherever it is on a descending list,
\* and nothing else.  It leaves the list, where reading it throws, only when it
\* looks for an id above all others.
THEOREM SearchFinds ==
  ASSUME NEW S, NEW list \in Seq(S), \A row \in S : row.id \in Int, NEW id \in Int,
         Descending(list)
  PROVE  /\ BinarySearch(list, id) \in DOMAIN list => list[BinarySearch(list, id)].id = id
         /\ \A k \in DOMAIN list : list[k].id = id => BinarySearch(list, id) = k
         /\ BinarySearch(list, id) = Throws => list # << >> /\ id > list[1].id
<1>1. Len(list) \in Nat /\ DOMAIN list = 1 .. Len(list)
  BY LenProperties
<1>2. CASE list = << >>
  BY <1>2 DEF BinarySearch, Throws
<1>3. CASE list # << >>
  <2>0. PICK find : Searches(find, list, id)
    BY <1>1, <1>3, SearchIs
  <2>1. /\ BinarySearch(list, id) = find[<<1, Len(list)>>]
        /\ \A lo \in Lows(list), hi \in Highs(list) :
             find[<<lo, hi>>] = Probe(find, list, id, lo, hi)
    BY <2>0 DEF Searches
  <2>2. \A k \in 1 .. Len(list) : list[k].id \in Int
    BY <1>1
  <2>3. \A i, j \in 1 .. Len(list) : i < j => list[i].id > list[j].id
    BY <1>1 DEF Descending
  <2> DEFINE Right(lo, hi) ==
               /\ find[<<lo, hi>>] \in 1 .. Len(list) => list[find[<<lo, hi>>]].id = id
               /\ \A k \in lo .. hi : list[k].id = id => find[<<lo, hi>>] = k
               /\ find[<<lo, hi>>] = Throws => hi = 0 \/ id > list[1].id
             T == {n \in Nat : \A lo \in Lows(list), hi \in Highs(list) :
                                 lo <= hi + 1 /\ (hi - lo) + 1 < n => Right(lo, hi)}
  <2>4. 0 \in T
    BY <1>1 DEF Lows, Highs
  <2>5. ASSUME NEW n \in Nat, n \in T PROVE n + 1 \in T
    <3> SUFFICES ASSUME NEW lo \in Lows(list), NEW hi \in Highs(list),
                        lo <= hi + 1, (hi - lo) + 1 < n + 1
                 PROVE  Right(lo, hi)
      OBVIOUS
    <3>1. \A l \in Lows(list), h \in Highs(list) :
             l <= h + 1 /\ (h - l) + 1 < n => Right(l, h)
      BY <2>5
    <3> HIDE DEF T
    <3> DEFINE m == Middle(lo, hi)
    <3>2. lo \in Nat /\ hi \in Nat /\ lo >= 1 /\ hi <= Len(list)
      BY <1>1 DEF Lows, Highs
    <3>3. /\ m \in Nat /\ m <= hi
          /\ lo < hi => lo <= m /\ m < hi
          /\ lo = hi => m = lo
      BY <3>2, MiddleBetween
    <3>4. find[<<lo, hi>>] = Probe(find, list, id, lo, hi)
      BY <2>1
    <3>5. \A k \in lo .. hi : k \in 1 .. Len(list)
      BY <1>1, <3>2
    <3>6. CASE m = 0
      <4>1. find[<<lo, hi>>] = Throws
        BY <3>4, <3>6 DEF Probe
      <4>2. ~(lo <= hi)
        BY <3>2, <3>3, <3>6
      <4>3. hi = 0
        BY <3>2, <3>6, <4>2 DEF Middle
      <4> QED BY <1>1, <3>2, <4>1, <4>2, <4>3 DEF Throws
    <3>7. CASE m # 0 /\ list[m].id = id
      <4>1. find[<<lo, hi>>] = m
        BY <3>4, <3>7 DEF Probe
      <4> HIDE DEF m
      <4>2. m \in 1 .. Len(list)
        BY <1>1, <3>2, <3>3, <3>7
      <4>3. ASSUME NEW k \in lo .. hi, list[k].id = id PROVE k = m
        <5>1. k \in 1 .. Len(list)
          BY <3>5
        <5>2. ~(k < m) /\ ~(m < k)
          BY <2>2, <2>3, <3>7, <4>2, <4>3, <5>1
        <5> QED BY <4>2, <5>1, <5>2
      <4>4. m # Throws
        BY <4>2 DEF Throws
      <4> QED BY <3>7, <4>1, <4>3, <4>4
    <3>8. CASE m # 0 /\ list[m].id # id /\ lo >= hi
      <4>1. find[<<lo, hi>>] = -1
        BY <3>4, <3>8 DEF Probe
      <4> HIDE DEF m
      <4>2. \A k \in lo .. hi : k = m
        BY <3>2, <3>3, <3>8
      <4> QED BY <1>1, <3>8, <4>1, <4>2 DEF Throws
    <3>9. CASE m # 0 /\ list[m].id # id /\ lo < hi
      <4>1. lo <= m /\ m < hi
        BY <3>3, <3>9
      <4> HIDE DEF m
      <4>2. m \in 1 .. Len(list)
        BY <1>1, <3>2, <3>3, <3>9
      <4>3. CASE id > list[m].id
        <5>1. find[<<lo, hi>>] = find[<<lo, m - 1>>]
          <6>1. ~(lo >= hi)
            BY <3>2, <3>9
          <6> QED BY <3>4, <3>9, <4>3, <6>1 DEF Probe, m
        <5>2. /\ lo \in Lows(list) /\ m - 1 \in Highs(list)
              /\ lo <= (m - 1) + 1 /\ ((m - 1) - lo) + 1 < n
          BY <1>1, <3>2, <4>1, <4>2 DEF Highs
        <5>3. Right(lo, m - 1)
          BY <3>1, <5>2
        <5>4. ASSUME NEW k \in lo .. hi, list[k].id = id PROVE k \in lo .. m - 1
          <6>1. k \in 1 .. Len(list) /\ list[k].id > list[m].id
            BY <3>5, <4>3, <5>4
          <6>2. ~(m < k) /\ k # m
            BY <2>2, <2>3, <4>2, <6>1
          <6> QED BY <3>2, <4>2, <6>1, <6>2
        <5>5. m - 1 = 0 => id > list[1].id
          <6>1. m - 1 = 0 => m = 1
            BY <4>2
          <6> QED BY <4>3, <6>1
        <5> QED BY <5>1, <5>3, <5>4, <5>5
      <4>4. CASE ~(id > list[m].id)
        <5>1. find[<<lo, hi>>] = find[<<m + 1, hi>>]
          <6>1. ~(lo >= hi)
            BY <3>2, <3>9
          <6> QED BY <3>4, <3>9, <4>4, <6>1 DEF Probe, m
        <5>2. /\ m + 1 \in Lows(list) /\ hi \in Highs(list)
              /\ m + 1 <= hi + 1 /\ (hi - (m + 1)) + 1 < n
          BY <1>1, <3>2, <4>1, <4>2 DEF Lows
        <5>3. Right(m + 1, hi)
          BY <3>1, <5>2
        <5>4. ASSUME NEW k \in lo .. hi, list[k].id = id PROVE k \in m + 1 .. hi
          <6>1. k \in 1 .. Len(list) /\ ~(list[k].id > list[m].id)
            BY <3>5, <4>4, <5>4
          <6>2. ~(k < m) /\ k # m
            BY <2>2, <2>3, <3>9, <4>2, <5>4, <6>1
          <6> QED BY <3>2, <4>2, <6>1, <6>2
        <5>5. hi # 0
          BY <3>2, <3>9
        <5> QED BY <5>1, <5>3, <5>4, <5>5
      <4> QED BY <4>3, <4>4
    <3>10. lo >= hi \/ lo < hi
      BY <3>2
    <3> HIDE DEF m, Right
    <3> QED BY <3>6, <3>7, <3>8, <3>9, <3>10
  <2> HIDE DEF T
  <2>6. Len(list) + 1 \in T
    BY <1>1, <2>4, <2>5, NaturalInduction
  <2>7. Len(list) # 0
    BY <1>3, EmptySeq
  <2>8. /\ 1 \in Lows(list) /\ Len(list) \in Highs(list) /\ 1 <= Len(list) + 1
        /\ (Len(list) - 1) + 1 < Len(list) + 1
    BY <1>1 DEF Lows, Highs
  <2>9. Right(1, Len(list))
    BY <2>6, <2>8 DEF T
  <2> QED BY <1>1, <1>3, <2>1, <2>7, <2>9
<1> QED BY <1>2, <1>3

-----------------------------------------------------------------------------
(* Inserting, removing and replacing a row.                                 *)

\* u is s with t after it.
Joins(u, s, t) ==
    /\ Len(u) = Len(s) + Len(t) /\ DOMAIN u = 1 .. Len(s) + Len(t)
    /\ \A i \in 1 .. Len(s) : u[i] = s[i]
    /\ \A i \in 1 .. Len(t) : u[Len(s) + i] = t[i]

LEMMA JoinIs ==
  ASSUME NEW S, NEW s \in Seq(S), NEW t \in Seq(S)
  PROVE  s \o t \in Seq(S) /\ Joins(s \o t, s, t)
<1>1. Len(s) \in Nat /\ Len(t) \in Nat
  BY LenProperties
<1>2. s \o t \in Seq(S)
  BY ConcatProperties
<1>3. /\ Len(s \o t) = Len(s) + Len(t)
      /\ \A i \in 1 .. Len(s) + Len(t) :
           (s \o t)[i] = IF i <= Len(s) THEN s[i] ELSE t[i - Len(s)]
  BY ConcatProperties, Zenon
<1>4. \A i \in 1 .. Len(s) : i \in 1 .. Len(s) + Len(t) /\ i <= Len(s)
  BY <1>1
<1>5. \A i \in 1 .. Len(s) : (s \o t)[i] = s[i]
  BY <1>3, <1>4
<1>6. ASSUME NEW i \in 1 .. Len(t) PROVE (s \o t)[Len(s) + i] = t[i]
  <2>1. /\ Len(s) + i \in 1 .. Len(s) + Len(t) /\ ~(Len(s) + i <= Len(s))
        /\ (Len(s) + i) - Len(s) = i
    BY <1>1
  <2> QED BY <1>3, <2>1
<1>7. DOMAIN (s \o t) = 1 .. Len(s) + Len(t)
  BY <1>2, <1>3, LenProperties
<1> QED BY <1>2, <1>3, <1>5, <1>6, <1>7 DEF Joins

LEMMA RestIs ==
  ASSUME NEW S, NEW s \in Seq(S), NEW i \in 1 .. Len(s) + 1
  PROVE  /\ SubSeq(s, i, Len(s)) \in Seq(S)
         /\ Len(SubSeq(s, i, Len(s))) = Len(s) + 1 - i
         /\ \A k \in 1 .. Len(s) + 1 - i : SubSeq(s, i, Len(s))[k] = s[i + k - 1]
<1>1. Len(s) \in Nat
  BY LenProperties
<1>2. SubSeq(s, i, Len(s)) \in Seq(S) /\ Len(SubSeq(s, i, Len(s))) = Len(s) + 1 - i
  BY <1>1
<1>3. \A k \in 1 .. Len(s) + 1 - i : SubSeq(s, i, Len(s))[k] = s[i + k - 1]
  BY <1>1
<1> QED BY <1>2, <1>3

LEMMA InsertAtIs ==
  ASSUME NEW S, NEW s \in Seq(S), NEW e \in S, NEW i \in 1 .. Len(s) + 1
  PROVE  /\ InsertAt(s, i, e) \in Seq(S)
         /\ DOMAIN InsertAt(s, i, e) = 1 .. Len(s) + 1
         /\ \A k \in 1 .. Len(s) + 1 :
              InsertAt(s, i, e)[k] = IF k < i THEN s[k] ELSE IF k = i THEN e ELSE s[k - 1]
<1> DEFINE a == SubSeq(s, 1, i - 1)
           b == SubSeq(s, i, Len(s))
           t == a \o <<e>>
<1>1. Len(s) \in Nat /\ i - 1 \in Nat /\ i - 1 <= Len(s) /\ Len(s) + 1 - i \in Nat
  BY LenProperties
<1>2. /\ a \in Seq(S) /\ Len(a) = i - 1
      /\ \A k \in 1 .. i - 1 : a[k] = s[k]
  BY <1>1, Start1
<1>3. /\ b \in Seq(S) /\ Len(b) = Len(s) + 1 - i
      /\ \A k \in 1 .. Len(s) + 1 - i : b[k] = s[i + k - 1]
  BY RestIs
<1>4. <<e>> \in Seq(S) /\ Len(<<e>>) = 1 /\ <<e>>[1] = e
  OBVIOUS
<1> HIDE DEF a, b
<1>5. /\ t \in Seq(S) /\ Len(t) = Len(a) + 1
      /\ \A k \in 1 .. Len(a) : t[k] = a[k]
      /\ t[Len(a) + 1] = e
  <2>1. t \in Seq(S) /\ Joins(t, a, <<e>>)
    BY <1>2, <1>4, JoinIs
  <2> HIDE DEF t
  <2> QED BY <1>4, <2>1 DEF Joins
<1> HIDE DEF t
<1>6. InsertAt(s, i, e) = t \o b
  BY DEF InsertAt, t, a, b
<1>7. /\ t \o b \in Seq(S) /\ DOMAIN (t \o b) = 1 .. Len(t) + Len(b)
      /\ \A k \in 1 .. Len(t) : (t \o b)[k] = t[k]
      /\ \A k \in 1 .. Len(b) : (t \o b)[Len(t) + k] = b[k]
  <2>1. t \o b \in Seq(S) /\ Joins(t \o b, t, b)
    BY <1>3, <1>5, JoinIs
  <2> QED BY <2>1 DEF Joins
<1>8. Len(t) = i /\ Len(t) + Len(b) = Len(s) + 1
  BY <1>1, <1>2, <1>3, <1>5
<1>9. ASSUME NEW k \in 1 .. Len(s) + 1
      PROVE  (t \o b)[k] = IF k < i THEN s[k] ELSE IF k = i THEN e ELSE s[k - 1]
  <2>1. CASE k < i
    <3>1. k \in 1 .. i - 1 /\ k \in 1 .. Len(t) /\ k \in 1 .. Len(a)
      BY <1>1, <1>2, <1>8, <2>1
    <3> QED BY <1>2, <1>5, <1>7, <2>1, <3>1
  <2>2. CASE k = i
    <3>1. k \in 1 .. Len(t) /\ k = Len(a) + 1
      BY <1>1, <1>2, <1>8, <2>2
    <3> QED BY <1>1, <1>5, <1>7, <2>2, <3>1
  <2>3. CASE k > i
    <3>1. /\ k - i \in 1 .. Len(b) /\ Len(t) + (k - i) = k /\ i + (k - i) - 1 = k - 1
          /\ k - i \in 1 .. Len(s) + 1 - i /\ ~(k < i) /\ k # i
      BY <1>1, <1>3, <1>8, <2>3
    <3>2. (t \o b)[k] = b[k - i] /\ b[k - i] = s[k - 1]
      BY <1>3, <1>7, <3>1
    <3> QED BY <3>1, <3>2
  <2>4. k < i \/ k = i \/ k > i
    OBVIOUS
  <2> QED BY <2>1, <2>2, <2>3, <2>4
<1> QED BY <1>6, <1>7, <1>8, <1>9

LEMMA RemoveAtIs ==
  ASSUME NEW S, NEW s \in Seq(S), NEW i \in 1 .. Len(s)
  PROVE  /\ RemoveAt(s, i) \in Seq(S)
         /\ DOMAIN RemoveAt(s, i) = 1 .. Len(s) - 1
         /\ \A k \in 1 .. Len(s) - 1 :
              RemoveAt(s, i)[k] = IF k < i THEN s[k] ELSE s[k + 1]
<1> DEFINE a == SubSeq(s, 1, i - 1)
           b == SubSeq(s, i + 1, Len(s))
<1>1. /\ Len(s) \in Nat /\ i - 1 \in Nat /\ i - 1 <= Len(s) /\ i + 1 \in 1 .. Len(s) + 1
      /\ Len(s) + 1 - (i + 1) = Len(s) - i
  BY LenProperties
<1>2. /\ a \in Seq(S) /\ Len(a) = i - 1
      /\ \A k \in 1 .. i - 1 : a[k] = s[k]
  BY <1>1, Start1
<1>3. /\ b \in Seq(S) /\ Len(b) = Len(s) + 1 - (i + 1)
      /\ \A k \in 1 .. Len(s) + 1 - (i + 1) : b[k] = s[(i + 1) + k - 1]
  BY <1>1, RestIs
<1> HIDE DEF a, b
<1>4. RemoveAt(s, i) = a \o b
  BY DEF RemoveAt, a, b
<1>5. /\ a \o b \in Seq(S) /\ DOMAIN (a \o b) = 1 .. Len(a) + Len(b)
      /\ \A k \in 1 .. Len(a) : (a \o b)[k] = a[k]
      /\ \A k \in 1 .. Len(b) : (a \o b)[Len(a) + k] = b[k]
  <2>1. a \o b \in Seq(S) /\ Joins(a \o b, a, b)
    BY <1>2, <1>3, JoinIs
  <2> QED BY <2>1 DEF Joins
<1>6. Len(a) + Len(b) = Len(s) - 1
  BY <1>1, <1>2, <1>3
<1>7. ASSUME NEW k \in 1 .. Len(s) - 1
      PROVE  (a \o b)[k] = IF k < i THEN s[k] ELSE s[k + 1]
  <2>1. CASE k < i
    <3>1. k \in 1 .. i - 1 /\ k \in 1 .. Len(a)
      BY <1>1, <1>2, <2>1
    <3> QED BY <1>2, <1>5, <2>1, <3>1
  <2>2. CASE ~(k < i)
    <3>1. /\ k - (i - 1) \in 1 .. Len(b) /\ Len(a) + (k - (i - 1)) = k
          /\ k - (i - 1) \in 1 .. Len(s) + 1 - (i + 1)
          /\ (i + 1) + (k - (i - 1)) - 1 = k + 1
      BY <1>1, <1>2, <1>3, <2>2
    <3>2. (a \o b)[k] = b[k - (i - 1)] /\ b[k - (i - 1)] = s[k + 1]
      BY <1>3, <1>5, <3>1
    <3> QED BY <2>2, <3>2
  <2> QED BY <2>1, <2>2
<1> QED BY <1>4, <1>5, <1>6, <1>7

In(list, row) == \E k \in DOMAIN list : list[k] = row

Has(list, x) == \E k \in DOMAIN list : list[k].id = x

\* A set of rows, for which the ids are numbers.
Numbered(S) == \A row \in S : row.id \in Int

LEMMA FirstIndex ==
  ASSUME NEW I, I \subseteq Nat, I # {}
  PROVE  \E i \in I : /\ i = CHOOSE k \in I : \A j \in I : k <= j
                      /\ \A j \in I : i <= j
<1>1. PICK m \in I : \A n \in I : <<n, m>> \notin OpToRel(<, Nat)
  BY NatLessThanWellFounded, WFMin
<1>2. ASSUME NEW n \in I PROVE m <= n
  <2>1. n \in Nat /\ m \in Nat /\ ~(n < m)
    BY <1>1 DEF OpToRel
  <2> QED BY <2>1
<1>3. \A k \in I : (\A j \in I : k <= j) => k = m
  <2>1. ASSUME NEW k \in I, \A j \in I : k <= j PROVE k = m
    <3>1. k <= m /\ m <= k /\ k \in Nat /\ m \in Nat
      BY <1>2, <2>1
    <3> QED BY <3>1
  <2> QED BY <2>1
<1>4. (CHOOSE k \in I : \A j \in I : k <= j) = m
  BY <1>2, <1>3
<1> QED BY <1>2, <1>4

LEMMA InsertTyped ==
  ASSUME NEW S, NEW list \in Seq(S), NEW row \in S
  PROVE  \E i \in 1 .. Len(list) + 1 :
            /\ OnLogsInsert(list, row) \in Seq(S)
            /\ DOMAIN OnLogsInsert(list, row) = 1 .. Len(list) + 1
            /\ \A k \in 1 .. Len(list) + 1 :
                 OnLogsInsert(list, row)[k] =
                   IF k < i THEN list[k] ELSE IF k = i THEN row ELSE list[k - 1]
            /\ \A k \in 1 .. i - 1 : ~(list[k].id < row.id)
            /\ i <= Len(list) => list[i].id < row.id
<1> DEFINE below == {i \in DOMAIN list : list[i].id < row.id}
<1>1. Len(list) \in Nat /\ DOMAIN list = 1 .. Len(list)
  BY LenProperties
<1>2. CASE below = {}
  <2>1. OnLogsInsert(list, row) = Append(list, row)
    BY <1>2 DEF OnLogsInsert
  <2>2. Append(list, row) \in Seq(S) /\ DOMAIN Append(list, row) = 1 .. Len(list) + 1
    BY <1>1
  <2>3. \A k \in 1 .. Len(list) + 1 : Append(list, row)[k] =
           IF k < Len(list) + 1 THEN list[k] ELSE row
    BY <1>1
  <2>4. \A k \in 1 .. Len(list) : ~(list[k].id < row.id)
    BY <1>1, <1>2
  <2> HIDE DEF below
  <2>5. Len(list) + 1 \in 1 .. Len(list) + 1 /\ ~(Len(list) + 1 <= Len(list))
        /\ (Len(list) + 1) - 1 = Len(list)
    BY <1>1
  <2>6. \A k \in 1 .. Len(list) + 1 : Append(list, row)[k] =
           IF k < Len(list) + 1 THEN list[k] ELSE IF k = Len(list) + 1 THEN row ELSE list[k - 1]
    BY <1>1, <2>3
  <2> QED BY <2>1, <2>2, <2>4, <2>5, <2>6
<1>3. CASE below # {}
  <2>1. below \subseteq Nat
    BY <1>1
  <2>2. PICK i \in below : /\ i = CHOOSE k \in below : \A j \in below : k <= j
                           /\ \A j \in below : i <= j
    <3> HIDE DEF below
    <3> QED BY <1>3, <2>1, FirstIndex
  <2>3. OnLogsInsert(list, row) = InsertAt(list, i, row)
    BY <1>3, <2>2 DEF OnLogsInsert
  <2>4. i \in 1 .. Len(list) /\ list[i].id < row.id
    BY <1>1
  <2>5. \A k \in 1 .. i - 1 : ~(list[k].id < row.id)
    <3>1. ASSUME NEW k \in 1 .. i - 1, list[k].id < row.id PROVE FALSE
      <4>1. k \in DOMAIN list /\ k < i
        BY <1>1, <2>4
      <4>2. k \in below
        BY <3>1, <4>1
      <4>3. i <= k
        BY <2>2, <4>2
      <4> HIDE DEF below
      <4> QED BY <2>4, <4>1, <4>3
    <3> QED BY <3>1
  <2>6. i \in 1 .. Len(list) + 1
    BY <1>1, <2>4
  <2> HIDE DEF below
  <2>7. /\ InsertAt(list, i, row) \in Seq(S)
        /\ DOMAIN InsertAt(list, i, row) = 1 .. Len(list) + 1
        /\ \A k \in 1 .. Len(list) + 1 : InsertAt(list, i, row)[k] =
             IF k < i THEN list[k] ELSE IF k = i THEN row ELSE list[k - 1]
    BY <2>6, InsertAtIs
  <2> QED BY <2>3, <2>4, <2>5, <2>6, <2>7
<1> QED BY <1>2, <1>3

LEMMA InsertIs ==
  ASSUME NEW S, Numbered(S), NEW list \in Seq(S), Descending(list), NEW row \in S,
         ~Has(list, row.id)
  PROVE  /\ OnLogsInsert(list, row) \in Seq(S) /\ Descending(OnLogsInsert(list, row))
         /\ \A r : In(OnLogsInsert(list, row), r) <=> In(list, r) \/ r = row
<1> DEFINE out == OnLogsInsert(list, row)
<1>1. Len(list) \in Nat /\ DOMAIN list = 1 .. Len(list)
  BY LenProperties
<1>2. PICK i \in 1 .. Len(list) + 1 :
         /\ out \in Seq(S) /\ DOMAIN out = 1 .. Len(list) + 1
         /\ \A k \in 1 .. Len(list) + 1 :
              out[k] = IF k < i THEN list[k] ELSE IF k = i THEN row ELSE list[k - 1]
         /\ \A k \in 1 .. i - 1 : ~(list[k].id < row.id)
         /\ i <= Len(list) => list[i].id < row.id
  BY InsertTyped
<1> HIDE DEF out
<1>3. /\ row.id \in Int /\ \A k \in 1 .. Len(list) : list[k].id \in Int /\ list[k].id # row.id
      /\ \A j, k \in 1 .. Len(list) : j < k => list[j].id > list[k].id
  BY <1>1 DEF Numbered, Has, Descending
<1>4. \A k \in 1 .. Len(list) : k < i => list[k].id > row.id
  <2>1. ASSUME NEW k \in 1 .. Len(list), k < i PROVE list[k].id > row.id
    <3>1. k \in 1 .. i - 1
      BY <1>1, <2>1
    <3>2. ~(list[k].id < row.id)
      BY <1>2, <3>1
    <3> QED BY <1>3, <3>2
  <2> QED BY <2>1
<1>5. \A k \in 1 .. Len(list) : k >= i => list[k].id < row.id
  <2>1. ASSUME NEW k \in 1 .. Len(list), k >= i PROVE list[k].id < row.id
    <3>1. i \in 1 .. Len(list) /\ list[i].id < row.id
      BY <1>1, <1>2, <2>1
    <3>2. k = i \/ list[i].id > list[k].id
      BY <1>3, <2>1, <3>1
    <3> QED BY <1>3, <3>1, <3>2
  <2> QED BY <2>1
<1>6. ASSUME NEW j \in 1 .. Len(list) + 1, NEW k \in 1 .. Len(list) + 1, j < k
      PROVE  out[j].id > out[k].id
  <2>1. CASE k < i
    <3>1. out[j] = list[j] /\ out[k] = list[k] /\ j \in 1 .. Len(list) /\ k \in 1 .. Len(list)
      BY <1>1, <1>2, <1>6, <2>1
    <3> QED BY <1>3, <1>6, <3>1
  <2>2. CASE k = i
    <3>1. out[j] = list[j] /\ out[k] = row /\ j \in 1 .. Len(list) /\ j < i
      BY <1>1, <1>2, <1>6, <2>2
    <3> QED BY <1>4, <3>1
  <2>3. CASE k > i /\ j < i
    <3>1. /\ out[j] = list[j] /\ out[k] = list[k - 1]
          /\ j \in 1 .. Len(list) /\ k - 1 \in 1 .. Len(list) /\ k - 1 >= i
      BY <1>1, <1>2, <1>6, <2>3
    <3>2. j < k - 1
      BY <2>3, <3>1
    <3> QED BY <1>3, <3>1, <3>2
  <2>4. CASE k > i /\ j = i
    <3>1. /\ out[j] = row /\ out[k] = list[k - 1] /\ k - 1 \in 1 .. Len(list) /\ k - 1 >= i
      BY <1>1, <1>2, <1>6, <2>4
    <3>2. list[k - 1].id < row.id /\ list[k - 1].id \in Int
      BY <1>3, <1>5, <3>1
    <3> QED BY <1>3, <3>1, <3>2
  <2>5. CASE k > i /\ j > i
    <3>1. /\ out[j] = list[j - 1] /\ out[k] = list[k - 1] /\ j - 1 < k - 1
          /\ j - 1 \in 1 .. Len(list) /\ k - 1 \in 1 .. Len(list)
      BY <1>1, <1>2, <1>6, <2>5
    <3> QED BY <1>3, <3>1
  <2>6. k < i \/ k = i \/ (k > i /\ (j < i \/ j = i \/ j > i))
    BY <1>1
  <2> QED BY <2>1, <2>2, <2>3, <2>4, <2>5, <2>6
<1>7. Descending(out)
  BY <1>2, <1>6 DEF Descending
<1>8. ASSUME NEW r, In(out, r) PROVE In(list, r) \/ r = row
  <2>1. PICK k \in 1 .. Len(list) + 1 : out[k] = r
    BY <1>2, <1>8 DEF In
  <2>2. k < i \/ k = i \/ k > i
    BY <1>1
  <2>3. /\ k < i => k \in 1 .. Len(list) /\ r = list[k]
        /\ k = i => r = row
        /\ k > i => k - 1 \in 1 .. Len(list) /\ r = list[k - 1]
    BY <1>1, <1>2, <2>1
  <2> QED BY <1>1, <2>2, <2>3 DEF In
<1>9. ASSUME NEW r, In(list, r) PROVE In(out, r)
  <2>1. PICK k \in 1 .. Len(list) : list[k] = r
    BY <1>1, <1>9 DEF In
  <2>2. CASE k < i
    <3>1. k \in 1 .. Len(list) + 1 /\ out[k] = r
      BY <1>1, <1>2, <2>1, <2>2
    <3> QED BY <1>2, <3>1 DEF In
  <2>3. CASE k >= i
    <3>1. k + 1 \in 1 .. Len(list) + 1 /\ ~(k + 1 < i) /\ k + 1 # i /\ (k + 1) - 1 = k
      BY <1>1, <2>3
    <3>2. out[k + 1] = r
      BY <1>2, <2>1, <3>1
    <3> QED BY <1>2, <3>1, <3>2 DEF In
  <2> QED BY <1>1, <2>2, <2>3
<1>10. In(out, row)
  <2>1. out[i] = row
    BY <1>1, <1>2
  <2> QED BY <1>2, <2>1 DEF In
<1> QED BY <1>2, <1>7, <1>8, <1>9, <1>10 DEF out

LEMMA DeleteTyped ==
  ASSUME NEW S, NEW list \in Seq(S), NEW id
  PROVE  \/ OnLogsDelete(list, id) = list /\ ~Has(list, id)
         \/ \E i \in 1 .. Len(list) :
              /\ list[i].id = id
              /\ OnLogsDelete(list, id) \in Seq(S)
              /\ DOMAIN OnLogsDelete(list, id) = 1 .. Len(list) - 1
              /\ \A k \in 1 .. Len(list) - 1 :
                   OnLogsDelete(list, id)[k] = IF k < i THEN list[k] ELSE list[k + 1]
<1> DEFINE at == {i \in DOMAIN list : list[i].id = id}
<1>1. Len(list) \in Nat /\ DOMAIN list = 1 .. Len(list)
  BY LenProperties
<1>2. CASE at = {}
  BY <1>2 DEF OnLogsDelete, Has
<1>3. CASE at # {}
  <2>1. at \subseteq Nat
    BY <1>1
  <2>2. PICK i \in at : i = CHOOSE k \in at : \A j \in at : k <= j
    <3> HIDE DEF at
    <3> QED BY <1>3, <2>1, FirstIndex
  <2>3. OnLogsDelete(list, id) = RemoveAt(list, i)
    BY <1>3, <2>2 DEF OnLogsDelete
  <2>4. i \in 1 .. Len(list) /\ list[i].id = id
    BY <1>1
  <2> HIDE DEF at
  <2>5. /\ RemoveAt(list, i) \in Seq(S)
        /\ DOMAIN RemoveAt(list, i) = 1 .. Len(list) - 1
        /\ \A k \in 1 .. Len(list) - 1 :
             RemoveAt(list, i)[k] = IF k < i THEN list[k] ELSE list[k + 1]
    BY <2>4, RemoveAtIs
  <2> QED BY <2>3, <2>4, <2>5
<1> QED BY <1>2, <1>3

LEMMA DeleteIs ==
  ASSUME NEW S, Numbered(S), NEW list \in Seq(S), Descending(list), NEW id \in Int
  PROVE  /\ OnLogsDelete(list, id) \in Seq(S) /\ Descending(OnLogsDelete(list, id))
         /\ \A r : In(OnLogsDelete(list, id), r) <=> In(list, r) /\ r.id # id
<1> DEFINE out == OnLogsDelete(list, id)
<1>1. Len(list) \in Nat /\ DOMAIN list = 1 .. Len(list)
  BY LenProperties
<1>2. CASE out = list /\ ~Has(list, id)
  BY <1>2 DEF Has, In
<1>3. CASE \E i \in 1 .. Len(list) :
             /\ list[i].id = id /\ out \in Seq(S) /\ DOMAIN out = 1 .. Len(list) - 1
             /\ \A k \in 1 .. Len(list) - 1 :
                  out[k] = IF k < i THEN list[k] ELSE list[k + 1]
  <2>1. PICK i \in 1 .. Len(list) :
             /\ list[i].id = id /\ out \in Seq(S) /\ DOMAIN out = 1 .. Len(list) - 1
             /\ \A k \in 1 .. Len(list) - 1 :
                  out[k] = IF k < i THEN list[k] ELSE list[k + 1]
    BY <1>3
  <2> HIDE DEF out
  <2>2. /\ \A k \in 1 .. Len(list) : list[k].id \in Int
        /\ \A j, k \in 1 .. Len(list) : j < k => list[j].id > list[k].id
    BY <1>1 DEF Numbered, Descending
  <2>3. \A k \in 1 .. Len(list) - 1 : k \in 1 .. Len(list) /\ k + 1 \in 1 .. Len(list)
    BY <1>1
  <2>4. ASSUME NEW j \in 1 .. Len(list) - 1, NEW k \in 1 .. Len(list) - 1, j < k
        PROVE  out[j].id > out[k].id
    <3> DEFINE a == IF j < i THEN j ELSE j + 1
               b == IF k < i THEN k ELSE k + 1
    <3>1. out[j] = list[a] /\ out[k] = list[b]
      BY <2>1
    <3>2. a \in 1 .. Len(list) /\ b \in 1 .. Len(list) /\ a < b
      BY <2>3, <2>4
    <3> QED BY <2>2, <3>1, <3>2
  <2>5. Descending(out)
    BY <2>1, <2>4 DEF Descending
  <2>6. \A k \in 1 .. Len(list) : k # i => list[k].id # id
    <3>1. ASSUME NEW k \in 1 .. Len(list), k # i PROVE list[k].id # list[i].id
      <4>1. k < i \/ i < k
        BY <1>1, <3>1
      <4>2. list[k].id > list[i].id \/ list[i].id > list[k].id
        BY <2>2, <4>1
      <4> QED BY <2>2, <4>2
    <3> QED BY <2>1, <3>1
  <2>7. ASSUME NEW r, In(out, r) PROVE In(list, r) /\ r.id # id
    <3>1. PICK k \in 1 .. Len(list) - 1 : out[k] = r
      BY <2>1, <2>7 DEF In
    <3> DEFINE a == IF k < i THEN k ELSE k + 1
    <3>2. r = list[a] /\ a \in 1 .. Len(list) /\ a # i
      BY <2>1, <2>3, <3>1
    <3> HIDE DEF a
    <3> QED BY <1>1, <2>6, <3>2 DEF In
  <2>8. ASSUME NEW r, In(list, r), r.id # id PROVE In(out, r)
    <3>1. PICK k \in 1 .. Len(list) : list[k] = r
      BY <1>1, <2>8 DEF In
    <3>2. k # i
      BY <2>1, <2>8, <3>1
    <3>3. CASE k < i
      <4>1. k \in 1 .. Len(list) - 1
        BY <1>1, <3>3
      <4> QED BY <2>1, <3>1, <3>3, <4>1 DEF In
    <3>4. CASE k > i
      <4>1. k - 1 \in 1 .. Len(list) - 1 /\ ~(k - 1 < i) /\ (k - 1) + 1 = k
        BY <1>1, <3>4
      <4>2. out[k - 1] = r
        BY <2>1, <3>1, <4>1
      <4> QED BY <2>1, <4>1, <4>2 DEF In
    <3> QED BY <1>1, <3>2, <3>3, <3>4
  <2> QED BY <2>1, <2>5, <2>7, <2>8 DEF out
<1>4. \/ out = list /\ ~Has(list, id)
      \/ \E i \in 1 .. Len(list) :
             /\ list[i].id = id /\ out \in Seq(S) /\ DOMAIN out = 1 .. Len(list) - 1
             /\ \A k \in 1 .. Len(list) - 1 :
                  out[k] = IF k < i THEN list[k] ELSE list[k + 1]
  BY DeleteTyped
<1> QED BY <1>2, <1>3, <1>4

LEMMA UpdateTyped ==
  ASSUME NEW S, NEW list \in Seq(S), NEW row \in S
  PROVE  OnLogsUpdate(list, row) \in Seq(S)
<1> DEFINE i == BinarySearch(list, row.id)
<1> HIDE DEF i
<1>1. CASE i \in DOMAIN list
  <2>1. OnLogsUpdate(list, row) = [list EXCEPT ![i] = row]
    BY <1>1 DEF OnLogsUpdate, i
  <2>2. [list EXCEPT ![i] = row] \in Seq(S)
    BY <1>1
  <2> QED BY <2>1, <2>2
<1>2. CASE i \notin DOMAIN list
  BY <1>2 DEF OnLogsUpdate, i
<1> QED BY <1>1, <1>2

LEMMA UpdateIs ==
  ASSUME NEW S, Numbered(S), NEW list \in Seq(S), Descending(list), NEW row \in S
  PROVE  /\ OnLogsUpdate(list, row) \in Seq(S) /\ Descending(OnLogsUpdate(list, row))
         /\ \A r : In(OnLogsUpdate(list, row), r)
                     <=> (In(list, r) /\ r.id # row.id) \/ (Has(list, row.id) /\ r = row)
<1> DEFINE i == BinarySearch(list, row.id)
           out == OnLogsUpdate(list, row)
<1>1. Len(list) \in Nat /\ DOMAIN list = 1 .. Len(list)
  BY LenProperties
<1>2. /\ i \in DOMAIN list => list[i].id = row.id
      /\ \A k \in DOMAIN list : list[k].id = row.id => i = k
  <2>1. row.id \in Int
    BY DEF Numbered
  <2> QED BY <2>1, SearchFinds DEF Numbered
<1>3. out = IF i \in DOMAIN list THEN [list EXCEPT ![i] = row] ELSE list
  BY DEF OnLogsUpdate
<1> HIDE DEF i, out
<1>4. CASE i \notin DOMAIN list
  <2>1. \A k \in DOMAIN list : list[k].id # row.id
    BY <1>2, <1>4
  <2>2. ~Has(list, row.id) /\ \A r : In(list, r) => r.id # row.id
    BY <2>1 DEF Has, In
  <2>3. OnLogsUpdate(list, row) = list
    BY <1>3, <1>4 DEF out
  <2> QED BY <2>2, <2>3
<1>5. CASE i \in DOMAIN list
  <2>1. out \in Seq(S)
    BY UpdateTyped DEF out
  <2>2. DOMAIN out = DOMAIN list /\ \A k \in DOMAIN list : out[k] = IF k = i THEN row ELSE list[k]
    BY <1>3, <1>5
  <2>3. \A k \in DOMAIN list : out[k].id = list[k].id
    BY <1>2, <1>5, <2>2
  <2>4. Descending(out)
    BY <2>2, <2>3 DEF Descending
  <2>5. Has(list, row.id)
    BY <1>2, <1>5 DEF Has
  <2>6. \A r : In(out, r) <=> (In(list, r) /\ r.id # row.id) \/ r = row
    BY <1>2, <1>5, <2>2 DEF In
  <2> QED BY <2>1, <2>4, <2>5, <2>6 DEF out
<1> QED BY <1>4, <1>5

-----------------------------------------------------------------------------
(* Appending a page.                                                        *)

Adds(f, list, page, n) ==
    f = [k \in 0 .. n |->
           IF k = 0 THEN list
           ELSE IF \E i \in DOMAIN list : list[i].id = page[k].id THEN f[k - 1]
           ELSE Append(f[k - 1], page[k])]

LEMMA AddsExist ==
  ASSUME NEW list, NEW page, NEW n \in Nat
  PROVE  \E f : Adds(f, list, page, n)
<1> DEFINE T == {m \in Nat : \E f : Adds(f, list, page, m)}
<1>1. 0 \in T
  <2> DEFINE f == [k \in 0 .. 0 |-> list]
  <2>1. f = [k \in 0 .. 0 |->
               IF k = 0 THEN list
               ELSE IF \E i \in DOMAIN list : list[i].id = page[k].id THEN f[k - 1]
               ELSE Append(f[k - 1], page[k])]
    OBVIOUS
  <2> QED BY <2>1 DEF Adds
<1>2. ASSUME NEW m \in Nat, m \in T PROVE m + 1 \in T
  <2>1. PICK f : Adds(f, list, page, m)
    BY <1>2
  <2> DEFINE last == IF \E i \in DOMAIN list : list[i].id = page[m + 1].id
                     THEN f[m] ELSE Append(f[m], page[m + 1])
             g == [k \in 0 .. m + 1 |-> IF k = m + 1 THEN last ELSE f[k]]
  <2>2. \A k \in 0 .. m : f[k] =
           IF k = 0 THEN list
           ELSE IF \E i \in DOMAIN list : list[i].id = page[k].id THEN f[k - 1]
           ELSE Append(f[k - 1], page[k])
    BY <2>1 DEF Adds
  <2>3. ASSUME NEW k \in 0 .. m + 1
        PROVE  g[k] = IF k = 0 THEN list
                      ELSE IF \E i \in DOMAIN list : list[i].id = page[k].id THEN g[k - 1]
                      ELSE Append(g[k - 1], page[k])
    <3>1. CASE k = m + 1
      <4>1. g[k] = last /\ g[k - 1] = f[m] /\ k # 0
        BY <3>1
      <4> QED BY <3>1, <4>1
    <3>2. CASE k \in 0 .. m
      <4>1. g[k] = f[k] /\ (k # 0 => g[k - 1] = f[k - 1])
        BY <3>2
      <4> HIDE DEF g
      <4> QED BY <2>2, <3>2, <4>1
    <3> QED BY <3>1, <3>2
  <2>4. g = [k \in 0 .. m + 1 |->
               IF k = 0 THEN list
               ELSE IF \E i \in DOMAIN list : list[i].id = page[k].id THEN g[k - 1]
               ELSE Append(g[k - 1], page[k])]
    BY <2>3
  <2>5. Adds(g, list, page, m + 1)
    BY <2>4 DEF Adds
  <2> QED BY <2>5
<1> HIDE DEF T
<1>3. n \in T
  BY <1>1, <1>2, NaturalInduction
<1> QED BY <1>3 DEF T

\* A merged page keeps the type of rows; without an id that is on the list the
\* whole page is appended.
LEMMA MergedIs ==
  ASSUME NEW S, NEW list \in Seq(S), NEW page \in Seq(S)
  PROVE  /\ Merged(list, page) \in Seq(S)
         /\ (\A k \in DOMAIN page : ~Has(list, page[k].id)) =>
               Joins(Merged(list, page), list, page)
<1> DEFINE f == CHOOSE g : Adds(g, list, page, Len(page))
<1>1. Len(page) \in Nat /\ DOMAIN page = 1 .. Len(page) /\ Len(list) \in Nat
  BY LenProperties
<1>2. Adds(f, list, page, Len(page))
  BY <1>1, AddsExist
<1>3. Merged(list, page) = f[Len(page)]
  BY DEF Merged, Adds
<1> HIDE DEF f
<1>4. \A k \in 0 .. Len(page) : f[k] =
         IF k = 0 THEN list
         ELSE IF Has(list, page[k].id) THEN f[k - 1] ELSE Append(f[k - 1], page[k])
  BY <1>2 DEF Adds, Has
<1> DEFINE New == \A k \in DOMAIN page : ~Has(list, page[k].id)
           Added(n) == /\ Len(f[n]) = Len(list) + n
                       /\ \A i \in 1 .. Len(list) : f[n][i] = list[i]
                       /\ \A i \in 1 .. n : f[n][Len(list) + i] = page[i]
           T == {n \in Nat : n <= Len(page) => f[n] \in Seq(S) /\ (New => Added(n))}
<1>5. 0 \in T
  <2>1. f[0] = list
    BY <1>1, <1>4
  <2> QED BY <1>1, <2>1
<1>6. ASSUME NEW n \in Nat, n \in T PROVE n + 1 \in T
  <2> SUFFICES ASSUME n + 1 <= Len(page)
               PROVE  f[n + 1] \in Seq(S) /\ (New => Added(n + 1))
    OBVIOUS
  <2>1. f[n] \in Seq(S) /\ (New => Added(n))
    BY <1>1, <1>6
  <2>2. n + 1 \in 0 .. Len(page) /\ n + 1 # 0 /\ (n + 1) - 1 = n /\ n + 1 \in DOMAIN page
        /\ page[n + 1] \in S
    BY <1>1
  <2>3. f[n + 1] = IF Has(list, page[n + 1].id) THEN f[n] ELSE Append(f[n], page[n + 1])
    BY <1>4, <2>2
  <2> HIDE DEF T
  <2>4. f[n + 1] \in Seq(S)
    BY <2>1, <2>2, <2>3
  <2>5. ASSUME New PROVE Added(n + 1)
    <3>1. PICK s : s = f[n]
      OBVIOUS
    <3>2. PICK e : e = page[n + 1]
      OBVIOUS
    <3>3. f[n + 1] = Append(s, e)
      BY <2>2, <2>3, <2>5, <3>1, <3>2
    <3>4. /\ s \in Seq(S) /\ Len(s) = Len(list) + n
          /\ \A i \in 1 .. Len(list) : s[i] = list[i]
          /\ \A i \in 1 .. n : s[Len(list) + i] = page[i]
      BY <2>1, <2>5, <3>1
    <3>5. /\ Len(Append(s, e)) = Len(s) + 1
          /\ \A i \in 1 .. Len(s) : Append(s, e)[i] = s[i]
          /\ Append(s, e)[Len(s) + 1] = e
      BY <3>4
    <3> HIDE DEF New
    <3>6. Len(Append(s, e)) = Len(list) + (n + 1)
      BY <1>1, <3>4, <3>5
    <3>7. ASSUME NEW i \in 1 .. Len(list) PROVE Append(s, e)[i] = list[i]
      <4>1. i \in 1 .. Len(s)
        BY <1>1, <3>4
      <4> QED BY <3>4, <3>5, <4>1
    <3>8. ASSUME NEW i \in 1 .. n + 1 PROVE Append(s, e)[Len(list) + i] = page[i]
      <4>1. CASE i = n + 1
        <5>1. Len(list) + i = Len(s) + 1
          BY <1>1, <3>4, <4>1
        <5> QED BY <3>2, <3>5, <4>1, <5>1
      <4>2. CASE i \in 1 .. n
        <5>1. Len(list) + i \in 1 .. Len(s)
          BY <1>1, <3>4, <4>2
        <5> QED BY <3>4, <3>5, <4>2, <5>1
      <4>3. i = n + 1 \/ i \in 1 .. n
        OBVIOUS
      <4> QED BY <4>1, <4>2, <4>3
    <3> QED BY <3>3, <3>6, <3>7, <3>8
  <2> QED BY <2>4, <2>5
<1> HIDE DEF T
<1>7. Len(page) \in T
  BY <1>1, <1>5, <1>6, NaturalInduction
<1>8. f[Len(page)] \in Seq(S) /\ (New => Added(Len(page)))
  BY <1>1, <1>7 DEF T
<1>9. New => Joins(Merged(list, page), list, page)
  <2>1. DOMAIN f[Len(page)] = 1 .. Len(f[Len(page)])
    BY <1>8, LenProperties
  <2> HIDE DEF New
  <2> QED BY <1>3, <1>8, <2>1 DEF Joins
<1> QED BY <1>3, <1>8, <1>9

-----------------------------------------------------------------------------
(* A list and the events on their way to it, S being the rows the view of  *)
(* project p lists by now.                                                  *)

Lists(S, x) == \E row \in S : row.id = x

\* x may be among the rows that are still to be loaded.
Below(list, more, x) == more /\ \A y : Has(list, y) => x < y

\* The event e is about the log x of project p.
About(e, p, x) == e.row.of = p /\ e.row.id = x /\ e.effect # "none"

Unheard(events, p, x) == \A i \in DOMAIN events : ~About(events[i], p, x)

\* The last event about a log tells what has become of it.
LastTells(events, p, S) ==
    \A i \in DOMAIN events, x \in Int :
        About(events[i], p, x) /\ (\A j \in DOMAIN events : j > i => ~About(events[j], p, x)) =>
            IF events[i].effect = "delete" THEN ~Lists(S, x) ELSE events[i].row \in S

\* The list is right about every log no event is about.
QuietTells(events, p, S, list, more) ==
    \A x \in Int : Unheard(events, p, x) =>
        /\ \A row : In(list, row) /\ row.id = x => row \in S
        /\ Lists(S, x) => Has(list, x) \/ Below(list, more, x)

\* The first event about a log fits the list.
FirstFits(events, p, list, more) ==
    \A i \in DOMAIN events, x \in Int :
        About(events[i], p, x) /\ (\A j \in DOMAIN events : j < i => ~About(events[j], p, x)) =>
            /\ events[i].effect = "insert" => ~Has(list, x)
            /\ events[i].effect = "update" => Has(list, x) \/ Below(list, more, x)

\* The next event about a log fits the one before.
NextFits(events, p) ==
    \A i, j \in DOMAIN events, x \in Int :
        /\ i < j /\ About(events[i], p, x) /\ About(events[j], p, x)
        /\ \A k \in DOMAIN events : i < k /\ k < j => ~About(events[k], p, x)
        => (events[i].effect = "delete" <=> events[j].effect = "insert")

\* What the events on their way will make of the list is what the view lists.
Follows(events, p, S, list, more) ==
    /\ Descending(list)
    /\ LastTells(events, p, S)
    /\ QuietTells(events, p, S, list, more)
    /\ FirstFits(events, p, list, more)
    /\ NextFits(events, p)

\* The events es report how the view of p came from S to R.
Reports(es, p, S, R) ==
    /\ \A i \in DOMAIN es, x \in Int : About(es[i], p, x) =>
         /\ es[i].effect = ViewEffect(Lists(S, x), Lists(R, x))
         /\ es[i].effect # "delete" => es[i].row \in R
    /\ \A i, j \in DOMAIN es, x \in Int :
         About(es[i], p, x) /\ About(es[j], p, x) => i = j
    /\ \A x \in Int : Unheard(es, p, x) =>
         \A row : row.id = x => (row \in S <=> row \in R)

\* The index of an event among those the server sends after others.
LEMMA JoinedIndex ==
  ASSUME NEW T, NEW s \in Seq(T), NEW t \in Seq(T)
  PROVE  /\ \A i \in DOMAIN s : i \in DOMAIN (s \o t) /\ (s \o t)[i] = s[i] /\ i \in Int
         /\ \A i \in DOMAIN t : /\ Len(s) + i \in DOMAIN (s \o t)
                                /\ (s \o t)[Len(s) + i] = t[i] /\ i \in Int
         /\ \A k \in DOMAIN (s \o t) :
              k \in DOMAIN s \/ \E i \in DOMAIN t : k = Len(s) + i
         /\ \A i \in DOMAIN s, j \in DOMAIN t : i < Len(s) + j
         /\ Len(s) \in Int
<1>1. /\ Len(s) \in Nat /\ Len(t) \in Nat
      /\ DOMAIN s = 1 .. Len(s) /\ DOMAIN t = 1 .. Len(t)
  BY LenProperties
<1>2. PICK u : u = s \o t
  OBVIOUS
<1>3. Joins(u, s, t)
  BY <1>2, JoinIs
<1>4. /\ DOMAIN u = 1 .. Len(s) + Len(t)
      /\ \A i \in 1 .. Len(s) : u[i] = s[i]
      /\ \A i \in 1 .. Len(t) : u[Len(s) + i] = t[i]
  BY <1>3 DEF Joins
<1>5. \A i \in DOMAIN s : i \in DOMAIN u /\ u[i] = s[i] /\ i \in Int
  BY <1>1, <1>4
<1>6. \A i \in DOMAIN t : Len(s) + i \in DOMAIN u /\ u[Len(s) + i] = t[i] /\ i \in Int
  BY <1>1, <1>4
<1>7. ASSUME NEW k \in DOMAIN u, k \notin DOMAIN s
      PROVE  \E i \in DOMAIN t : k = Len(s) + i
  <2>1. k - Len(s) \in 1 .. Len(t) /\ k = Len(s) + (k - Len(s))
    BY <1>1, <1>4, <1>7
  <2> QED BY <1>1, <2>1
<1>8. \A i \in DOMAIN s, j \in DOMAIN t : i < Len(s) + j
  BY <1>1
<1> QED BY <1>1, <1>2, <1>5, <1>6, <1>7, <1>8

\* What the server reports keeps the list right.
LEMMA ReportsFollow ==
  ASSUME NEW T, NEW s \in Seq(T), NEW t \in Seq(T), NEW p, NEW S, NEW R, NEW list,
         NEW more \in BOOLEAN, \A row : In(list, row) => row.id \in Int,
         Follows(s, p, S, list, more), Reports(t, p, S, R)
  PROVE  Follows(s \o t, p, R, list, more)
<1>1. PICK u : u = s \o t
  OBVIOUS
<1>2. PICK n : n = Len(s)
  OBVIOUS
<1>3. /\ n \in Int
      /\ \A i \in DOMAIN s : i \in DOMAIN u /\ u[i] = s[i] /\ i \in Int
      /\ \A i \in DOMAIN t : n + i \in DOMAIN u /\ u[n + i] = t[i] /\ i \in Int
      /\ \A k \in DOMAIN u : k \in DOMAIN s \/ \E i \in DOMAIN t : k = n + i
      /\ \A i \in DOMAIN s, j \in DOMAIN t : i < n + j
  BY <1>1, <1>2, JoinedIndex
<1>4. \A x \in Int : Unheard(u, p, x) => Unheard(s, p, x) /\ Unheard(t, p, x)
  BY <1>3 DEF Unheard
<1>5. \A x \in Int : Unheard(t, p, x) => \A row : row.id = x => (row \in S <=> row \in R)
  BY DEF Reports
<1>6. \A x \in Int : Unheard(t, p, x) => (Lists(S, x) <=> Lists(R, x))
  BY <1>5 DEF Lists
<1>7. \A i \in DOMAIN t, x \in Int : About(t[i], p, x) =>
         /\ t[i].effect = ViewEffect(Lists(S, x), Lists(R, x))
         /\ t[i].effect # "delete" => t[i].row \in R
  BY DEF Reports
<1>8. \A i, j \in DOMAIN t, x \in Int : About(t[i], p, x) /\ About(t[j], p, x) => i = j
  BY DEF Reports
<1>9. LastTells(u, p, R)
  <2> SUFFICES ASSUME NEW k \in DOMAIN u, NEW x \in Int, About(u[k], p, x),
                      \A j \in DOMAIN u : j > k => ~About(u[j], p, x)
               PROVE  IF u[k].effect = "delete" THEN ~Lists(R, x) ELSE u[k].row \in R
    BY DEF LastTells
  <2>1. CASE k \in DOMAIN s
    <3>1. Unheard(t, p, x)
      BY <1>3, <2>1 DEF Unheard
    <3>2. \A j \in DOMAIN s : j > k => ~About(s[j], p, x)
      BY <1>3
    <3>3. IF s[k].effect = "delete" THEN ~Lists(S, x) ELSE s[k].row \in S
      BY <1>3, <2>1, <3>2 DEF Follows, LastTells
    <3>4. s[k].row.id = x
      BY <1>3, <2>1 DEF About
    <3> QED BY <1>3, <1>5, <1>6, <2>1, <3>1, <3>3, <3>4
  <2>2. CASE \E i \in DOMAIN t : k = n + i
    <3>1. PICK i \in DOMAIN t : k = n + i
      BY <2>2
    <3>2. /\ t[i].effect = ViewEffect(Lists(S, x), Lists(R, x))
          /\ t[i].effect # "delete" => t[i].row \in R
      BY <1>3, <1>7, <3>1
    <3> QED BY <1>3, <3>1, <3>2 DEF ViewEffect
  <2> QED BY <1>3, <2>1, <2>2
<1>10. QuietTells(u, p, R, list, more)
  <2> SUFFICES ASSUME NEW x \in Int, Unheard(u, p, x)
               PROVE  /\ \A row : In(list, row) /\ row.id = x => row \in R
                      /\ Lists(R, x) => Has(list, x) \/ Below(list, more, x)
    BY DEF QuietTells
  <2>1. Unheard(s, p, x) /\ Unheard(t, p, x)
    BY <1>4
  <2>2. /\ \A row : In(list, row) /\ row.id = x => row \in S
        /\ Lists(S, x) => Has(list, x) \/ Below(list, more, x)
    BY <2>1 DEF Follows, QuietTells
  <2> QED BY <1>5, <1>6, <2>1, <2>2
<1>11. ASSUME NEW x \in Int, Unheard(s, p, x)
       PROVE  Has(list, x) => Lists(S, x)
  <2>1. \A row : In(list, row) /\ row.id = x => row \in S
    BY <1>11 DEF Follows, QuietTells
  <2> QED BY <2>1 DEF Has, In, Lists
<1>12. FirstFits(u, p, list, more)
  <2> SUFFICES ASSUME NEW k \in DOMAIN u, NEW x \in Int, About(u[k], p, x),
                      \A j \in DOMAIN u : j < k => ~About(u[j], p, x)
               PROVE  /\ u[k].effect = "insert" => ~Has(list, x)
                      /\ u[k].effect = "update" => Has(list, x) \/ Below(list, more, x)
    BY DEF FirstFits
  <2>1. CASE k \in DOMAIN s
    <3>1. \A j \in DOMAIN s : j < k => ~About(s[j], p, x)
      BY <1>3
    <3> QED BY <1>3, <2>1, <3>1 DEF Follows, FirstFits
  <2>2. CASE \E i \in DOMAIN t : k = n + i
    <3>1. PICK i \in DOMAIN t : k = n + i
      BY <2>2
    <3>2. Unheard(s, p, x)
      BY <1>3, <3>1 DEF Unheard
    <3>3. t[i].effect = ViewEffect(Lists(S, x), Lists(R, x))
      BY <1>3, <1>7, <3>1
    <3>4. Lists(S, x) => Has(list, x) \/ Below(list, more, x)
      BY <3>2 DEF Follows, QuietTells
    <3> QED BY <1>3, <1>11, <3>1, <3>2, <3>3, <3>4 DEF ViewEffect
  <2> QED BY <1>3, <2>1, <2>2
<1>13. NextFits(u, p)
  <2> SUFFICES ASSUME NEW k \in DOMAIN u, NEW m \in DOMAIN u, NEW x \in Int, k < m,
                      About(u[k], p, x), About(u[m], p, x),
                      \A j \in DOMAIN u : k < j /\ j < m => ~About(u[j], p, x)
               PROVE  u[k].effect = "delete" <=> u[m].effect = "insert"
    BY DEF NextFits
  <2>1. CASE k \in DOMAIN s /\ m \in DOMAIN s
    <3>1. \A j \in DOMAIN s : k < j /\ j < m => ~About(s[j], p, x)
      BY <1>3
    <3> QED BY <1>3, <2>1, <3>1 DEF Follows, NextFits
  <2>2. CASE k \in DOMAIN s /\ \E i \in DOMAIN t : m = n + i
    <3>1. PICK i \in DOMAIN t : m = n + i
      BY <2>2
    <3>2. \A j \in DOMAIN s : j > k => ~About(s[j], p, x)
      BY <1>3, <3>1
    <3>3. IF s[k].effect = "delete" THEN ~Lists(S, x) ELSE s[k].row \in S
      BY <1>3, <2>2, <3>2 DEF Follows, LastTells
    <3>4. s[k].row.id = x /\ u[k] = s[k] /\ u[m] = t[i]
      BY <1>3, <2>2, <3>1 DEF About
    <3>5. t[i].effect = ViewEffect(Lists(S, x), Lists(R, x)) /\ t[i].effect # "none"
      BY <1>7, <3>4 DEF About
    <3>6. s[k].effect # "delete" => Lists(S, x)
      BY <3>3, <3>4 DEF Lists
    <3>7. s[k].effect = "delete" <=> t[i].effect = "insert"
      BY <3>3, <3>5, <3>6 DEF ViewEffect
    <3> QED BY <3>4, <3>7
  <2>3. CASE \E i \in DOMAIN t : k = n + i
    <3>1. PICK i \in DOMAIN t : k = n + i
      BY <2>3
    <3>2. m \notin DOMAIN s
      BY <1>3, <3>1
    <3>3. PICK j \in DOMAIN t : m = n + j
      BY <1>3, <3>2
    <3>4. i = j
      BY <1>3, <1>8, <3>1, <3>3
    <3> QED BY <1>3, <3>1, <3>3, <3>4
  <2> QED BY <1>3, <2>1, <2>2, <2>3
<1> QED BY <1>1, <1>9, <1>10, <1>12, <1>13 DEF Follows

\* The events that are left once the first is delivered.
LEMMA TailIndex ==
  ASSUME NEW T, NEW s \in Seq(T), s # << >>
  PROVE  /\ Tail(s) \in Seq(T) /\ 1 \in DOMAIN s /\ Head(s) = s[1] /\ s[1] \in T
         /\ \A i \in DOMAIN Tail(s) :
              i + 1 \in DOMAIN s /\ Tail(s)[i] = s[i + 1] /\ i \in Int /\ 1 < i + 1
         /\ \A i \in DOMAIN s : i \in Int /\ (i = 1 \/ (i - 1 \in DOMAIN Tail(s) /\ 1 < i))
<1>1. Len(s) \in Nat /\ DOMAIN s = 1 .. Len(s) /\ Len(s) # 0
  BY LenProperties
<1>2. PICK t : t = Tail(s)
  OBVIOUS
<1>3. t \in Seq(T) /\ Len(t) = Len(s) - 1
  BY <1>1, <1>2
<1>4. DOMAIN t = 1 .. Len(s) - 1
  BY <1>3, LenProperties
<1>5. \A i \in 1 .. Len(s) - 1 : t[i] = s[i + 1]
  BY <1>1, <1>2
<1>6. Head(s) = s[1] /\ s[1] \in T
  BY <1>1
<1> QED BY <1>1, <1>2, <1>3, <1>4, <1>5, <1>6

\* How the list may change when an event about a log x is delivered.
Takes(new, list, event) ==
    /\ Descending(new)
    /\ event.effect = "insert" =>
         \A row : In(new, row) <=> In(list, row) \/ row = event.row
    /\ event.effect = "update" =>
         \A row : In(new, row) <=> \/ In(list, row) /\ row.id # event.row.id
                                   \/ Has(list, event.row.id) /\ row = event.row
    /\ event.effect = "delete" =>
         \A row : In(new, row) <=> In(list, row) /\ row.id # event.row.id

\* An event brings the list in line, unless it enters below the end of a list
\* with more to load.
LEMMA EventApplied ==
  ASSUME NEW p, NEW list \in Seq(Row), NEW event \in Event, NEW more \in BOOLEAN,
         NEW events \in Seq(Event), Descending(list), FirstFits(events, p, list, more),
         MaxId \in Nat,
         events # << >>, event = Head(events), event.row.of = p
  PROVE  Takes(Applied(list, event), list, event)
<1>1. Numbered(Row) /\ event.row \in Row /\ event.row.id \in Int
  BY DEF Numbered, Row, Event
<1>2. event.effect = "insert" => ~Has(list, event.row.id)
  <2>1. /\ 1 \in DOMAIN events /\ events[1] = event
        /\ \A j \in DOMAIN events : ~(j < 1)
    BY TailIndex
  <2>2. event.effect = "insert" => About(events[1], p, event.row.id)
    BY <2>1 DEF About
  <2> QED BY <1>1, <2>1, <2>2 DEF FirstFits
<1>3. CASE event.effect = "insert"
  <2>1. Applied(list, event) = OnLogsInsert(list, event.row)
    BY <1>3 DEF Applied
  <2> QED BY <1>1, <1>2, <1>3, <2>1, InsertIs DEF Takes
<1>4. CASE event.effect = "update"
  <2>1. Applied(list, event) = OnLogsUpdate(list, event.row)
    BY <1>4 DEF Applied
  <2> QED BY <1>1, <1>4, <2>1, UpdateIs DEF Takes
<1>5. CASE event.effect = "delete"
  <2>1. Applied(list, event) = OnLogsDelete(list, event.row.id)
    BY <1>5 DEF Applied
  <2>2. PICK id \in Int : id = event.row.id
    BY <1>1
  <2>3. PICK out : out = OnLogsDelete(list, id)
    OBVIOUS
  <2>4. Descending(out) /\ \A row : In(out, row) <=> In(list, row) /\ row.id # id
    BY <1>1, <2>3, DeleteIs
  <2> QED BY <1>5, <2>1, <2>2, <2>3, <2>4 DEF Takes
<1>6. CASE event.effect = "none"
  <2>1. Applied(list, event) = list
    BY <1>6 DEF Applied
  <2> QED BY <1>6, <2>1 DEF Takes
<1> QED BY <1>3, <1>4, <1>5, <1>6 DEF Event

\* The events that are left fit what the first has made of the list.
LEMMA TailFollows ==
  ASSUME NEW p, NEW S, NEW list, NEW new, NEW more \in BOOLEAN, NEW events \in Seq(Event),
         events # << >>, Follows(events, p, S, list, more), MaxId \in Nat,
         \A row : In(list, row) => row.id \in Int,
         Descending(new),
         IF \E x \in Int : About(Head(events), p, x)
         THEN /\ Takes(new, list, Head(events))
              /\ Head(events).effect = "insert"
                   => ~Below(list, more, Head(events).row.id)
         ELSE new = list
  PROVE  Follows(Tail(events), p, S, new, more)
<1> DEFINE rest == Tail(events)
           event == Head(events)
<1>1. /\ rest \in Seq(Event) /\ 1 \in DOMAIN events /\ event = events[1] /\ event \in Event
      /\ \A i \in DOMAIN rest :
           i + 1 \in DOMAIN events /\ rest[i] = events[i + 1] /\ i \in Int /\ 1 < i + 1
      /\ \A i \in DOMAIN events : i \in Int /\ (i = 1 \/ (i - 1 \in DOMAIN rest /\ 1 < i))
  BY TailIndex
<1> HIDE DEF rest, event
<1>2. /\ event.row \in Row /\ event.row.id \in Int
      /\ event.effect \in {"insert", "update", "delete", "none"}
  BY <1>1 DEF Event, Row
<1>3. LastTells(rest, p, S)
  <2> SUFFICES ASSUME NEW i \in DOMAIN rest, NEW x \in Int, About(rest[i], p, x),
                      \A j \in DOMAIN rest : j > i => ~About(rest[j], p, x)
               PROVE  IF rest[i].effect = "delete" THEN ~Lists(S, x) ELSE rest[i].row \in S
    BY DEF LastTells
  <2>1. \A j \in DOMAIN events : j > i + 1 => ~About(events[j], p, x)
    <3> SUFFICES ASSUME NEW j \in DOMAIN events, j > i + 1 PROVE ~About(events[j], p, x)
      OBVIOUS
    <3>1. j - 1 \in DOMAIN rest /\ j - 1 > i /\ (j - 1) + 1 = j
      BY <1>1
    <3> QED BY <1>1, <3>1
  <2> QED BY <1>1, <2>1 DEF Follows, LastTells
<1>4. NextFits(rest, p)
  <2> SUFFICES ASSUME NEW i \in DOMAIN rest, NEW j \in DOMAIN rest, NEW x \in Int, i < j,
                      About(rest[i], p, x), About(rest[j], p, x),
                      \A k \in DOMAIN rest : i < k /\ k < j => ~About(rest[k], p, x)
               PROVE  rest[i].effect = "delete" <=> rest[j].effect = "insert"
    BY DEF NextFits
  <2>1. \A k \in DOMAIN events : i + 1 < k /\ k < j + 1 => ~About(events[k], p, x)
    <3> SUFFICES ASSUME NEW k \in DOMAIN events, i + 1 < k, k < j + 1
                 PROVE  ~About(events[k], p, x)
      OBVIOUS
    <3>1. k \in Int /\ i \in Int /\ j \in Int /\ 1 < i + 1
      BY <1>1
    <3>2. k # 1 /\ i < k - 1 /\ k - 1 < j /\ (k - 1) + 1 = k
      BY <3>1
    <3>3. k - 1 \in DOMAIN rest
      BY <1>1, <3>2
    <3> QED BY <1>1, <3>2, <3>3
  <2>2. NextFits(events, p)
    BY DEF Follows
  <2>3. PICK a, b : a = i + 1 /\ b = j + 1
    OBVIOUS
  <2>4. /\ a \in DOMAIN events /\ events[a] = rest[i] /\ b \in DOMAIN events
        /\ events[b] = rest[j] /\ a < b
    <3>1. \A k \in DOMAIN rest : k + 1 \in DOMAIN events /\ rest[k] = events[k + 1]
      BY <1>1
    <3>2. i \in Int /\ j \in Int
      BY <1>1
    <3>3. a \in DOMAIN events /\ events[a] = rest[i]
      BY <2>3, <3>1
    <3>4. b \in DOMAIN events /\ events[b] = rest[j]
      BY <2>3, <3>1
    <3> QED BY <2>3, <3>2, <3>3, <3>4
  <2>5. \A k \in DOMAIN events : a < k /\ k < b => ~About(events[k], p, x)
    BY <2>1, <2>3
  <2>6. events[a].effect = "delete" <=> events[b].effect = "insert"
    BY <2>2, <2>4, <2>5 DEF NextFits
  <2> QED BY <2>4, <2>6
\* What is said of a log x the first event is not about.
<1> DEFINE Same(x) == ~About(event, p, x)
<1>5. \A x \in Int : Same(x) /\ Unheard(rest, p, x) => Unheard(events, p, x)
  <2> SUFFICES ASSUME NEW x \in Int, Same(x), Unheard(rest, p, x), NEW i \in DOMAIN events
               PROVE  ~About(events[i], p, x)
    BY DEF Unheard
  <2>1. CASE i = 1
    BY <1>1, <2>1
  <2>2. CASE i - 1 \in DOMAIN rest /\ 1 < i
    <3>1. \A k \in DOMAIN rest : rest[k] = events[k + 1]
      BY <1>1
    <3>2. i \in Int
      BY <1>1
    <3>3. (i - 1) + 1 = i
      BY <3>2
    <3>4. events[i] = rest[i - 1]
      BY <2>2, <3>1, <3>3
    <3> QED BY <2>2, <3>4 DEF Unheard
  <2> QED BY <1>1, <2>1, <2>2
<1>6. \A x \in Int : \A row : Same(x) /\ row.id = x => (In(new, row) <=> In(list, row))
  <2>1. CASE \E x \in Int : About(event, p, x)
    <3>1. Takes(new, list, event) /\ event.effect # "none" /\ event.row.of = p
      BY <2>1 DEF About, event
    <3>2. ASSUME NEW x \in Int, Same(x) PROVE x # event.row.id
      BY <3>1, <3>2 DEF About
    <3> QED BY <1>2, <3>1, <3>2 DEF Takes
  <2>2. CASE ~\E x \in Int : About(event, p, x)
    BY <2>2 DEF event
  <2> QED BY <2>1, <2>2
<1>7. \A x \in Int : Same(x) => (Has(new, x) <=> Has(list, x))
  <2>1. \A l, x : Has(l, x) <=> \E row : In(l, row) /\ row.id = x
    BY DEF Has, In
  <2> QED BY <1>6, <2>1
<1>8. \A x \in Int : Same(x) /\ Below(list, more, x) => Below(new, more, x)
  <2> SUFFICES ASSUME NEW x \in Int, Same(x), Below(list, more, x), NEW y, Has(new, y)
               PROVE  x < y
    BY DEF Below
  <2>1. CASE \E z \in Int : About(event, p, z)
    <3>1. /\ Takes(new, list, event) /\ event.row.of = p /\ event.effect # "none"
          /\ event.effect = "insert" => ~Below(list, more, event.row.id)
      BY <2>1 DEF About, event
    <3>2. PICK row : In(new, row) /\ row.id = y
      BY DEF Has, In
    <3>3. CASE In(list, row)
      BY <3>2, <3>3 DEF Below, Has, In
    <3>4. CASE event.effect = "insert" /\ row = event.row
      <4>1. PICK z : Has(list, z) /\ ~(event.row.id < z)
        BY <3>1, <3>4 DEF Below
      <4>2. x < z
        BY <4>1 DEF Below
      <4>3. z \in Int
        BY <4>1 DEF Has, In
      <4> QED BY <1>2, <3>2, <3>4, <4>1, <4>2, <4>3
    <3>5. CASE event.effect = "update" /\ Has(list, event.row.id) /\ row = event.row
      BY <3>2, <3>5 DEF Below
    <3> QED BY <1>2, <3>1, <3>2, <3>3, <3>4, <3>5 DEF Takes
  <2>2. CASE ~\E z \in Int : About(event, p, z)
    BY <2>2 DEF event, Below
  <2> QED BY <2>1, <2>2
\* What is said of the log the first event is about.
<1>9. ASSUME NEW x \in Int, About(event, p, x)
      PROVE  /\ Takes(new, list, event) /\ event.row.id = x /\ event.row.of = p
             /\ event.effect \in {"insert", "update", "delete"}
             /\ event.effect = "update" => Has(list, x) \/ Below(list, more, x)
             /\ event.effect = "insert" => ~Has(list, x)
  <2>1. Takes(new, list, event)
    BY <1>9 DEF event
  <2>2. \A j \in DOMAIN events : ~(j < 1)
    BY <1>1
  <2>3. /\ event.effect = "update" => Has(list, x) \/ Below(list, more, x)
        /\ event.effect = "insert" => ~Has(list, x)
    BY <1>1, <1>9, <2>2 DEF Follows, FirstFits
  <2> QED BY <1>2, <1>9, <2>1, <2>3 DEF About
<1>10. ASSUME NEW x \in Int, About(event, p, x)
       PROVE  IF event.effect = "delete" THEN ~Has(new, x)
              ELSE /\ Has(new, x) \/ Below(new, more, x)
                   /\ \A row : In(new, row) /\ row.id = x => row = event.row
  <2>1. /\ Takes(new, list, event) /\ event.row.id = x
        /\ event.effect \in {"insert", "update", "delete"}
        /\ event.effect = "update" => Has(list, x) \/ Below(list, more, x)
        /\ event.effect = "insert" => ~Has(list, x)
    BY <1>9, <1>10
  <2>2. \A l, y : Has(l, y) <=> \E row : In(l, row) /\ row.id = y
    BY DEF Has, In
  <2>3. CASE event.effect = "delete"
    BY <2>1, <2>2, <2>3 DEF Takes
  <2>4. CASE event.effect = "insert"
    BY <2>1, <2>2, <2>4 DEF Takes
  <2>5. CASE event.effect = "update"
    <3>1. \A row : In(new, row) <=> \/ In(list, row) /\ row.id # x
                                    \/ Has(list, x) /\ row = event.row
      BY <2>1, <2>5 DEF Takes
    <3>2. \A y : Has(new, y) => Has(list, y)
      BY <2>1, <2>2, <3>1
    <3>3. Has(list, x) => Has(new, x)
      BY <2>1, <2>2, <3>1
    <3>4. Below(list, more, x) => Below(new, more, x)
      BY <3>2 DEF Below
    <3> QED BY <2>1, <2>5, <3>1, <3>3, <3>4
  <2> QED BY <2>1, <2>3, <2>4, <2>5
<1>11. QuietTells(rest, p, S, new, more)
  <2> SUFFICES ASSUME NEW x \in Int, Unheard(rest, p, x)
               PROVE  /\ \A row : In(new, row) /\ row.id = x => row \in S
                      /\ Lists(S, x) => Has(new, x) \/ Below(new, more, x)
    BY DEF QuietTells
  <2>1. CASE Same(x)
    <3>1. Unheard(events, p, x)
      BY <1>5, <2>1
    <3>2. /\ \A row : In(list, row) /\ row.id = x => row \in S
          /\ Lists(S, x) => Has(list, x) \/ Below(list, more, x)
      BY <3>1 DEF Follows, QuietTells
    <3> QED BY <1>6, <1>7, <1>8, <2>1, <3>2
  <2>2. CASE About(event, p, x)
    <3>1. ASSUME NEW j \in DOMAIN events, j > 1 PROVE ~About(events[j], p, x)
      <4>1. j - 1 \in DOMAIN rest /\ (j - 1) + 1 = j
        BY <1>1, <3>1
      <4> QED BY <1>1, <4>1 DEF Unheard
    <3>2. IF event.effect = "delete" THEN ~Lists(S, x) ELSE event.row \in S
      BY <1>1, <2>2, <3>1 DEF Follows, LastTells
    <3>3. IF event.effect = "delete" THEN ~Has(new, x)
          ELSE /\ Has(new, x) \/ Below(new, more, x)
               /\ \A row : In(new, row) /\ row.id = x => row = event.row
      BY <1>10, <2>2
    <3>4. \A row : In(new, row) /\ row.id = x => Has(new, x)
      BY DEF In, Has
    <3> QED BY <3>2, <3>3, <3>4
  <2> QED BY <2>1, <2>2
<1>12. FirstFits(rest, p, new, more)
  <2> SUFFICES ASSUME NEW i \in DOMAIN rest, NEW x \in Int, About(rest[i], p, x),
                      \A j \in DOMAIN rest : j < i => ~About(rest[j], p, x)
               PROVE  /\ rest[i].effect = "insert" => ~Has(new, x)
                      /\ rest[i].effect = "update" => Has(new, x) \/ Below(new, more, x)
    BY DEF FirstFits
  <2>1. ASSUME NEW j \in DOMAIN events, 1 < j, j < i + 1 PROVE ~About(events[j], p, x)
    <3>1. j - 1 \in DOMAIN rest /\ (j - 1) + 1 = j /\ j - 1 < i
      BY <1>1, <2>1
    <3> QED BY <1>1, <3>1
  <2>2. CASE Same(x)
    <3>1. \A j \in DOMAIN events : j < i + 1 => ~About(events[j], p, x)
      BY <1>1, <2>1, <2>2
    <3>2. /\ rest[i].effect = "insert" => ~Has(list, x)
          /\ rest[i].effect = "update" => Has(list, x) \/ Below(list, more, x)
      BY <1>1, <3>1 DEF Follows, FirstFits
    <3> QED BY <1>7, <1>8, <2>2, <3>2
  <2>3. CASE About(event, p, x)
    <3>1. \A k \in DOMAIN events : 1 < k /\ k < i + 1 => ~About(events[k], p, x)
      BY <2>1
    <3>2. event.effect = "delete" <=> rest[i].effect = "insert"
      BY <1>1, <2>3, <3>1 DEF Follows, NextFits
    <3>3. IF event.effect = "delete" THEN ~Has(new, x)
          ELSE Has(new, x) \/ Below(new, more, x)
      BY <1>10, <2>3
    <3> QED BY <3>2, <3>3
  <2> QED BY <2>2, <2>3
<1> QED BY <1>3, <1>4, <1>11, <1>12 DEF Follows, rest

\* A page of the rows of S below an exclusive largest id.
Page(S, max) ==
    LET found == Newest({row \in S : row.id < max})
    IN  SubSeq(found, 1, IF Len(found) < PageSize THEN Len(found) ELSE PageSize)

\* Stored logs: finitely many, with different ids.
Logs(S) == IsFiniteSet(S) /\ S \subseteq Row /\ \A a, b \in S : a.id = b.id => a = b

LEMMA PageIs ==
  ASSUME NEW S, Logs(S), NEW max \in Int
  PROVE  /\ Page(S, max) \in Seq(Row) /\ Descending(Page(S, max))
         /\ \A row : In(Page(S, max), row) => row \in S /\ row.id < max
         /\ \A row \in S : row.id < max =>
              \/ In(Page(S, max), row)
              \/ /\ Len(Page(S, max)) = PageSize
                 /\ \A y : Has(Page(S, max), y) => row.id < y
<1> DEFINE T == {row \in S : row.id < max}
           page == Page(S, max)
<1>1. PageSize \in Nat /\ MaxId \in Nat
  BY LogPageAssumption
<1>2. IsFiniteSet(T) /\ T \subseteq Row
  BY FS_Subset DEF Logs
<1>3. Distinct(T)
  BY <1>1 DEF Logs, Distinct, Row
<1>4. /\ page \in Seq(T) /\ Descending(page)
      /\ \A row \in T : \/ \E i \in DOMAIN page : page[i] = row
                        \/ /\ Len(page) = PageSize
                           /\ \A i \in DOMAIN page : row.id < page[i].id
  <2> HIDE DEF T
  <2> QED BY <1>1, <1>2, <1>3, FirstRows DEF Page, T
<1> HIDE DEF page
<1>5. DOMAIN page = 1 .. Len(page) /\ Len(page) \in Nat /\ \A i \in 1 .. Len(page) : page[i] \in T
  BY <1>4, LenProperties
<1>6. page \in Seq(Row)
  <2>1. \A i \in 1 .. Len(page) : page[i] \in Row
    BY <1>2, <1>5
  <2> QED BY <1>2, <1>4
<1>7. \A row : In(page, row) => row \in S /\ row.id < max
  BY <1>5 DEF In
<1>8. ASSUME NEW row \in S, row.id < max, ~In(page, row)
      PROVE  Len(page) = PageSize /\ \A y : Has(page, y) => row.id < y
  <2>1. ~\E i \in DOMAIN page : page[i] = row
    BY <1>8 DEF In
  <2>2. Len(page) = PageSize /\ \A i \in DOMAIN page : row.id < page[i].id
    BY <1>4, <1>8, <2>1
  <2> QED BY <2>2 DEF Has
<1> QED BY <1>4, <1>6, <1>7, <1>8 DEF page

\* A first page is right when no event about the view is on its way.
LEMMA FirstFollows ==
  ASSUME NEW p, NEW S, Logs(S), NEW events \in Seq(Event),
         \A x \in Int : Unheard(events, p, x)
  PROVE  Follows(events, p, S, Page(S, MaxId + 1), Len(Page(S, MaxId + 1)) = PageSize)
<1> DEFINE list == Page(S, MaxId + 1)
           more == Len(list) = PageSize
<1>1. MaxId \in Nat /\ MaxId + 1 \in Int
  BY LogPageAssumption
<1>2. /\ Descending(list) /\ list \in Seq(Row)
      /\ \A row : In(list, row) => row \in S
      /\ \A row \in S : row.id < MaxId + 1 =>
           In(list, row) \/ (more /\ \A y : Has(list, y) => row.id < y)
  BY <1>1, PageIs
<1>3. \A row \in S : row.id < MaxId + 1
  BY <1>1 DEF Logs, Row
<1> HIDE DEF list, more
<1>4. QuietTells(events, p, S, list, more)
  <2> SUFFICES ASSUME NEW x \in Int
               PROVE  /\ \A row : In(list, row) /\ row.id = x => row \in S
                      /\ Lists(S, x) => Has(list, x) \/ Below(list, more, x)
    BY DEF QuietTells
  <2>1. ASSUME NEW row \in S, row.id = x PROVE Has(list, x) \/ Below(list, more, x)
    <3>1. In(list, row) \/ (more /\ \A y : Has(list, y) => row.id < y)
      BY <1>2, <1>3
    <3> QED BY <2>1, <3>1 DEF In, Has, Below
  <2> QED BY <1>2, <2>1 DEF Lists
<1>5. LastTells(events, p, S) /\ FirstFits(events, p, list, more) /\ NextFits(events, p)
  BY DEF LastTells, FirstFits, NextFits, Unheard
<1> QED BY <1>2, <1>4, <1>5 DEF Follows, list, more

LEMMA RowsTyped ==
  ASSUME NEW list \in Seq(Row)
  PROVE  /\ Len(list) \in Nat /\ DOMAIN list = 1 .. Len(list)
         /\ \A i \in 1 .. Len(list) : list[i] \in Row /\ list[i].id \in 1 .. MaxId
                                      /\ list[i].id \in Int
         /\ list # << >> => Len(list) # 0
<1>1. MaxId \in Nat
  BY LogPageAssumption
<1>2. \A row \in Row : row.id \in 1 .. MaxId /\ row.id \in Int
  BY <1>1 DEF Row
<1>3. Len(list) \in Nat /\ DOMAIN list = 1 .. Len(list)
  BY LenProperties
<1>4. \A i \in 1 .. Len(list) : list[i] \in Row
  BY <1>3
<1>5. list # << >> => Len(list) # 0
  BY <1>3
<1> QED BY <1>2, <1>3, <1>4, <1>5

\* So is the list with the next page appended.
LEMMA MoreFollows ==
  ASSUME NEW p, NEW S, Logs(S), NEW events \in Seq(Event),
         \A x \in Int : Unheard(events, p, x),
         NEW list \in Seq(Row), NEW more, list # << >>, Follows(events, p, S, list, more),
         NEW max, max = list[Len(list)].id
  PROVE  Follows(events, p, S, Merged(list, Page(S, max)), Len(Page(S, max)) = PageSize)
<1> DEFINE page == Page(S, max)
           new == Merged(list, page)
           left == Len(page) = PageSize
<1>1. /\ MaxId \in Nat /\ Len(list) \in Nat /\ Len(list) # 0
      /\ DOMAIN list = 1 .. Len(list)
      /\ \A i \in 1 .. Len(list) : list[i] \in Row /\ list[i].id \in Int
  BY LogPageAssumption, RowsTyped
<1>2. max \in Int
  BY <1>1
<1>3. /\ page \in Seq(Row) /\ Descending(page)
      /\ \A row : In(page, row) => row \in S /\ row.id < max
      /\ \A row \in S : row.id < max =>
           \/ In(page, row)
           \/ left /\ \A y : Has(page, y) => row.id < y
  BY <1>2, PageIs
<1> HIDE DEF page, left
<1>4. /\ Len(page) \in Nat /\ DOMAIN page = 1 .. Len(page)
      /\ \A i \in 1 .. Len(page) : page[i] \in Row /\ page[i].id \in Int
  BY <1>3, RowsTyped
<1>5. \A i \in 1 .. Len(list) : max <= list[i].id
  <2> SUFFICES ASSUME NEW i \in 1 .. Len(list) PROVE max <= list[i].id
    OBVIOUS
  <2>1. i = Len(list) \/ i < Len(list)
    <3>1. \A n \in Nat : i \in 1 .. n => i = n \/ i < n
      OBVIOUS
    <3> QED BY <1>1, <3>1
  <2>2. i < Len(list) => list[i].id > list[Len(list)].id
    BY <1>1 DEF Follows, Descending
  <2>3. list[i].id \in Int
    BY <1>1
  <2> QED BY <1>2, <2>1, <2>2, <2>3
<1>6. \A y : Has(list, y) => max <= y
  BY <1>1, <1>5 DEF Has
<1>7. \A i \in 1 .. Len(page) : page[i].id < max
  BY <1>3, <1>4 DEF In
<1>8. \A k \in DOMAIN page : ~Has(list, page[k].id)
  BY <1>2, <1>4, <1>6, <1>7
<1>9. new \in Seq(Row) /\ Joins(new, list, page)
  BY <1>3, <1>8, MergedIs
<1> HIDE DEF new
<1>10. /\ Len(new) = Len(list) + Len(page) /\ DOMAIN new = 1 .. Len(list) + Len(page)
       /\ \A i \in 1 .. Len(list) : new[i] = list[i]
       /\ \A i \in 1 .. Len(page) : new[Len(list) + i] = page[i]
  BY <1>9 DEF Joins
<1>11. \A k \in DOMAIN new : k \in 1 .. Len(list) \/ \E i \in 1 .. Len(page) : k = Len(list) + i
  <2> SUFFICES ASSUME NEW k \in DOMAIN new, k \notin 1 .. Len(list)
               PROVE  \E i \in 1 .. Len(page) : k = Len(list) + i
    OBVIOUS
  <2>1. k - Len(list) \in 1 .. Len(page) /\ k = Len(list) + (k - Len(list))
    BY <1>1, <1>4, <1>10
  <2> QED BY <2>1
<1>12. \A row : In(new, row) <=> In(list, row) \/ In(page, row)
  <2>1. ASSUME NEW row, In(new, row) PROVE In(list, row) \/ In(page, row)
    BY <1>1, <1>4, <1>10, <1>11, <2>1 DEF In
  <2>2. ASSUME NEW row, In(list, row) PROVE In(new, row)
    <3>1. PICK i \in 1 .. Len(list) : list[i] = row
      BY <1>1, <2>2 DEF In
    <3>2. i \in DOMAIN new /\ new[i] = row
      BY <1>1, <1>4, <1>10, <3>1
    <3> QED BY <3>2 DEF In
  <2>3. ASSUME NEW row, In(page, row) PROVE In(new, row)
    <3>1. PICK i \in 1 .. Len(page) : page[i] = row
      BY <1>4, <2>3 DEF In
    <3>2. Len(list) + i \in DOMAIN new
      BY <1>1, <1>4, <1>10
    <3>3. new[Len(list) + i] = row
      BY <1>10, <3>1
    <3> QED BY <3>2, <3>3 DEF In
  <2> QED BY <2>1, <2>2, <2>3
<1>13. \A y : Has(new, y) <=> Has(list, y) \/ Has(page, y)
  <2>1. \A l, y : Has(l, y) <=> \E row : In(l, row) /\ row.id = y
    BY DEF Has, In
  <2> QED BY <1>12, <2>1
<1>14. Descending(new)
  <2> SUFFICES ASSUME NEW k \in DOMAIN new, NEW m \in DOMAIN new, k < m
               PROVE  new[k].id > new[m].id
    BY DEF Descending
  <2>1. CASE k \in 1 .. Len(list) /\ m \in 1 .. Len(list)
    BY <1>1, <1>10, <2>1 DEF Follows, Descending
  <2>2. CASE k \in 1 .. Len(list) /\ \E i \in 1 .. Len(page) : m = Len(list) + i
    <3>1. PICK i \in 1 .. Len(page) : m = Len(list) + i
      BY <2>2
    <3>2. new[k] = list[k] /\ new[m] = page[i]
      BY <1>10, <2>2, <3>1
    <3>3. max <= list[k].id /\ page[i].id < max /\ list[k].id \in Int /\ page[i].id \in Int
      BY <1>1, <1>4, <1>5, <1>7, <2>2
    <3> QED BY <1>2, <3>2, <3>3
  <2>3. CASE \E i \in 1 .. Len(page) : k = Len(list) + i
    <3>1. PICK i \in 1 .. Len(page) : k = Len(list) + i
      BY <2>3
    <3>2. m \notin 1 .. Len(list)
      BY <1>1, <1>10, <3>1
    <3>3. PICK j \in 1 .. Len(page) : m = Len(list) + j
      BY <1>11, <3>2
    <3>4. i < j
      BY <1>1, <3>1, <3>3
    <3>5. page[i].id > page[j].id
      BY <1>3, <1>4, <3>4 DEF Descending
    <3> QED BY <1>10, <3>1, <3>3, <3>5
  <2> QED BY <1>11, <2>1, <2>2, <2>3
<1>15. QuietTells(events, p, S, new, left)
  <2> SUFFICES ASSUME NEW x \in Int
               PROVE  /\ \A row : In(new, row) /\ row.id = x => row \in S
                      /\ Lists(S, x) => Has(new, x) \/ Below(new, left, x)
    BY DEF QuietTells
  <2>1. /\ \A row : In(list, row) /\ row.id = x => row \in S
        /\ Lists(S, x) => Has(list, x) \/ Below(list, more, x)
    BY DEF Follows, QuietTells
  <2>2. \A row : In(new, row) /\ row.id = x => row \in S
    BY <1>3, <1>12, <2>1
  <2>3. ASSUME NEW row \in S, row.id = x, ~Has(new, x) PROVE Below(new, left, x)
    <3>1. Below(list, more, x)
      BY <1>13, <2>1, <2>3 DEF Lists
    <3>2. Has(list, max)
      BY <1>1 DEF Has
    <3>3. row.id < max
      BY <2>3, <3>1, <3>2 DEF Below
    <3>4. left /\ \A y : Has(page, y) => row.id < y
      <4>1. ~In(page, row)
        BY <1>13, <2>3 DEF In, Has
      <4> QED BY <1>3, <3>3, <4>1
    <3> QED BY <1>13, <2>3, <3>1, <3>4 DEF Below
  <2> QED BY <2>2, <2>3 DEF Lists
<1>16. LastTells(events, p, S) /\ FirstFits(events, p, new, left) /\ NextFits(events, p)
  BY DEF LastTells, FirstFits, NextFits, Unheard
<1> QED BY <1>14, <1>15, <1>16 DEF Follows, new, left, page

\* Events of another view report nothing.
LEMMA OtherReports ==
  ASSUME NEW es, NEW p, NEW S, \A i \in DOMAIN es : es[i].row.of # p
  PROVE  Reports(es, p, S, S)
BY DEF Reports, About

\* The events a changed log and removed logs are told with.
ChangeEvents(event) ==
    IF event.effect = "none" /\ ~event.update THEN << >> ELSE <<event>>

RemovalEvents(G) ==
    LET seen == Newest(G)
    IN  [i \in DOMAIN seen |-> [effect |-> "delete", row |-> seen[i], update |-> FALSE]]

\* The event tells how the view came from S to R.
Tells(event, S, R) ==
    /\ event.effect = ViewEffect(Lists(S, event.row.id), Lists(R, event.row.id))
    /\ \A r : r.id # event.row.id => (r \in S <=> r \in R)
    /\ Lists(R, event.row.id) => event.row \in R

\* A changed log is reported.
LEMMA ChangeReports ==
  ASSUME NEW p, NEW S, NEW R, NEW event \in Event, event.row.of = p, Tells(event, S, R)
  PROVE  /\ ChangeEvents(event) \in Seq(Event)
         /\ \A i \in DOMAIN ChangeEvents(event) : ChangeEvents(event)[i] = event
         /\ Reports(ChangeEvents(event), p, S, R)
<1> DEFINE es == ChangeEvents(event)
           row == event.row
<1>0. /\ event.effect = ViewEffect(Lists(S, row.id), Lists(R, row.id))
      /\ \A r : r.id # row.id => (r \in S <=> r \in R)
      /\ Lists(R, row.id) => row \in R
  BY DEF Tells
<1>1. /\ es \in Seq(Event)
      /\ \A i \in DOMAIN es : es[i] = event /\ i = 1
      /\ event.effect # "none" => 1 \in DOMAIN es /\ es[1] = event
  BY DEF ChangeEvents
<1> HIDE DEF es
<1>3. \A i \in DOMAIN es, x \in Int : About(es[i], p, x) =>
         /\ es[i].effect = ViewEffect(Lists(S, x), Lists(R, x))
         /\ es[i].effect # "delete" => es[i].row \in R
  <2> SUFFICES ASSUME NEW i \in DOMAIN es, NEW x \in Int, About(es[i], p, x)
               PROVE  /\ es[i].effect = ViewEffect(Lists(S, x), Lists(R, x))
                      /\ es[i].effect # "delete" => es[i].row \in R
    OBVIOUS
  <2>1. es[i] = event /\ x = row.id /\ event.effect # "none"
    BY <1>1 DEF About
  <2>2. event.effect # "delete" => row \in R
    BY <1>0, <2>1 DEF ViewEffect
  <2>3. event.effect = ViewEffect(Lists(S, x), Lists(R, x))
    BY <1>0, <2>1
  <2> QED BY <2>1, <2>2, <2>3
<1>4. \A i, j \in DOMAIN es, x \in Int : About(es[i], p, x) /\ About(es[j], p, x) => i = j
  BY <1>1
<1>5. ASSUME NEW x \in Int, Unheard(es, p, x), NEW r, r.id = x PROVE r \in S <=> r \in R
  <2>1. CASE x # row.id
    BY <1>0, <1>5, <2>1
  <2>2. CASE x = row.id
    <3>1. event.effect = "none"
      <4>1. ASSUME event.effect # "none" PROVE FALSE
        <5>1. About(es[1], p, x) /\ 1 \in DOMAIN es
          BY <1>1, <2>2, <4>1 DEF About
        <5> QED BY <1>5, <5>1 DEF Unheard
      <4> QED BY <4>1
    <3>2. ~Lists(S, row.id) /\ ~Lists(R, row.id)
      BY <1>0, <3>1 DEF ViewEffect
    <3> QED BY <1>5, <2>2, <3>2 DEF Lists
  <2> QED BY <2>1, <2>2
<1>6. Reports(es, p, S, R)
  BY <1>3, <1>4, <1>5 DEF Reports
<1> QED BY <1>1, <1>6 DEF es

\* Removed logs are reported, each once.
LEMMA RemovalReports ==
  ASSUME NEW p, NEW S, Logs(S), \A row \in S : row.of = p, NEW G, G \subseteq S,
         NEW R, \A r : r \in R <=> r \in S /\ r \notin G
  PROVE  /\ RemovalEvents(G) \in Seq(Event)
         /\ \A i \in DOMAIN RemovalEvents(G) : RemovalEvents(G)[i].row.of = p
         /\ Reports(RemovalEvents(G), p, S, R)
<1> DEFINE seen == Newest(G)
           es == RemovalEvents(G)
<1>1. MaxId \in Nat /\ IsFiniteSet(G) /\ G \subseteq Row
      /\ \A a, b \in S : a.id = b.id => a = b
  BY LogPageAssumption, FS_Subset DEF Logs
<1>2. Distinct(G)
  BY <1>1 DEF Distinct, Row
<1>3. /\ seen \in Seq(G) /\ Len(seen) \in Nat /\ DOMAIN seen = 1 .. Len(seen)
      /\ \A row \in G : \E i \in DOMAIN seen : seen[i] = row
      /\ Descending(seen)
  <2>1. /\ seen \in Seq(G)
        /\ \A row \in G : \E i \in DOMAIN seen : seen[i] = row
        /\ Descending(seen)
    BY <1>1, <1>2, NewestSorts
  <2> QED BY <2>1, LenProperties
<1>4. es = [i \in 1 .. Len(seen) |->
              [effect |-> "delete", row |-> seen[i], update |-> FALSE]]
  BY <1>3 DEF RemovalEvents
<1> HIDE DEF seen, es
<1>5. \A i \in 1 .. Len(seen) : seen[i] \in G
  BY <1>3
<1>6. \A row \in Row : [effect |-> "delete", row |-> row, update |-> FALSE] \in Event
  BY DEF Event
<1>7. /\ DOMAIN es = 1 .. Len(seen)
      /\ \A i \in 1 .. Len(seen) : es[i].effect = "delete" /\ es[i].row = seen[i]
  BY <1>4
<1>8. es \in Seq(Event)
  <2>1. \A i \in 1 .. Len(seen) : es[i] \in Event
    BY <1>1, <1>4, <1>5, <1>6
  <2>2. es = [i \in 1 .. Len(seen) |-> es[i]]
    BY <1>4
  <2>3. es \in [1 .. Len(seen) -> Event]
    BY <2>1, <2>2
  <2> QED BY <1>3, <2>3
<1>9. \A i \in DOMAIN es : es[i].row \in G /\ es[i].row.of = p
  BY <1>5, <1>7
<1>10. \A i \in DOMAIN es, x \in Int : About(es[i], p, x) =>
         /\ es[i].effect = ViewEffect(Lists(S, x), Lists(R, x))
         /\ es[i].effect # "delete" => es[i].row \in R
  <2> SUFFICES ASSUME NEW i \in DOMAIN es, NEW x \in Int, About(es[i], p, x)
               PROVE  es[i].effect = ViewEffect(Lists(S, x), Lists(R, x))
    BY <1>7
  <2>1. es[i].row \in G /\ es[i].row.id = x
    BY <1>9 DEF About
  <2>2. Lists(S, x)
    BY <2>1 DEF Lists
  <2>3. ~Lists(R, x)
    BY <1>1, <2>1 DEF Lists
  <2> QED BY <1>7, <2>2, <2>3 DEF ViewEffect
<1>11. \A i, j \in DOMAIN es, x \in Int : About(es[i], p, x) /\ About(es[j], p, x) => i = j
  <2> SUFFICES ASSUME NEW i \in DOMAIN es, NEW j \in DOMAIN es, es[i].row.id = es[j].row.id
               PROVE  i = j
    BY DEF About
  <2>1. seen[i].id = seen[j].id /\ seen[i].id \in Int /\ i \in Int /\ j \in Int
    BY <1>1, <1>3, <1>5, <1>7 DEF Row
  <2>2. (i < j => seen[i].id > seen[j].id) /\ (j < i => seen[j].id > seen[i].id)
    BY <1>3, <1>7 DEF Descending
  <2> QED BY <2>1, <2>2
<1>12. ASSUME NEW x \in Int, Unheard(es, p, x), NEW r, r.id = x PROVE r \in S <=> r \in R
  <2>1. ASSUME r \in G PROVE FALSE
    <3>1. PICK i \in 1 .. Len(seen) : seen[i] = r
      BY <1>3, <2>1
    <3>2. About(es[i], p, x)
      BY <1>7, <1>9, <1>12, <3>1 DEF About
    <3> QED BY <1>7, <1>12, <3>2 DEF Unheard
  <2> QED BY <2>1
<1> QED BY <1>8, <1>9, <1>10, <1>11, <1>12 DEF Reports, es

-----------------------------------------------------------------------------
(* The steps of both builds.                                                *)

Users ==
    \/ LoadMore \/ SaveFilter \/ RemoveFilter \/ ApplyPresetFilter \/ ClearLogs
    \/ Resume \/ Pause \/ SelectRow \/ \E p \in Project : SwitchProject(p)

\* The desktop page drops a page or the end of a save, or empties its list.
PageDropped(r) ==
    /\ r \in pending /\ r.kind = "more" /\ loadingMore' = FALSE
    /\ pending' = pending \ {r}
    /\ UNCHANGED <<serverVars, rows, rowsOf, hasMore, selected, trusted, chipVars,
                   placeVars, channel, joined, paused>>

SaveDropped(r) ==
    /\ r \in pending /\ r.kind \in FilterKind \ {"preset"} /\ r.of # project
    /\ filterSaving' = FALSE
    /\ pending' = pending \ {r}
    /\ UNCHANGED <<serverVars, listVars, chips, chipsTrusted, placeVars, channel,
                   joined, paused>>

Emptied(r) ==
    /\ Done(r, "clear") /\ trusted' = FALSE
    /\ rows' = << >> /\ rowsOf' = NoProject /\ selected' = Nothing /\ hasMore' = FALSE
    /\ UNCHANGED loadingMore

Answers(r) ==
    \/ ViewsArrive(r) \/ FirstArrives(r) \/ MoreArrives(r) \/ PageDropped(r)
    \/ FilterSaved(r) \/ SaveDropped(r) \/ PresetSaved(r) \/ LogsCleared(r) \/ Emptied(r)

\* Every step is one of these.
LEMMA StepIs ==
  ASSUME Next
  PROVE  \/ \E p \in Project : LogArrives(p) \/ LogUpdated(p) \/ LogTrimmed(p)
         \/ Users \/ Connect
         \/ \E r \in pending : Fails(r) \/ ServeQuery(r) \/ ServeFilter(r) \/ ServeClear(r)
                                \/ Answers(r)
         \/ SocketEvent \/ IpcEvent
<1>1. CASE Change
  BY <1>1 DEF Change
<1>2. ASSUME NEW kind \in {"fetch", "save", "switch", "select"},
             WebUser(kind) \/ DesktopUser(kind)
      PROVE  Users
  BY <1>2 DEF WebUser, DesktopUser, Users, DesktopLoadMore, DesktopApplyPresetFilter,
              DesktopClearLogs, DesktopResume, DesktopSaveFilter, DesktopRemoveFilter,
              DesktopSwitchProject, DesktopSelectRow, DesktopPause
<1>3. ASSUME NEW r \in pending, Ends(r)
      PROVE  ServeQuery(r) \/ ServeFilter(r) \/ ServeClear(r) \/ Answers(r)
  <2>1. CASE Handle(r)
    BY <2>1 DEF Handle, IpcListLogViewLogs, IpcChangeLogFilter, IpcDeleteAllRequestLogs, Serve
  <2>2. CASE Arrives(r)
    BY <2>2 DEF Arrives, Answers
  <2>3. CASE DesktopArrives(r)
    <3>1. DesktopMoreArrives(r) => MoreArrives(r) \/ PageDropped(r)
      BY DEF DesktopMoreArrives, PageDropped
    <3>2. DesktopFilterSaved(r) => FilterSaved(r) \/ SaveDropped(r)
      BY DEF DesktopFilterSaved, SaveDropped, IsCurrentProject
    <3>3. DesktopLogsCleared(r) => Emptied(r)
      BY DEF DesktopLogsCleared, Emptied, Show
    <3> QED BY <2>3, <3>1, <3>2, <3>3
              DEF DesktopArrives, DesktopViewsArrive, DesktopFirstArrives, Answers
  <2> QED BY <1>3, <2>1, <2>2, <2>3 DEF Ends
<1> QED BY <1>1, <1>2, <1>3 DEF Next

-----------------------------------------------------------------------------
(* Types.                                                                   *)

\* The stored logs of a project have its name and differ in their ids.
LogOk ==
    \A p \in Project :
        /\ Logs(log[p])
        /\ \A row \in log[p] : row.of = p
        /\ listed[p] \subseteq {row.id : row \in log[p]}

Requests(S) ==
    /\ S \subseteq Request
    /\ \A r \in S : r.kind = "create" => r.filter \in FilterId

Typed == TypeOk /\ LogOk /\ Requests(pending)

\* What a view lists.
LEMMA ListedLogs ==
  ASSUME Typed, NEW p \in Project
  PROVE  /\ Logs(Listed(p)) /\ \A row \in Listed(p) : row.of = p
         /\ \A row \in log[p] : Lists(Listed(p), row.id) <=> row.id \in listed[p]
         /\ \A max : LogViewLogs(p, max) = Page(Listed(p), max)
         /\ \A x : Lists(Listed(p), x) <=> x \in listed[p]
<1>1. /\ IsFiniteSet(log[p]) /\ log[p] \subseteq Row
      /\ \A a, b \in log[p] : a.id = b.id => a = b
      /\ \A row \in log[p] : row.of = p
      /\ listed[p] \subseteq {row.id : row \in log[p]}
  BY DEF Typed, LogOk, Logs
<1>2. IsFiniteSet(Listed(p))
  BY <1>1, FS_Subset DEF Listed
<1>3. Logs(Listed(p)) /\ \A row \in Listed(p) : row.of = p
  BY <1>1, <1>2 DEF Logs, Listed
<1>4. \A x : Lists(Listed(p), x) <=> x \in listed[p]
  BY <1>1 DEF Lists, Listed
<1>5. \A max : LogViewLogs(p, max) = Page(Listed(p), max)
  BY DEF LogViewLogs, Page
<1> QED BY <1>3, <1>4, <1>5

\* Marking the answers of a project as spoilt.
Mark(p, r) == IF r.of = p THEN [r EXCEPT !.clean = FALSE] ELSE r

LEMMA MarkIs ==
  ASSUME NEW r \in Request, NEW p
  PROVE  /\ Mark(p, r) \in Request
         /\ Mark(p, r).kind = r.kind /\ Mark(p, r).of = r.of /\ Mark(p, r).max = r.max
         /\ Mark(p, r).filter = r.filter /\ Mark(p, r).answered = r.answered
         /\ Mark(p, r).rows = r.rows /\ Mark(p, r).chips = r.chips
         /\ Mark(p, r).clean => Mark(p, r) = r /\ r.of # p
<1>1. [r EXCEPT !.clean = FALSE].clean = FALSE
  BY DEF Request
<1>2. [r EXCEPT !.clean = FALSE] \in Request
  BY DEF Request
<1> QED BY <1>1, <1>2 DEF Mark, Request

LEMMA SpoilIs ==
  ASSUME NEW S, NEW p
  PROVE  Spoil(p, S) = {Mark(p, r) : r \in S}
BY DEF Spoil, Mark

LEMMA SpoilTyped ==
  ASSUME NEW S, Requests(S), NEW p
  PROVE  Requests(Spoil(p, S))
<1>1. \A r \in S : r \in Request /\ (r.kind = "create" => r.filter \in FilterId)
  BY DEF Requests
<1>2. \A r \in S : Mark(p, r) \in Request /\ Mark(p, r).kind = r.kind
                   /\ Mark(p, r).filter = r.filter
  BY <1>1, MarkIs
<1> QED BY <1>1, <1>2, SpoilIs DEF Requests

\* q is the request that Ask makes.
Asked(q, kind, of, max, filter, others) ==
    /\ q \in Request /\ q.kind = kind /\ q.of = of /\ q.max = max /\ q.filter = filter
    /\ ~q.answered /\ q.clean = Quiet(kind, others)

LEMMA AskTyped ==
  ASSUME NEW kind \in {"views", "first", "more", "clear"} \cup FilterKind,
         NEW of \in Project, NEW max \in 1 .. MaxId + 1,
         NEW filter \in FilterId \cup {NoFilter}, NEW others
  PROVE  Asked(Ask(kind, of, max, filter, others), kind, of, max, filter, others)
<1>1. \A b \in BOOLEAN :
        [kind |-> kind, of |-> of, max |-> max, filter |-> filter, clean |-> b,
         answered |-> FALSE, rows |-> <<>>, chips |-> {}] \in Request
  BY DEF Request
<1>2. Quiet(kind, others) \in BOOLEAN
  BY DEF Quiet
<1>3. Ask(kind, of, max, filter, others) \in Request
  BY <1>1, <1>2, Zenon DEF Ask
<1> QED BY <1>3 DEF Ask, Asked

\* A started query is a new one, if there is any.
LEMMA StartIs ==
  ASSUME NEW kind \in {"views", "first"}, NEW of \in Project, NEW others, Requests(others)
  PROVE  /\ Requests(Start(kind, of, others))
         /\ others \subseteq Start(kind, of, others)
         /\ \A r \in Start(kind, of, others) : r \notin others =>
              /\ r.kind = kind /\ r.of = of /\ r.max = MaxId + 1 /\ ~r.answered
              /\ r.clean = Quiet(kind, others)
         /\ \A q, r \in Start(kind, of, others) : q \notin others /\ r \notin others => q = r
<1>1. MaxId + 1 \in 1 .. MaxId + 1
  BY LogPageAssumption
<1>2. PICK q : q = AskQuery(kind, of, others)
  OBVIOUS
<1>3. /\ q \in Request /\ q.kind = kind /\ q.of = of /\ q.max = MaxId + 1 /\ ~q.answered
      /\ q.clean = Quiet(kind, others)
  <2>1. kind \in {"views", "first", "more", "clear"} \cup FilterKind
    OBVIOUS
  <2>2. NoFilter \in FilterId \cup {NoFilter}
    OBVIOUS
  <2>3. Asked(Ask(kind, of, MaxId + 1, NoFilter, others),
              kind, of, MaxId + 1, NoFilter, others)
    BY <1>1, <2>1, <2>2, AskTyped
  <2> QED BY <1>2, <2>3 DEF AskQuery, Asked
<1>4. Start(kind, of, others) = others \/ Start(kind, of, others) = others \cup {q}
  BY <1>2 DEF Start
<1> QED BY <1>3, <1>4 DEF Requests

LEMMA RefetchIs ==
  ASSUME project \in Project, NEW others, Requests(others)
  PROVE  /\ Requests(Refetch(others))
         /\ others \subseteq Refetch(others)
         /\ \A r \in Refetch(others) : r \notin others =>
              /\ r.kind = "first" /\ r.of = project /\ r.max = MaxId + 1 /\ ~r.answered
              /\ r.clean = Quiet("first", others)
         /\ \A q, r \in Refetch(others) : q \notin others /\ r \notin others => q = r
<1>1. MaxId + 1 \in 1 .. MaxId + 1
  BY LogPageAssumption
<1>2. PICK q : q = AskQuery("first", project, others)
  OBVIOUS
<1>3. /\ q \in Request /\ q.kind = "first" /\ q.of = project /\ q.max = MaxId + 1
      /\ ~q.answered /\ q.clean = Quiet("first", others)
  <2>1. Asked(Ask("first", project, MaxId + 1, NoFilter, others),
              "first", project, MaxId + 1, NoFilter, others)
    BY <1>1, AskTyped
  <2> QED BY <1>2, <2>1 DEF AskQuery, Asked
<1>4. \/ Refetch(others) = others \/ Refetch(others) = others \cup {q}
      \/ Refetch(others) = Start("first", project, others)
  BY <1>2 DEF Refetch
<1>5. PICK S : S = Start("first", project, others)
  OBVIOUS
<1>6. /\ Requests(S) /\ others \subseteq S
      /\ \A r \in S : r \notin others =>
              /\ r.kind = "first" /\ r.of = project /\ r.max = MaxId + 1 /\ ~r.answered
              /\ r.clean = Quiet("first", others)
      /\ \A p, r \in S : p \notin others /\ r \notin others => p = r
  BY <1>5, StartIs
<1> QED BY <1>3, <1>4, <1>5, <1>6 DEF Requests

\* The logs of p change, and the page hears of it if it hears of p.
Told(p) ==
    /\ log' \in [Project -> SUBSET Row] /\ listed' \in [Project -> SUBSET (1 .. MaxId)]
    /\ LogOk'
    /\ \A q \in Project : q # p => Listed(q)' = Listed(q)
    /\ \E es \in Seq(Event) :
         /\ \A i \in DOMAIN es : es[i].row.of = p
         /\ Reports(es, p, Listed(p), Listed(p)')
         /\ channel' = IF Heard(p) THEN channel \o es ELSE channel

LEMMA ChangeTold ==
  ASSUME Typed, NEW p \in Project, NEW row \in Row, row.of = p, NEW is \in BOOLEAN,
         NEW update \in BOOLEAN, LogChange(p, row, is, update)
  PROVE  Told(p)
<1>1. /\ log \in [Project -> SUBSET Row] /\ listed \in [Project -> SUBSET (1 .. MaxId)]
      /\ row.id \in 1 .. MaxId
  BY DEF Typed, TypeOk, Row
<1>2. /\ log' = [log EXCEPT ![p] = {r \in log[p] : r.id # row.id} \cup {row}]
      /\ listed' = [listed EXCEPT ![p] = IF is THEN listed[p] \cup {row.id}
                                         ELSE listed[p] \ {row.id}]
  BY DEF LogChange
<1> DEFINE kept == {r \in log[p] : r.id # row.id}
<1>3. /\ log'[p] = kept \cup {row} /\ listed'[p] \subseteq listed[p] \cup {row.id}
      /\ \A x : x \in listed'[p] <=> (x \in listed[p] /\ x # row.id) \/ (is /\ x = row.id)
      /\ \A q \in Project : q # p => log'[q] = log[q] /\ listed'[q] = listed[q]
  BY <1>1, <1>2
<1>4. log' \in [Project -> SUBSET Row] /\ listed' \in [Project -> SUBSET (1 .. MaxId)]
  <2>1. kept \cup {row} \in SUBSET Row
    BY <1>1
  <2>2. (IF is THEN listed[p] \cup {row.id} ELSE listed[p] \ {row.id})
           \in SUBSET (1 .. MaxId)
    BY <1>1
  <2>3. log' \in [Project -> SUBSET Row]
    BY <1>1, <1>2, <2>1
  <2>4. listed' \in [Project -> SUBSET (1 .. MaxId)]
    BY <1>1, <1>2, <2>2
  <2> QED BY <2>3, <2>4
<1>5. \A q \in Project : /\ Logs(log[q]) /\ \A r \in log[q] : r.of = q
                         /\ listed[q] \subseteq {r.id : r \in log[q]}
  BY DEF Typed, LogOk
<1>6. Logs(log'[p]) /\ (\A r \in log'[p] : r.of = p)
      /\ listed'[p] \subseteq {r.id : r \in log'[p]}
  <2>1. /\ IsFiniteSet(log[p]) /\ log[p] \subseteq Row
        /\ \A a, b \in log[p] : a.id = b.id => a = b
    BY <1>5 DEF Logs
  <2>2. IsFiniteSet(kept)
    BY <2>1, FS_Subset
  <2>3. IsFiniteSet(kept \cup {row})
    BY <2>2, FS_AddElement
  <2>4. Logs(log'[p])
    BY <1>3, <2>1, <2>3 DEF Logs
  <2>5. \A r \in log'[p] : r.of = p
    BY <1>3, <1>5
  <2>6. listed'[p] \subseteq {r.id : r \in log'[p]}
    BY <1>3, <1>5
  <2> QED BY <2>4, <2>5, <2>6
<1>7. LogOk'
  <2>1. ASSUME NEW q \in Project
        PROVE  /\ Logs(log'[q]) /\ \A r \in log'[q] : r.of = q
               /\ listed'[q] \subseteq {r.id : r \in log'[q]}
    <3>1. CASE q = p
      BY <1>6, <3>1
    <3>2. CASE q # p
      BY <1>3, <1>5, <3>2
    <3> QED BY <3>1, <3>2
  <2> QED BY <2>1 DEF LogOk
<1>8. \A q \in Project : q # p => Listed(q)' = Listed(q)
  BY <1>3 DEF Listed
<1> DEFINE event == [effect |-> ViewEffect(row.id \in listed[p], is), row |-> row,
                     update |-> update /\ Selected(row)]
<1>9. event \in Event
  <2>1. ViewEffect(row.id \in listed[p], is) \in {"insert", "update", "delete", "none"}
    BY DEF ViewEffect
  <2>2. (update /\ Selected(row)) \in BOOLEAN
    OBVIOUS
  <2> QED BY <2>1, <2>2, Zenon DEF Event
<1>10. /\ event.row = row
       /\ event.effect = ViewEffect(Lists(Listed(p), row.id), is)
  <2>1. Lists(Listed(p), row.id) <=> row.id \in listed[p]
    BY ListedLogs
  <2>2. event.effect = ViewEffect(row.id \in listed[p], is)
    OBVIOUS
  <2> QED BY <2>1, <2>2 DEF ViewEffect
<1>11. channel' = IF Heard(p) THEN channel \o ChangeEvents(event) ELSE channel
  BY DEF LogChange, LogEvents, ChangeEvents
<1> HIDE DEF event
<1>12. ASSUME NEW r PROVE r \in Listed(p)' <=> (r \in Listed(p) /\ r.id # row.id) \/ (is /\ r = row)
  <2>1. r \in Listed(p)' <=> r \in log'[p] /\ r.id \in listed'[p]
    BY DEF Listed
  <2>2. r \in Listed(p) <=> r \in log[p] /\ r.id \in listed[p]
    BY DEF Listed
  <2> QED BY <1>3, <2>1, <2>2
<1>13. PICK R : R = Listed(p)'
  OBVIOUS
<1>14. \A r : r \in R <=> (r \in Listed(p) /\ r.id # row.id) \/ (is /\ r = row)
  BY <1>12, <1>13
<1>15. PICK S : S = Listed(p)
  OBVIOUS
<1>16. PICK e \in Event : e = event
  BY <1>9
<1>17. Lists(R, row.id) <=> is
  BY <1>14 DEF Lists
<1>18. e.row = row /\ Tells(e, S, R)
  <2>1. e.row = row
    BY <1>10, <1>16
  <2>2. e.effect = ViewEffect(Lists(S, row.id), Lists(R, row.id))
    BY <1>10, <1>15, <1>16, <1>17 DEF ViewEffect
  <2>3. \A r : r.id # row.id => (r \in S <=> r \in R)
    BY <1>14, <1>15
  <2>4. Lists(R, row.id) => row \in R
    BY <1>14, <1>17
  <2> QED BY <2>1, <2>2, <2>3, <2>4 DEF Tells
<1>19. /\ ChangeEvents(e) \in Seq(Event)
       /\ \A i \in DOMAIN ChangeEvents(e) : ChangeEvents(e)[i] = e
       /\ Reports(ChangeEvents(e), p, S, R)
  BY <1>18, ChangeReports
<1> QED BY <1>4, <1>7, <1>8, <1>11, <1>13, <1>15, <1>16, <1>18, <1>19 DEF Told

LEMMA RemovalTold ==
  ASSUME Typed, NEW p \in Project, NEW gone, gone \subseteq log[p], LogsRemoved(p, gone)
  PROVE  Told(p)
<1>1. log \in [Project -> SUBSET Row] /\ listed \in [Project -> SUBSET (1 .. MaxId)]
  BY DEF Typed, TypeOk
<1>2. /\ log' = [log EXCEPT ![p] = log[p] \ gone]
      /\ listed' = [listed EXCEPT ![p] = listed[p] \ {row.id : row \in gone}]
  BY DEF LogsRemoved
<1>3. /\ log'[p] = log[p] \ gone /\ listed'[p] = listed[p] \ {row.id : row \in gone}
      /\ \A q \in Project : q # p => log'[q] = log[q] /\ listed'[q] = listed[q]
  BY <1>1, <1>2
<1>4. log' \in [Project -> SUBSET Row] /\ listed' \in [Project -> SUBSET (1 .. MaxId)]
  <2>1. log[p] \ gone \in SUBSET Row
    BY <1>1
  <2>2. listed[p] \ {row.id : row \in gone} \in SUBSET (1 .. MaxId)
    BY <1>1
  <2>3. log' \in [Project -> SUBSET Row]
    BY <1>1, <1>2, <2>1
  <2>4. listed' \in [Project -> SUBSET (1 .. MaxId)]
    BY <1>1, <1>2, <2>2
  <2> QED BY <2>3, <2>4
<1>5. \A q \in Project : /\ Logs(log[q]) /\ \A r \in log[q] : r.of = q
                         /\ listed[q] \subseteq {r.id : r \in log[q]}
  BY DEF Typed, LogOk
<1>6. Logs(log'[p]) /\ (\A r \in log'[p] : r.of = p)
      /\ listed'[p] \subseteq {r.id : r \in log'[p]}
  <2>1. /\ IsFiniteSet(log[p]) /\ log[p] \subseteq Row
        /\ \A a, b \in log[p] : a.id = b.id => a = b
    BY <1>5 DEF Logs
  <2>2. IsFiniteSet(log[p] \ gone)
    BY <2>1, FS_Subset
  <2>3. Logs(log'[p])
    BY <1>3, <2>1, <2>2 DEF Logs
  <2> QED BY <1>3, <1>5, <2>3
<1>7. LogOk'
  <2>1. ASSUME NEW q \in Project
        PROVE  /\ Logs(log'[q]) /\ \A r \in log'[q] : r.of = q
               /\ listed'[q] \subseteq {r.id : r \in log'[q]}
    <3>1. CASE q = p
      BY <1>6, <3>1
    <3>2. CASE q # p
      BY <1>3, <1>5, <3>2
    <3> QED BY <3>1, <3>2
  <2> QED BY <2>1 DEF LogOk
<1>8. \A q \in Project : q # p => Listed(q)' = Listed(q)
  BY <1>3 DEF Listed
<1> DEFINE G == {row \in gone : row.id \in listed[p]}
<1>9. channel' = IF Heard(p) THEN channel \o RemovalEvents(G) ELSE channel
  BY DEF LogsRemoved, LogEvents, RemovalEvents
<1>10. G \subseteq Listed(p)
  BY DEF Listed
<1>11. \A a, b \in log[p] : a.id = b.id => a = b
  BY <1>5 DEF Logs
<1>12. ASSUME NEW r PROVE r \in Listed(p)' <=> r \in Listed(p) /\ r \notin G
  <2>1. r \in Listed(p)' <=> r \in log'[p] /\ r.id \in listed'[p]
    BY DEF Listed
  <2>2. r \in Listed(p) <=> r \in log[p] /\ r.id \in listed[p]
    BY DEF Listed
  <2>3. r \in log[p] /\ r \notin gone => r.id \notin {row.id : row \in gone}
    BY <1>11
  <2> QED BY <1>3, <2>1, <2>2, <2>3
<1> HIDE DEF G
<1>13. PICK R : R = Listed(p)'
  OBVIOUS
<1>14. PICK S : S = Listed(p)
  OBVIOUS
<1>15. Logs(S) /\ (\A row \in S : row.of = p) /\ G \subseteq S
       /\ \A r : r \in R <=> r \in S /\ r \notin G
  BY <1>10, <1>12, <1>13, <1>14, ListedLogs
<1>16. /\ RemovalEvents(G) \in Seq(Event)
       /\ \A i \in DOMAIN RemovalEvents(G) : RemovalEvents(G)[i].row.of = p
       /\ Reports(RemovalEvents(G), p, S, R)
  BY <1>15, RemovalReports
<1> QED BY <1>4, <1>7, <1>8, <1>9, <1>13, <1>14, <1>16 DEF Told

\* The parts of the type invariant.
ServerTyped ==
    /\ log \in [Project -> SUBSET Row] /\ listed \in [Project -> SUBSET (1 .. MaxId)]
    /\ LogOk
    /\ number \in [Project -> 0 .. MaxId] /\ filters \in [Project -> SUBSET FilterId]

PlaceTyped ==
    /\ host \in {"web", "desktop", "blank"} /\ joined \in BOOLEAN
    /\ project \in Project /\ viewRef \in Project \cup {NoProject}
    /\ known \subseteq Project /\ fetched \subseteq known

PageTyped ==
    /\ rows \in Seq(Row) /\ rowsOf \in Project \cup {NoProject}
    /\ selected \in Row \cup {Nothing} /\ chips \subseteq FilterId
    /\ hasMore \in BOOLEAN /\ loadingMore \in BOOLEAN /\ paused \in BOOLEAN
    /\ filterSaving \in BOOLEAN /\ trusted \in BOOLEAN /\ chipsTrusted \in BOOLEAN

LEMMA TypedParts ==
  Typed <=> /\ ServerTyped /\ PlaceTyped /\ PageTyped
            /\ channel \in Seq(Event) /\ Requests(pending)
BY DEF Typed, TypeOk, ServerTyped, PlaceTyped, PageTyped, Requests

LEMMA ServerTypedKept ==
  ASSUME ServerTyped, UNCHANGED serverVars
  PROVE  ServerTyped'
BY DEF ServerTyped, serverVars, LogOk

LEMMA PlaceTypedKept ==
  ASSUME PlaceTyped, UNCHANGED <<placeVars, joined>>
  PROVE  PlaceTyped'
BY DEF PlaceTyped, placeVars

LEMMA PageTypedKept ==
  ASSUME PageTyped, UNCHANGED <<listVars, chipVars, paused>>
  PROVE  PageTyped'
BY DEF PageTyped, listVars, chipVars

\* What a user does keeps the types.
LEMMA UserTyped ==
  ASSUME Typed, Users
  PROVE  Typed'
<1>1. /\ ServerTyped /\ PlaceTyped /\ PageTyped
      /\ channel \in Seq(Event) /\ Requests(pending)
  BY TypedParts
<1>2. /\ project \in Project /\ rows \in Seq(Row) /\ chips \subseteq FilterId
      /\ filters[project] \subseteq FilterId
  BY <1>1 DEF PlaceTyped, PageTyped, ServerTyped
<1>3. MaxId \in Nat /\ MaxId + 1 \in 1 .. MaxId + 1 /\ 1 .. MaxId \subseteq 1 .. MaxId + 1
  BY LogPageAssumption
<1> SUFFICES /\ ServerTyped' /\ PlaceTyped' /\ PageTyped'
             /\ channel' \in Seq(Event) /\ Requests(pending')
  BY TypedParts DEF TypedParts, Typed, TypeOk, ServerTyped, PlaceTyped, PageTyped, Requests
<1>4. CASE LoadMore
  <2>1. UNCHANGED serverVars /\ UNCHANGED <<placeVars, joined>> /\ UNCHANGED channel
    BY <1>4 DEF LoadMore
  <2>2. PageTyped'
    BY <1>1, <1>4 DEF LoadMore, PageTyped, chipVars
  <2>3. rows[Len(rows)].id \in 1 .. MaxId + 1
    <3>1. Len(rows) \in 1 .. Len(rows)
      BY <1>2, <1>4, RowsTyped DEF LoadMore
    <3>2. rows[Len(rows)].id \in 1 .. MaxId
      BY <1>2, <3>1, RowsTyped
    <3> QED BY <1>3, <3>2
  <2>4. PICK q : q = Ask("more", project, rows[Len(rows)].id, NoFilter, pending)
    OBVIOUS
  <2>5. q \in Request /\ q.kind = "more"
    <3>1. Asked(q, "more", project, rows[Len(rows)].id, NoFilter, pending)
      BY <1>2, <2>3, <2>4, AskTyped
    <3> QED BY <3>1 DEF Asked
  <2>6. Requests(pending')
    BY <1>1, <1>4, <2>4, <2>5 DEF LoadMore, Requests
  <2> QED BY <1>1, <2>1, <2>2, <2>6, ServerTypedKept, PlaceTypedKept
<1>5. ASSUME NEW kind \in FilterKind, NEW f \in FilterId \cup {NoFilter}, SendFilter(kind, f),
             kind = "create" => f \in FilterId
      PROVE  /\ ServerTyped' /\ PlaceTyped' /\ channel' \in Seq(Event) /\ Requests(pending')
             /\ UNCHANGED <<listVars, chips, chipsTrusted, paused>>
  <2>1. /\ UNCHANGED serverVars /\ UNCHANGED <<placeVars, joined>> /\ UNCHANGED channel
        /\ UNCHANGED <<listVars, chips, chipsTrusted, paused>>
        /\ pending' = Spoil(project, pending) \cup
                        {Ask(kind, project, MaxId + 1, f, pending)}
    BY <1>5 DEF SendFilter
  <2>2. PICK q : q = Ask(kind, project, MaxId + 1, f, pending)
    OBVIOUS
  <2>3. kind \in {"views", "first", "more", "clear"} \cup FilterKind
    OBVIOUS
  <2>4. q \in Request /\ q.kind = kind /\ q.filter = f
    <3>1. Asked(q, kind, project, MaxId + 1, f, pending)
      BY <1>2, <1>3, <2>2, <2>3, AskTyped
    <3> QED BY <3>1 DEF Asked
  <2>5. Requests(Spoil(project, pending))
    BY <1>1, SpoilTyped
  <2>6. Requests(pending')
    BY <1>5, <2>1, <2>2, <2>4, <2>5 DEF Requests
  <2> QED BY <1>1, <2>1, <2>6, ServerTypedKept, PlaceTypedKept
<1>6. ASSUME UNCHANGED <<listVars, chips, chipsTrusted, paused>>, filterSaving' \in BOOLEAN
      PROVE  PageTyped'
  BY <1>1, <1>6 DEF PageTyped, listVars
<1>7. CASE SaveFilter
  <2>1. \/ \E f \in FilterId : SendFilter("create", f)
        \/ \E f \in FilterId : SendFilter("edit", f)
    BY <1>2, <1>7 DEF SaveFilter
  <2>2. filterSaving' \in BOOLEAN
    BY <1>7 DEF SaveFilter
  <2> QED BY <1>5, <1>6, <2>1, <2>2 DEF FilterKind
<1>8. CASE RemoveFilter
  <2>1. \E f \in FilterId : SendFilter("remove", f)
    BY <1>2, <1>8 DEF RemoveFilter
  <2>2. filterSaving' \in BOOLEAN
    BY <1>8 DEF RemoveFilter
  <2> QED BY <1>5, <1>6, <2>1, <2>2 DEF FilterKind
<1>9. CASE ApplyPresetFilter
  <2>1. SendFilter("preset", NoFilter) /\ filterSaving' \in BOOLEAN
    BY <1>1, <1>9 DEF ApplyPresetFilter, PageTyped
  <2> QED BY <1>5, <1>6, <2>1 DEF FilterKind
<1>10. CASE ClearLogs
  <2>1. /\ UNCHANGED serverVars /\ UNCHANGED <<placeVars, joined>> /\ UNCHANGED channel
        /\ UNCHANGED <<listVars, chipVars, paused>>
        /\ pending' = pending \cup {Ask("clear", project, MaxId + 1, NoFilter, pending)}
    BY <1>10 DEF ClearLogs
  <2>2. PICK q : q = Ask("clear", project, MaxId + 1, NoFilter, pending)
    OBVIOUS
  <2>3. q \in Request /\ q.kind = "clear"
    <3>1. Asked(q, "clear", project, MaxId + 1, NoFilter, pending)
      BY <1>2, <1>3, <2>2, AskTyped
    <3> QED BY <3>1 DEF Asked
  <2>4. Requests(pending')
    BY <1>1, <2>1, <2>2, <2>3 DEF Requests
  <2> QED BY <1>1, <2>1, <2>4, ServerTypedKept, PlaceTypedKept, PageTypedKept
<1>11. CASE Resume
  <2>1. /\ UNCHANGED serverVars /\ UNCHANGED <<placeVars, joined>> /\ UNCHANGED channel
        /\ UNCHANGED <<listVars, chipVars>> /\ paused' = FALSE
        /\ pending' = Refetch(pending)
    BY <1>11 DEF Resume
  <2>2. PageTyped'
    BY <1>1, <2>1 DEF PageTyped, listVars, chipVars
  <2>3. Requests(pending')
    BY <1>1, <1>2, <2>1, RefetchIs
  <2> QED BY <1>1, <2>1, <2>2, <2>3, ServerTypedKept, PlaceTypedKept
<1>12. CASE Pause
  <2>1. /\ UNCHANGED serverVars /\ UNCHANGED <<placeVars, joined>> /\ UNCHANGED channel
        /\ UNCHANGED <<listVars, chipVars>> /\ paused' = TRUE /\ UNCHANGED pending
    BY <1>12 DEF Pause
  <2>2. PageTyped'
    BY <1>1, <2>1 DEF PageTyped, listVars, chipVars
  <2> QED BY <1>1, <2>1, <2>2, ServerTypedKept, PlaceTypedKept
<1>13. CASE SelectRow
  <2>1. /\ UNCHANGED serverVars /\ UNCHANGED <<placeVars, joined>>
        /\ UNCHANGED channel /\ UNCHANGED pending
    BY <1>13 DEF SelectRow
  <2>2. selected' \in Row
    <3>1. \A i \in DOMAIN rows : rows[i] \in Row
      BY <1>2, RowsTyped
    <3> QED BY <1>13, <3>1 DEF SelectRow
  <2>3. PageTyped'
    BY <1>1, <1>13, <2>2 DEF SelectRow, PageTyped, chipVars
  <2> QED BY <1>1, <2>1, <2>3, ServerTypedKept, PlaceTypedKept
<1>14. ASSUME NEW p \in Project, SwitchProject(p)
       PROVE  /\ ServerTyped' /\ PlaceTyped' /\ PageTyped'
              /\ channel' \in Seq(Event) /\ Requests(pending')
  <2>1. UNCHANGED serverVars
    BY <1>14 DEF SwitchProject
  <2>2. PlaceTyped'
    BY <1>1, <1>14 DEF SwitchProject, PlaceTyped
  <2>3. PageTyped'
    <3>1. << >> \in Seq(Row)
      OBVIOUS
    <3> QED BY <1>1, <1>14, <3>1 DEF SwitchProject, PageTyped, Show
  <2>4. channel' \in Seq(Event)
    BY <1>1, <1>14 DEF SwitchProject
  <2> DEFINE old == {[r EXCEPT !.clean = FALSE] : r \in pending}
             asked == Start("views", p, old)
  <2>5. pending' = IF p \in known THEN Start("first", p, asked) ELSE asked
    BY <1>14, Zenon DEF SwitchProject
  <2>6. Requests(old)
    <3>1. old = {Mark(r.of, r) : r \in pending}
      BY DEF Mark
    <3>2. \A r \in pending : r \in Request /\ (r.kind = "create" => r.filter \in FilterId)
      BY <1>1 DEF Requests
    <3>3. \A r \in pending : /\ Mark(r.of, r) \in Request /\ Mark(r.of, r).kind = r.kind
                             /\ Mark(r.of, r).filter = r.filter
      BY <3>2, MarkIs
    <3> HIDE DEF old
    <3> QED BY <3>1, <3>2, <3>3 DEF Requests
  <2> HIDE DEF old
  <2>7. Requests(asked)
    BY <2>6, StartIs
  <2> HIDE DEF asked
  <2>8. Requests(Start("first", p, asked))
    BY <2>7, StartIs
  <2>9. Requests(pending')
    BY <2>5, <2>7, <2>8
  <2> QED BY <1>1, <2>1, <2>2, <2>3, <2>4, <2>9, ServerTypedKept
<1> QED BY <1>4, <1>7, <1>8, <1>9, <1>10, <1>11, <1>12, <1>13, <1>14 DEF Users

\* An event changes only the list, the selected log and what is known of both.
LEMMA ChangeIs ==
  ASSUME Typed, NEW p \in Project, LogArrives(p) \/ LogUpdated(p) \/ LogTrimmed(p)
  PROVE  /\ Told(p) /\ number' \in [Project -> 0 .. MaxId]
         /\ Disturb(p)
         /\ UNCHANGED <<filters, rows, rowsOf, hasMore, loadingMore, selected, chipVars,
                        placeVars, joined, paused>>
<1>1. /\ MaxId \in Nat /\ MaxVersion \in Nat /\ number \in [Project -> 0 .. MaxId]
      /\ log[p] \subseteq Row /\ \A row \in log[p] : row.of = p
  BY LogPageAssumption DEF Typed, TypeOk, LogOk
<1>2. CASE LogArrives(p)
  <2>1. number[p] + 1 \in 1 .. MaxId
    BY <1>1, <1>2 DEF LogArrives
  <2>2. PICK row : row = [of |-> p, id |-> number[p] + 1, ver |-> 0]
    OBVIOUS
  <2>3. row \in Row /\ row.of = p
    BY <1>1, <2>1, <2>2 DEF Row
  <2>4. PICK is \in BOOLEAN : LogChange(p, row, is, FALSE)
    BY <1>2, <2>2 DEF LogArrives
  <2>5. Told(p)
    BY <2>3, <2>4, ChangeTold
  <2>6. number' \in [Project -> 0 .. MaxId]
    BY <1>1, <1>2, <2>1 DEF LogArrives
  <2> QED BY <2>4, <2>5, <2>6 DEF LogChange
<1>3. CASE LogUpdated(p)
  <2>1. PICK row \in log[p], is \in BOOLEAN :
          /\ row.ver < MaxVersion
          /\ LogChange(p, [row EXCEPT !.ver = @ + 1], is, TRUE)
    BY <1>3 DEF LogUpdated
  <2>2. PICK new : new = [row EXCEPT !.ver = row.ver + 1]
    OBVIOUS
  <2>3. row \in Row /\ row.of = p /\ row.ver + 1 \in 0 .. MaxVersion
    BY <1>1, <2>1 DEF Row
  <2>4. new \in Row /\ new.of = p
    BY <2>2, <2>3 DEF Row
  <2>5. LogChange(p, new, is, TRUE)
    BY <2>1, <2>2
  <2>6. Told(p)
    BY <2>4, <2>5, ChangeTold
  <2> QED BY <1>1, <1>3, <2>5, <2>6 DEF LogUpdated, LogChange
<1>4. CASE LogTrimmed(p)
  <2>1. PICK row \in log[p] : LogsRemoved(p, {row})
    BY <1>4 DEF LogTrimmed
  <2>2. Told(p)
    BY <2>1, RemovalTold
  <2> QED BY <1>1, <1>4, <2>2 DEF LogTrimmed
<1> QED BY <1>2, <1>3, <1>4

LEMMA HeardTyped ==
  ASSUME Typed, NEW p, Told(p)
  PROVE  channel' \in Seq(Event)
<1>1. channel \in Seq(Event)
  BY TypedParts
<1>2. PICK es \in Seq(Event) : channel' = IF Heard(p) THEN channel \o es ELSE channel
  BY DEF Told
<1>3. channel \o es \in Seq(Event)
  BY <1>1
<1> QED BY <1>1, <1>2, <1>3

LEMMA ChangeTyped ==
  ASSUME Typed, NEW p \in Project, LogArrives(p) \/ LogUpdated(p) \/ LogTrimmed(p)
  PROVE  Typed'
<1>1. /\ ServerTyped /\ PlaceTyped /\ PageTyped
      /\ channel \in Seq(Event) /\ Requests(pending)
  BY TypedParts
<1>2. /\ Told(p) /\ number' \in [Project -> 0 .. MaxId]
      /\ pending' = Spoil(p, pending)
      /\ trusted' = (trusted /\ (p = project => Heard(p)))
      /\ UNCHANGED <<filters, rows, rowsOf, hasMore, loadingMore, selected, chipVars,
                     placeVars, joined, paused>>
  BY ChangeIs DEF Disturb
<1>3. ServerTyped'
  BY <1>1, <1>2 DEF ServerTyped, Told
<1>4. PlaceTyped'
  BY <1>1, <1>2, PlaceTypedKept
<1>5. PageTyped'
  BY <1>1, <1>2 DEF PageTyped, chipVars
<1>6. channel' \in Seq(Event)
  BY <1>2, HeardTyped
<1>7. Requests(pending')
  BY <1>1, <1>2, SpoilTyped
<1> QED BY <1>3, <1>4, <1>5, <1>6, <1>7
        DEF Typed, TypeOk, ServerTyped, PlaceTyped, PageTyped, Requests

\* An answered request.
Given(r, page, stored) == [r EXCEPT !.answered = TRUE, !.rows = page, !.chips = stored]

LEMMA GivenIs ==
  ASSUME NEW r \in Request, NEW page \in Seq(Row), NEW stored \in SUBSET FilterId
  PROVE  /\ Given(r, page, stored) \in Request
         /\ Given(r, page, stored).kind = r.kind /\ Given(r, page, stored).of = r.of
         /\ Given(r, page, stored).max = r.max /\ Given(r, page, stored).filter = r.filter
         /\ Given(r, page, stored).clean = r.clean
         /\ Given(r, page, stored).answered
         /\ Given(r, page, stored).rows = page /\ Given(r, page, stored).chips = stored
BY DEF Given, Request

LEMMA GivenTyped ==
  ASSUME NEW S, Requests(S), NEW r \in Request, r.kind = "create" => r.filter \in FilterId,
         NEW page \in Seq(Row), NEW stored \in SUBSET FilterId
  PROVE  Requests(S \cup {Given(r, page, stored)})
<1>1. PICK g : g = Given(r, page, stored)
  OBVIOUS
<1>2. g \in Request /\ g.kind = r.kind /\ g.filter = r.filter
  BY <1>1, GivenIs
<1> QED BY <1>1, <1>2 DEF Requests

LEMMA ServeTyped ==
  ASSUME Typed, NEW r \in pending, ServeQuery(r) \/ ServeFilter(r) \/ ServeClear(r)
  PROVE  Typed'
<1>1. /\ ServerTyped /\ PlaceTyped /\ PageTyped
      /\ channel \in Seq(Event) /\ Requests(pending)
  BY TypedParts
<1>2. /\ r \in Request /\ r.of \in Project /\ r.max \in Int
      /\ r.kind = "create" => r.filter \in FilterId
      /\ Requests(pending \ {r})
  BY <1>1, LogPageAssumption DEF Requests, Request
<1>3. Requests(Spoil(r.of, pending \ {r}))
  BY <1>2, SpoilTyped
<1>4. << >> \in Seq(Row) /\ {} \in SUBSET FilterId
  OBVIOUS
<1> SUFFICES /\ ServerTyped' /\ PlaceTyped' /\ PageTyped'
             /\ channel' \in Seq(Event) /\ Requests(pending')
  BY DEF Typed, TypeOk, ServerTyped, PlaceTyped, PageTyped, Requests
<1>5. CASE ServeQuery(r)
  <2>1. /\ UNCHANGED serverVars /\ UNCHANGED <<placeVars, joined>> /\ UNCHANGED channel
        /\ UNCHANGED <<listVars, chipVars, paused>>
    BY <1>5 DEF ServeQuery
  <2> DEFINE page == IF r.kind = "views" THEN <<>> ELSE LogViewLogs(r.of, r.max)
             stored == IF r.kind = "views" THEN filters[r.of] ELSE {}
  <2>2. LogViewLogs(r.of, r.max) \in Seq(Row)
    <3>1. LogViewLogs(r.of, r.max) = Page(Listed(r.of), r.max) /\ Logs(Listed(r.of))
      BY <1>2, ListedLogs
    <3> QED BY <1>2, <3>1, PageIs
  <2>3. page \in Seq(Row) /\ stored \in SUBSET FilterId
    BY <1>1, <1>2, <2>2 DEF ServerTyped
  <2>4. pending' = (pending \ {r}) \cup {Given(r, page, stored)}
    BY <1>5 DEF ServeQuery, Answer, Given
  <2> HIDE DEF page, stored
  <2>5. Requests(pending')
    BY <1>2, <2>3, <2>4, GivenTyped
  <2> QED BY <1>1, <2>1, <2>5, ServerTypedKept, PlaceTypedKept, PageTypedKept
<1>6. ASSUME pending' = Spoil(r.of, pending \ {r}) \cup {Given(r, <<>>, {})}
      PROVE  Requests(pending')
  BY <1>2, <1>3, <1>4, <1>6, GivenTyped
<1>7. CASE ServeFilter(r)
  <2>1. /\ UNCHANGED <<placeVars, joined>> /\ UNCHANGED channel
        /\ UNCHANGED <<log, number, rows, rowsOf, hasMore, loadingMore, selected,
                       chipVars, paused>>
        /\ trusted' = (trusted /\ r.of # project)
        /\ pending' = Spoil(r.of, pending \ {r}) \cup {Given(r, <<>>, {})}
    BY <1>7 DEF ServeFilter, Answer, Given
  <2>2. PageTyped'
    BY <1>1, <2>1 DEF PageTyped, chipVars
  <2>3. filters' \in [Project -> SUBSET FilterId]
    <3> DEFINE now == CASE r.kind = "create" -> filters[r.of] \cup {r.filter}
                        [] r.kind = "remove" -> filters[r.of] \ {r.filter}
                        [] OTHER -> filters[r.of]
    <3>1. filters' = [filters EXCEPT ![r.of] = now]
      BY <1>7 DEF ServeFilter
    <3>2. now \in SUBSET FilterId
      <4>1. filters[r.of] \in SUBSET FilterId
        BY <1>1, <1>2 DEF ServerTyped
      <4> QED BY <1>2, <4>1
    <3> HIDE DEF now
    <3> QED BY <1>1, <1>2, <3>1, <3>2 DEF ServerTyped
  <2>4. PICK now \in SUBSET {row.id : row \in log[r.of]} :
          listed' = [listed EXCEPT ![r.of] = now]
    BY <1>7 DEF ServeFilter
  <2>5. now \in SUBSET (1 .. MaxId)
    BY <1>1, <1>2, <2>4 DEF ServerTyped, Row
  <2>6. listed' \in [Project -> SUBSET (1 .. MaxId)]
    BY <1>1, <2>4, <2>5 DEF ServerTyped
  <2>7. \A p \in Project : listed'[p] = IF p = r.of THEN now ELSE listed[p]
    BY <1>1, <2>4 DEF ServerTyped
  <2>8. LogOk'
    BY <1>1, <2>1, <2>4, <2>7 DEF ServerTyped, LogOk
  <2>9. ServerTyped'
    BY <1>1, <2>1, <2>3, <2>6, <2>8 DEF ServerTyped
  <2> QED BY <1>1, <1>6, <2>1, <2>2, <2>9, PlaceTypedKept
<1>8. CASE ServeClear(r)
  <2>1. /\ UNCHANGED <<placeVars, joined>>
        /\ UNCHANGED <<number, filters, rows, rowsOf, hasMore, loadingMore, selected,
                       chipVars, paused>>
        /\ trusted' = (trusted /\ (r.of = project => Heard(r.of)))
        /\ pending' = Spoil(r.of, pending \ {r}) \cup {Given(r, <<>>, {})}
        /\ LogsRemoved(r.of, log[r.of])
    BY <1>8 DEF ServeClear, Answer, Given
  <2>2. Told(r.of)
    BY <1>2, <2>1, RemovalTold
  <2>3. PageTyped'
    BY <1>1, <2>1 DEF PageTyped, chipVars
  <2>4. ServerTyped'
    BY <1>1, <2>1, <2>2 DEF ServerTyped, Told
  <2>5. channel' \in Seq(Event)
    BY <2>2, HeardTyped
  <2> QED BY <1>1, <1>6, <2>1, <2>3, <2>4, <2>5, PlaceTypedKept
<1> QED BY <1>5, <1>7, <1>8

\* An event applied to the list gives a list.
LEMMA AppliedTyped ==
  ASSUME NEW list \in Seq(Row), NEW event \in Event
  PROVE  Applied(list, event) \in Seq(Row)
<1>1. event.row \in Row /\ event.effect \in {"insert", "update", "delete", "none"}
  BY DEF Event
<1>2. OnLogsInsert(list, event.row) \in Seq(Row)
  BY <1>1, InsertTyped
<1>3. OnLogsUpdate(list, event.row) \in Seq(Row)
  BY <1>1, UpdateTyped
<1>4. OnLogsDelete(list, event.row.id) \in Seq(Row)
  BY DeleteTyped
<1> QED BY <1>1, <1>2, <1>3, <1>4 DEF Applied

\* The newest row of a list may be selected.
LEMMA ShowTyped ==
  ASSUME NEW list \in Seq(Row), NEW of \in Project \cup {NoProject},
         NEW item \in Row \cup {Nothing}, NEW p, Show(p, list, of, item)
  PROVE  /\ rows' \in Seq(Row) /\ rowsOf' \in Project \cup {NoProject}
         /\ selected' \in Row \cup {Nothing}
<1>1. list # << >> => list[1] \in Row
  <2>1. list # << >> => 1 \in 1 .. Len(list)
    BY RowsTyped
  <2> QED BY <2>1, RowsTyped
<1> QED BY <1>1 DEF Show

\* A delivered event: the page throws, or it may take the event.
LEMMA DeliverIs ==
  ASSUME Typed, SocketEvent \/ IpcEvent
  PROVE  /\ channel # << >> /\ channel' = Tail(channel) /\ Head(channel) \in Event
         /\ \/ GoBlank
            \/ \E selection \in Row \cup {Nothing} : Take(Head(channel), selection)
<1>1. channel \in Seq(Event) /\ selected \in Row \cup {Nothing}
  BY DEF Typed, TypeOk
<1>2. channel # << >>
  BY DEF SocketEvent, IpcEvent
<1>3. PICK event \in Event : event = Head(channel)
  BY <1>1, <1>2
<1>4. event.row \in Row
  BY DEF Event
<1>5. ASSUME NEW selection, Deliver(selection), selection \in Row \cup {Nothing}
      PROVE  channel' = Tail(channel) /\ (GoBlank \/ Take(Head(channel), selection))
  BY <1>5 DEF Deliver
<1>6. CASE SocketEvent
  <2>1. OnUpdateLog(event) \in Row \cup {Nothing}
    BY <1>1, <1>4 DEF OnUpdateLog
  <2>2. Deliver(OnUpdateLog(event))
    BY <1>3, <1>6 DEF SocketEvent
  <2> QED BY <1>2, <1>3, <1>5, <2>1, <2>2
<1>7. CASE IpcEvent
  <2> DEFINE kept == OnViewLog(event, selected)
             selection == IF event.update /\ event.row.of = project
                             /\ event.row.id = kept.id THEN event.row ELSE kept
  <2>1. kept \in Row \cup {Nothing}
    BY <1>1 DEF OnViewLog
  <2>2. selection \in Row \cup {Nothing}
    BY <1>4, <2>1
  <2>3. Deliver(selection)
    BY <1>3, <1>7 DEF IpcEvent
  <2> HIDE DEF selection
  <2> QED BY <1>2, <1>3, <1>5, <2>2, <2>3
<1> QED BY <1>6, <1>7

LEMMA EventTyped ==
  ASSUME Typed, SocketEvent \/ IpcEvent
  PROVE  Typed'
<1>1. /\ ServerTyped /\ PlaceTyped /\ PageTyped
      /\ channel \in Seq(Event) /\ Requests(pending)
  BY TypedParts
<1>2. /\ channel # << >> /\ channel' = Tail(channel)
      /\ \/ GoBlank
         \/ \E selection \in Row \cup {Nothing} : Take(Head(channel), selection)
  BY DeliverIs
<1>3. channel' \in Seq(Event)
  BY <1>1, <1>2, TailIndex
<1> SUFFICES /\ ServerTyped' /\ PlaceTyped' /\ PageTyped' /\ Requests(pending')
  BY <1>3 DEF Typed, TypeOk, ServerTyped, PlaceTyped, PageTyped, Requests
<1>4. CASE GoBlank
  <2>1. UNCHANGED serverVars /\ UNCHANGED pending
    BY <1>4 DEF GoBlank
  <2>2. PlaceTyped' /\ PageTyped'
    BY <1>1, <1>4 DEF GoBlank, PlaceTyped, PageTyped
  <2> QED BY <1>1, <2>1, <2>2, ServerTypedKept
<1>5. ASSUME NEW selection \in Row \cup {Nothing}, Take(Head(channel), selection)
      PROVE  ServerTyped' /\ PlaceTyped' /\ PageTyped' /\ Requests(pending')
  <2>1. PICK event \in Event : event = Head(channel)
    BY <1>1, <1>2
  <2> DEFINE ignored == paused \/ event.row.of # viewRef
             list == IF ignored THEN rows ELSE Applied(rows, event)
  <2>2. /\ Show(project, list, rowsOf, selection)
        /\ trusted' = /\ trusted
                      /\ event.row.of = project /\ event.effect # "none"
                           => ~ignored /\ ~LeavesGap(event)
                      /\ event.row.of # project => ignored
        /\ UNCHANGED serverVars /\ UNCHANGED <<placeVars, joined>> /\ UNCHANGED pending
        /\ UNCHANGED <<hasMore, loadingMore, chipVars, paused>>
    BY <1>5, <2>1 DEF Take
  <2>3. list \in Seq(Row) /\ rowsOf \in Project \cup {NoProject}
    BY <1>1, AppliedTyped DEF PageTyped
  <2> HIDE DEF list, ignored
  <2>4. /\ rows' \in Seq(Row) /\ rowsOf' \in Project \cup {NoProject}
        /\ selected' \in Row \cup {Nothing}
    BY <2>2, <2>3, ShowTyped
  <2>5. trusted' \in BOOLEAN
    BY <2>2
  <2>6. PageTyped'
    BY <1>1, <2>2, <2>4, <2>5 DEF PageTyped, chipVars
  <2> QED BY <1>1, <2>2, <2>6, ServerTypedKept, PlaceTypedKept
<1> QED BY <1>2, <1>4, <1>5

\* A first page is asked for once the view is known.
KnownOk == \A r \in pending : r.kind = "first" => r.of \in known

LEMMA AnswerTyped ==
  ASSUME Typed, KnownOk, NEW r \in pending, Answers(r) \/ Fails(r)
  PROVE  Typed'
<1>1. /\ ServerTyped /\ PlaceTyped /\ PageTyped
      /\ channel \in Seq(Event) /\ Requests(pending)
  BY TypedParts
<1>2. /\ r \in Request /\ r.of \in Project /\ r.rows \in Seq(Row) /\ r.chips \subseteq FilterId
      /\ r.kind = "create" => r.filter \in FilterId
      /\ Requests(pending \ {r}) /\ project \in Project
  BY <1>1 DEF Requests, Request, PlaceTyped
<1>3. /\ rows \in Seq(Row) /\ rowsOf \in Project \cup {NoProject} /\ << >> \in Seq(Row)
      /\ selected \in Row \cup {Nothing}
  BY <1>1 DEF PageTyped
<1> SUFFICES /\ ServerTyped' /\ PlaceTyped' /\ PageTyped'
             /\ channel' \in Seq(Event) /\ Requests(pending')
  BY DEF Typed, TypeOk, ServerTyped, PlaceTyped, PageTyped, Requests
<1>4. CASE Fails(r)
  <2>1. /\ UNCHANGED serverVars /\ UNCHANGED <<placeVars, joined>> /\ UNCHANGED channel
        /\ pending' = pending \ {r}
    BY <1>4 DEF Fails
  <2>2. PageTyped'
    BY <1>1, <1>4 DEF Fails, PageTyped
  <2> QED BY <1>1, <1>2, <2>1, <2>2, ServerTypedKept, PlaceTypedKept
<1>5. CASE ViewsArrive(r)
  <2>1. UNCHANGED serverVars /\ UNCHANGED channel
    BY <1>5 DEF ViewsArrive
  <2>2. PlaceTyped'
    BY <1>1, <1>2, <1>5 DEF ViewsArrive, PlaceTyped
  <2>3. trusted' \in BOOLEAN /\ chipsTrusted' \in BOOLEAN
    <3>1. trusted' = (trusted /\ r.of = project)
          /\ chipsTrusted' = (r.of = project /\ r.clean)
      BY <1>5 DEF ViewsArrive
    <3> QED BY <3>1
  <2>4. PageTyped'
    BY <1>1, <1>2, <1>5, <2>3 DEF ViewsArrive, PageTyped
  <2>5. Requests(Start("first", r.of, pending \ {r}))
    BY <1>2, StartIs
  <2>6. Requests(pending')
    BY <1>2, <1>5, <2>5 DEF ViewsArrive
  <2> QED BY <1>1, <2>1, <2>2, <2>4, <2>6, ServerTypedKept
<1>6. CASE FirstArrives(r)
  <2>1. /\ UNCHANGED serverVars /\ UNCHANGED channel /\ pending' = pending \ {r}
        /\ Show(project, r.rows, r.of, selected)
        /\ UNCHANGED <<loadingMore, chipVars, paused>>
        /\ hasMore' = (Len(r.rows) = PageSize)
        /\ trusted' = (r.clean /\ r.of = project /\ viewRef = project)
    BY <1>6 DEF FirstArrives
  <2>2. PlaceTyped'
    <3>1. r.of \in known
      BY <1>6 DEF FirstArrives, KnownOk
    <3> QED BY <1>1, <1>6, <3>1 DEF FirstArrives, PlaceTyped
  <2>3. /\ rows' \in Seq(Row) /\ rowsOf' \in Project \cup {NoProject}
        /\ selected' \in Row \cup {Nothing}
    BY <1>2, <1>3, <2>1, ShowTyped
  <2>4. hasMore' \in BOOLEAN /\ trusted' \in BOOLEAN
    <3>1. r.clean \in BOOLEAN
      BY <1>2 DEF Request
    <3> QED BY <2>1, <3>1
  <2>5. PageTyped'
    BY <1>1, <2>1, <2>3, <2>4 DEF PageTyped, chipVars
  <2> QED BY <1>1, <1>2, <2>1, <2>2, <2>5, ServerTypedKept
<1>7. CASE MoreArrives(r)
  <2>1. /\ UNCHANGED serverVars /\ UNCHANGED channel /\ pending' = pending \ {r}
        /\ UNCHANGED <<placeVars, joined>>
        /\ Show(project, Merged(rows, r.rows), rowsOf, selected)
        /\ UNCHANGED <<chipVars, paused>> /\ loadingMore' = FALSE
        /\ hasMore' = (Len(r.rows) = PageSize)
        /\ trusted' = (trusted /\ r.clean /\ r.of = project)
    BY <1>7 DEF MoreArrives
  <2>2. Merged(rows, r.rows) \in Seq(Row)
    BY <1>2, <1>3, MergedIs
  <2>3. /\ rows' \in Seq(Row) /\ rowsOf' \in Project \cup {NoProject}
        /\ selected' \in Row \cup {Nothing}
    BY <1>3, <2>1, <2>2, ShowTyped
  <2>4. hasMore' \in BOOLEAN /\ trusted' \in BOOLEAN
    BY <1>1, <2>1 DEF PageTyped
  <2>5. PageTyped'
    BY <1>1, <2>1, <2>3, <2>4 DEF PageTyped, chipVars
  <2> QED BY <1>1, <1>2, <2>1, <2>5, ServerTypedKept, PlaceTypedKept
<1>8. CASE PageDropped(r)
  <2>1. /\ UNCHANGED serverVars /\ UNCHANGED channel /\ pending' = pending \ {r}
        /\ UNCHANGED <<placeVars, joined>>
    BY <1>8 DEF PageDropped
  <2>2. PageTyped'
    BY <1>1, <1>8 DEF PageDropped, PageTyped, chipVars
  <2> QED BY <1>1, <1>2, <2>1, <2>2, ServerTypedKept, PlaceTypedKept
<1>9. Requests(Refetch(pending \ {r}))
  BY <1>2, RefetchIs
<1>10. CASE FilterSaved(r)
  <2>1. /\ UNCHANGED serverVars /\ UNCHANGED channel /\ pending' = Refetch(pending \ {r})
        /\ UNCHANGED <<placeVars, joined>>
        /\ chips' = ChipsAfter(r) /\ filterSaving' = FALSE
        /\ chipsTrusted' = (chipsTrusted /\ r.of = project)
        /\ UNCHANGED <<listVars, paused>>
    BY <1>10 DEF FilterSaved
  <2>2. ChipsAfter(r) \subseteq FilterId
    BY <1>1, <1>2 DEF ChipsAfter, PageTyped
  <2>3. PageTyped'
    BY <1>1, <2>1, <2>2 DEF PageTyped, listVars
  <2> QED BY <1>1, <1>9, <2>1, <2>3, ServerTypedKept, PlaceTypedKept
<1>11. CASE SaveDropped(r)
  <2>1. /\ UNCHANGED serverVars /\ UNCHANGED channel /\ pending' = pending \ {r}
        /\ UNCHANGED <<placeVars, joined>>
    BY <1>11 DEF SaveDropped
  <2>2. PageTyped'
    BY <1>1, <1>11 DEF SaveDropped, PageTyped, listVars
  <2> QED BY <1>1, <1>2, <2>1, <2>2, ServerTypedKept, PlaceTypedKept
<1>12. ASSUME NEW kind, Done(r, kind)
       PROVE  /\ UNCHANGED serverVars /\ UNCHANGED channel /\ pending' = Refetch(pending \ {r})
              /\ UNCHANGED <<placeVars, joined>> /\ UNCHANGED <<chipVars, paused>>
  BY <1>12 DEF Done
<1>13. CASE PresetSaved(r) \/ LogsCleared(r)
  <2>1. UNCHANGED listVars /\ \E kind : Done(r, kind)
    BY <1>13 DEF PresetSaved, LogsCleared
  <2> QED BY <1>1, <1>9, <1>12, <2>1, ServerTypedKept, PlaceTypedKept, PageTypedKept
<1>14. CASE Emptied(r)
  <2>1. /\ Done(r, "clear") /\ trusted' = FALSE
        /\ rows' = << >> /\ rowsOf' = NoProject /\ selected' = Nothing /\ hasMore' = FALSE
        /\ UNCHANGED loadingMore
    BY <1>14 DEF Emptied
  <2>2. UNCHANGED <<chipVars, paused>>
    BY <1>12, <2>1
  <2>3. PageTyped'
    BY <1>1, <1>3, <2>1, <2>2 DEF PageTyped, chipVars
  <2> QED BY <1>1, <1>9, <1>12, <2>1, <2>3, ServerTypedKept, PlaceTypedKept
<1> QED BY <1>4, <1>5, <1>6, <1>7, <1>8, <1>10, <1>11, <1>13, <1>14 DEF Answers

LEMMA ConnectTyped ==
  ASSUME Typed, Connect
  PROVE  Typed'
<1>1. /\ ServerTyped /\ PlaceTyped /\ PageTyped
      /\ channel \in Seq(Event) /\ Requests(pending)
  BY TypedParts
<1>2. /\ UNCHANGED serverVars /\ UNCHANGED channel /\ UNCHANGED pending
      /\ UNCHANGED <<listVars, chipVars, paused>>
  BY DEF Connect
<1>3. PlaceTyped'
  BY <1>1 DEF Connect, PlaceTyped, placeVars
<1>4. ServerTyped' /\ PageTyped'
  BY <1>1, <1>2, ServerTypedKept, PageTypedKept
<1> QED BY <1>1, <1>2, <1>3, <1>4
        DEF Typed, TypeOk, ServerTyped, PlaceTyped, PageTyped, Requests

\* What was under way when another project is opened.
Soiled(S) == {[r EXCEPT !.clean = FALSE] : r \in S}

LEMMA SoiledIs ==
  ASSUME NEW S, Requests(S)
  PROVE  /\ Requests(Soiled(S))
         /\ \A q \in Soiled(S) : ~q.clean /\ \E r \in S : q.kind = r.kind /\ q.of = r.of
<1>1. \A r \in Request : /\ [r EXCEPT !.clean = FALSE] \in Request
                         /\ [r EXCEPT !.clean = FALSE].kind = r.kind
                         /\ [r EXCEPT !.clean = FALSE].of = r.of
                         /\ [r EXCEPT !.clean = FALSE].filter = r.filter
                         /\ [r EXCEPT !.clean = FALSE].clean = FALSE
  BY DEF Request
<1>2. \A r \in S : r \in Request /\ (r.kind = "create" => r.filter \in FilterId)
  BY DEF Requests
<1>3. ASSUME NEW q \in Soiled(S)
      PROVE  /\ q \in Request /\ (q.kind = "create" => q.filter \in FilterId) /\ ~q.clean
             /\ \E r \in S : q.kind = r.kind /\ q.of = r.of
  <2>1. PICK r \in S : q = [r EXCEPT !.clean = FALSE]
    BY DEF Soiled
  <2>2. /\ q \in Request /\ q.kind = r.kind /\ q.of = r.of /\ q.filter = r.filter
        /\ q.clean = FALSE
    BY <1>1, <1>2, <2>1
  <2> QED BY <1>2, <2>2
<1>4. Requests(Soiled(S))
  BY <1>3 DEF Requests
<1> QED BY <1>3, <1>4

\* Queries of a first page follow an answer with the view.
LEMMA KnownKept ==
  ASSUME Typed, KnownOk, Next
  PROVE  KnownOk'
<1>1. /\ Requests(pending) /\ project \in Project /\ fetched \subseteq known
      /\ \A r \in pending : r \in Request /\ (r.kind = "first" => r.of \in known)
  BY DEF Typed, TypeOk, KnownOk, Requests
<1>2. ASSUME known \subseteq known', NEW S, \A r \in S : r.kind = "first" => r.of \in known',
             pending' \subseteq S
      PROVE  KnownOk'
  BY <1>2 DEF KnownOk
<1>3. ASSUME NEW S, \A r \in S : r \in Request /\ (r.kind = "first" => r.of \in known), NEW p
      PROVE  \A r \in Spoil(p, S) : r.kind = "first" => r.of \in known
  <2>1. \A r \in S : Mark(p, r).kind = r.kind /\ Mark(p, r).of = r.of
    BY <1>3, MarkIs
  <2> QED BY <1>3, <2>1, SpoilIs
<1>4. ASSUME NEW S, Requests(S), \A r \in S : r.kind = "first" => r.of \in known
      PROVE  \A r \in Refetch(S) : r.kind = "first" => r.of \in known
  <2>1. CASE project \in known
    <3>1. PICK R : R = Refetch(S)
      OBVIOUS
    <3>2. \A r \in R : r \in S \/ r.of = project
      BY <1>1, <1>4, <3>1, RefetchIs
    <3> QED BY <1>4, <2>1, <3>1, <3>2
  <2>2. CASE project \notin known
    <3>1. Refetch(S) = S
      BY <1>1, <2>2 DEF Refetch
    <3> QED BY <1>4, <3>1
  <2> QED BY <2>1, <2>2
<1>5. ASSUME NEW p \in Project, LogArrives(p) \/ LogUpdated(p) \/ LogTrimmed(p)
      PROVE  KnownOk'
  <2>1. pending' = Spoil(p, pending) /\ UNCHANGED known
    BY <1>5, ChangeIs DEF Disturb, placeVars
  <2> QED BY <1>1, <1>3, <2>1 DEF KnownOk
<1>6. ASSUME NEW r \in pending, ServeQuery(r) \/ ServeFilter(r) \/ ServeClear(r)
      PROVE  KnownOk'
  <2>1. UNCHANGED known
    BY <1>6 DEF ServeQuery, ServeFilter, ServeClear, placeVars
  <2>2. PICK page, stored, S :
          /\ S \in {pending \ {r}, Spoil(r.of, pending \ {r})}
          /\ pending' = S \cup {Given(r, page, stored)}
    <3>1. ServeQuery(r) => \E page, stored : pending' = (pending \ {r}) \cup {Given(r, page, stored)}
      BY DEF ServeQuery, Answer, Given
    <3>2. ServeFilter(r) \/ ServeClear(r) =>
            pending' = Spoil(r.of, pending \ {r}) \cup {Given(r, <<>>, {})}
      BY DEF ServeFilter, ServeClear, Answer, Given
    <3> QED BY <1>6, <3>1, <3>2
  <2>3. Given(r, page, stored).kind = r.kind /\ Given(r, page, stored).of = r.of
    BY <1>1 DEF Given, Request
  <2>4. \A q \in S : q.kind = "first" => q.of \in known
    <3>1. \A q \in pending \ {r} : q \in Request /\ (q.kind = "first" => q.of \in known)
      BY <1>1
    <3>2. \A q \in Spoil(r.of, pending \ {r}) : q.kind = "first" => q.of \in known
      BY <1>3, <3>1
    <3> QED BY <2>2, <3>1, <3>2
  <2> QED BY <1>1, <2>1, <2>2, <2>3, <2>4 DEF KnownOk
<1>7. ASSUME NEW r \in pending, Answers(r) \/ Fails(r)
      PROVE  KnownOk'
  <2>1. Requests(pending \ {r}) /\ \A q \in pending \ {r} : q.kind = "first" => q.of \in known
    BY <1>1 DEF Requests
  <2>2. CASE ViewsArrive(r)
    <3>1. known' = known \cup {r.of} /\ r.of \in Project
      BY <1>1, <2>2 DEF ViewsArrive, Request
    <3>2. PICK R : R = Start("first", r.of, pending \ {r})
      OBVIOUS
    <3>3. \A q \in R : q \in pending \ {r} \/ q.of = r.of
      BY <2>1, <3>1, <3>2, StartIs
    <3>4. pending' = R \/ pending' = pending \ {r}
      BY <2>2, <3>2 DEF ViewsArrive
    <3> QED BY <2>1, <3>1, <3>3, <3>4 DEF KnownOk
  <2>3. CASE ~ViewsArrive(r)
    <3>1. UNCHANGED known
      BY <1>7, <2>3 DEF Answers, FirstArrives, MoreArrives, PageDropped, FilterSaved,
                        SaveDropped, PresetSaved, LogsCleared, Emptied, Done, Fails, placeVars
    <3>2. pending' = pending \ {r} \/ pending' = Refetch(pending \ {r})
      BY <1>7, <2>3 DEF Answers, FirstArrives, MoreArrives, PageDropped, FilterSaved,
                        SaveDropped, PresetSaved, LogsCleared, Emptied, Done, Fails
    <3>3. \A q \in Refetch(pending \ {r}) : q.kind = "first" => q.of \in known
      BY <1>4, <2>1
    <3> QED BY <2>1, <3>1, <3>2, <3>3 DEF KnownOk
  <2> QED BY <2>2, <2>3
<1>8. CASE SocketEvent \/ IpcEvent
  <2>1. UNCHANGED <<known, pending>>
    BY <1>8, DeliverIs DEF GoBlank, Take, placeVars
  <2> QED BY <1>1, <2>1 DEF KnownOk
<1>9. CASE Connect
  <2>1. UNCHANGED <<known, pending>>
    BY <1>9 DEF Connect, placeVars
  <2> QED BY <1>1, <2>1 DEF KnownOk
<1>10. CASE Users
  <2>1. ASSUME NEW p \in Project, SwitchProject(p) PROVE KnownOk'
    <3> DEFINE old == Soiled(pending)
               asked == Start("views", p, old)
    <3>1. UNCHANGED known /\ pending' = IF p \in known THEN Start("first", p, asked) ELSE asked
      BY <2>1 DEF SwitchProject, Soiled
    <3>2. Requests(old) /\ \A q \in old : \E r \in pending : q.kind = r.kind /\ q.of = r.of
      BY <1>1, SoiledIs
    <3>3. Requests(old) /\ \A r \in old : r.kind = "first" => r.of \in known
      BY <1>1, <3>2
    <3> HIDE DEF old
    <3>4. Requests(asked) /\ \A r \in asked : r \in old \/ r.kind = "views"
      BY <3>3, StartIs
    <3> HIDE DEF asked
    <3>5. PICK R : R = Start("first", p, asked)
      OBVIOUS
    <3>6. \A r \in R : r \in asked \/ r.of = p
      BY <3>4, <3>5, StartIs
    <3> QED BY <3>1, <3>3, <3>4, <3>5, <3>6 DEF KnownOk
  <2>2. CASE Resume
    <3>1. UNCHANGED known /\ pending' = Refetch(pending)
      BY <2>2 DEF Resume, placeVars
    <3>2. \A q \in Refetch(pending) : q.kind = "first" => q.of \in known
      BY <1>1, <1>4
    <3> QED BY <3>1, <3>2 DEF KnownOk
  <2>3. CASE SaveFilter \/ RemoveFilter \/ ApplyPresetFilter
    <3>1. PICK kind, f : kind \in FilterKind /\ SendFilter(kind, f)
      BY <2>3 DEF SaveFilter, RemoveFilter, ApplyPresetFilter, FilterKind
    <3>2. PICK q : q = Ask(kind, project, MaxId + 1, f, pending)
      OBVIOUS
    <3>3. UNCHANGED known /\ pending' = Spoil(project, pending) \cup {q} /\ q.kind = kind
      BY <3>1, <3>2 DEF SendFilter, placeVars, Ask
    <3>4. \A r \in Spoil(project, pending) : r.kind = "first" => r.of \in known
      BY <1>1, <1>3
    <3> QED BY <3>1, <3>3, <3>4 DEF KnownOk, FilterKind
  <2>4. CASE LoadMore \/ ClearLogs
    <3>1. PICK kind, max :
            /\ kind \in {"more", "clear"}
            /\ pending' = pending \cup {Ask(kind, project, max, NoFilter, pending)}
      BY <2>4 DEF LoadMore, ClearLogs
    <3>2. Ask(kind, project, max, NoFilter, pending).kind = kind
      BY DEF Ask
    <3>3. UNCHANGED known
      BY <2>4 DEF LoadMore, ClearLogs, placeVars
    <3> QED BY <1>1, <3>1, <3>2, <3>3 DEF KnownOk
  <2>5. CASE Pause \/ SelectRow
    <3>1. UNCHANGED <<known, pending>>
      BY <2>5 DEF Pause, SelectRow, placeVars
    <3> QED BY <1>1, <3>1 DEF KnownOk
  <2> QED BY <1>10, <2>1, <2>2, <2>3, <2>4, <2>5 DEF Users
<1> QED BY <1>5, <1>6, <1>7, <1>8, <1>9, <1>10, StepIs

LEMMA TypedKept ==
  ASSUME Typed, KnownOk, Next
  PROVE  Typed'
BY StepIs, ChangeTyped, UserTyped, ConnectTyped, AnswerTyped, ServeTyped, EventTyped

-----------------------------------------------------------------------------
(* The filter bar.                                                          *)

\* The saves of filters under way.
Saving == {r \in pending : r.kind \in FilterKind \ {"preset"}}

\* While a clean answer with filters is awaited none of them is being saved.
ViewsOk ==
    \A r \in pending : r.kind = "views" /\ r.clean =>
        /\ r.of = project
        /\ \A other \in pending : other.kind \notin FilterKind
        /\ r.answered => r.chips = filters[r.of]

\* At most one save is under way, and the filter bar waits for it.
ChipsOk ==
    chipsTrusted =>
        /\ \A r \in pending : r.kind \in FilterKind => r.of = project
        /\ \A r \in Saving : filterSaving /\ \A other \in Saving : other = r
        /\ \A r \in Saving :
             filters[project] = IF r.answered THEN ChipsAfter(r) ELSE chips
        /\ Saving = {} => chips = filters[project]

\* How each step goes about the requests: q is r, perhaps spoilt or answered.
Same(q, r) ==
    /\ q.kind = r.kind /\ q.of = r.of /\ q.max = r.max /\ q.filter = r.filter
    /\ q.clean => r.clean

Untouched(q, r) == Same(q, r) /\ q.answered = r.answered /\ q.rows = r.rows /\ q.chips = r.chips

LEMMA MarkedSame ==
  ASSUME NEW S, Requests(S), NEW p, NEW q \in Spoil(p, S)
  PROVE  \E r \in S : /\ q = Mark(p, r) /\ Untouched(q, r)
                      /\ q.clean => q = r /\ q.of # p
<1>1. PICK r \in S : q = Mark(p, r)
  BY SpoilIs
<1>2. r \in Request
  BY DEF Requests
<1> QED BY <1>1, <1>2, MarkIs DEF Untouched, Same

\* The views that are awaited stay as they are.
LEMMA ViewsFrame ==
  ASSUME ViewsOk, UNCHANGED <<filters, project>>,
         \A q \in pending' : q.kind = "views" /\ q.clean =>
            /\ \E r \in pending : r.kind = "views" /\ r.clean /\ q.of = r.of
            /\ q.answered => q.chips = filters[q.of],
         \A q \in pending' : q.kind \in FilterKind => \E r \in pending : r.kind \in FilterKind
  PROVE  ViewsOk'
BY DEF ViewsOk

\* Requests of other kinds come, and requests go.
LEMMA ViewsKept ==
  ASSUME ViewsOk, UNCHANGED <<filters, project>>,
         \A q \in pending' : q \notin pending => q.kind \notin {"views"} \cup FilterKind
  PROVE  ViewsOk'
<1>1. \A q \in pending' : q.kind \in {"views"} \cup FilterKind => q \in pending
  OBVIOUS
<1> QED BY <1>1 DEF ViewsOk

\* Clean answers with filters are spoilt, if there were any.
LEMMA ViewsGone ==
  ASSUME \A q \in pending' : ~(q.kind = "views" /\ q.clean)
  PROVE  ViewsOk'
BY DEF ViewsOk

LEMMA ViewsOkKept ==
  ASSUME Typed, ViewsOk, Next
  PROVE  ViewsOk'
<1>1. Requests(pending) /\ project \in Project /\ pending \subseteq Request
  BY DEF Typed, TypeOk, Requests
<1>2. ASSUME NEW p \in Project, LogArrives(p) \/ LogUpdated(p) \/ LogTrimmed(p)
      PROVE  ViewsOk'
  <2>1. pending' = Spoil(p, pending) /\ UNCHANGED <<filters, project>>
    BY <1>2, ChangeIs DEF Disturb, placeVars
  <2>2. \A q \in pending' : \E r \in pending : Untouched(q, r)
    BY <1>1, <2>1, MarkedSame
  <2> QED BY <2>1, <2>2, ViewsFrame DEF Untouched, Same, ViewsOk
<1>3. ASSUME NEW r \in pending, ServeQuery(r)
      PROVE  ViewsOk'
  <2> DEFINE page == IF r.kind = "views" THEN <<>> ELSE LogViewLogs(r.of, r.max)
             stored == IF r.kind = "views" THEN filters[r.of] ELSE {}
             g == Given(r, page, stored)
  <2>1. /\ pending' = (pending \ {r}) \cup {g} /\ r.kind \in {"views", "first", "more"}
        /\ UNCHANGED <<filters, project>>
    BY <1>3 DEF ServeQuery, Answer, Given, serverVars, placeVars
  <2>2. g.kind = r.kind /\ g.of = r.of /\ g.clean = r.clean /\ g.chips = stored
    BY <1>1 DEF Given, Request
  <2>3. r.kind \notin FilterKind
    BY <2>1 DEF FilterKind
  <2>4. r.kind = "views" => stored = filters[r.of]
    OBVIOUS
  <2> HIDE DEF page, stored, g
  <2> QED BY <2>1, <2>2, <2>3, <2>4, ViewsFrame DEF ViewsOk
<1>4. ASSUME NEW r \in pending, ServeFilter(r) \/ ServeClear(r)
      PROVE  ViewsOk'
  <2>1. PICK g : g = Given(r, <<>>, {})
    OBVIOUS
  <2>2. /\ pending' = Spoil(r.of, pending \ {r}) \cup {g}
        /\ r.kind \in FilterKind \cup {"clear"} /\ UNCHANGED project
        /\ r.kind \notin FilterKind => UNCHANGED filters
    BY <1>4, <2>1 DEF ServeFilter, ServeClear, Answer, Given, placeVars
  <2>3. g.kind = r.kind
    BY <1>1, <2>1 DEF Given, Request
  <2>4. Requests(pending \ {r})
    BY <1>1 DEF Requests
  <2>5. \A q \in pending' : q = g \/ \E o \in pending : Untouched(q, o)
    BY <2>2, <2>4, MarkedSame
  <2>6. CASE r.kind \in FilterKind
    <3>1. \A o \in pending : ~(o.kind = "views" /\ o.clean)
      BY <2>6 DEF ViewsOk
    <3>2. g.kind # "views"
      BY <2>3, <2>6 DEF FilterKind
    <3> QED BY <2>5, <3>1, <3>2, ViewsGone DEF Untouched, Same
  <2>7. CASE r.kind \notin FilterKind
    <3>1. g.kind = "clear" /\ g.kind \notin FilterKind
      BY <2>2, <2>3, <2>7
    <3> QED BY <2>2, <2>5, <2>7, <3>1, ViewsFrame DEF Untouched, Same, ViewsOk
  <2> QED BY <2>6, <2>7
<1>5. ASSUME NEW r \in pending, Answers(r) \/ Fails(r)
      PROVE  ViewsOk'
  <2>1. UNCHANGED <<filters, project>>
    BY <1>5 DEF Answers, ViewsArrive, FirstArrives, MoreArrives, PageDropped, FilterSaved,
                SaveDropped, PresetSaved, LogsCleared, Emptied, Done, Fails, placeVars, serverVars
  <2>2. \/ pending' = pending \ {r} \/ pending' = Refetch(pending \ {r})
        \/ pending' = Start("first", r.of, pending \ {r})
    BY <1>5 DEF Answers, ViewsArrive, FirstArrives, MoreArrives, PageDropped, FilterSaved,
                SaveDropped, PresetSaved, LogsCleared, Emptied, Done, Fails
  <2>3. Requests(pending \ {r}) /\ r.of \in Project
    BY <1>1 DEF Requests, Request
  <2>4. PICK R : R = Refetch(pending \ {r})
    OBVIOUS
  <2>5. \A q \in R : q \in pending \/ q.kind = "first"
    BY <1>1, <2>3, <2>4, RefetchIs
  <2>6. PICK T : T = Start("first", r.of, pending \ {r})
    OBVIOUS
  <2>7. \A q \in T : q \in pending \/ q.kind = "first"
    BY <2>3, <2>6, StartIs
  <2>8. \A q \in pending' : q \notin pending => q.kind \notin {"views"} \cup FilterKind
    BY <2>2, <2>4, <2>5, <2>6, <2>7 DEF FilterKind
  <2> QED BY <2>1, <2>8, ViewsKept
<1>6. CASE SocketEvent \/ IpcEvent
  <2>1. UNCHANGED <<filters, project>> /\ UNCHANGED pending
    BY <1>6, DeliverIs DEF GoBlank, Take, placeVars, serverVars
  <2> QED BY <2>1, ViewsKept
<1>7. CASE Connect \/ Pause \/ SelectRow
  <2>1. UNCHANGED <<filters, project>> /\ UNCHANGED pending
    BY <1>7 DEF Connect, Pause, SelectRow, placeVars, serverVars
  <2> QED BY <2>1, ViewsKept
<1>8. CASE LoadMore \/ ClearLogs
  <2>1. PICK kind, max :
          /\ kind \in {"more", "clear"}
          /\ pending' = pending \cup {Ask(kind, project, max, NoFilter, pending)}
    BY <1>8 DEF LoadMore, ClearLogs
  <2>2. Ask(kind, project, max, NoFilter, pending).kind = kind
    BY DEF Ask
  <2>3. UNCHANGED <<filters, project>>
    BY <1>8 DEF LoadMore, ClearLogs, placeVars, serverVars
  <2>4. \A q \in pending' : q \notin pending => q.kind \notin {"views"} \cup FilterKind
    BY <2>1, <2>2 DEF FilterKind
  <2> QED BY <2>3, <2>4, ViewsKept
<1>9. CASE Resume
  <2>1. PICK R : R = Refetch(pending)
    OBVIOUS
  <2>2. \A q \in R : q \notin pending => q.kind = "first"
    BY <1>1, <2>1, RefetchIs
  <2>3. UNCHANGED <<filters, project>> /\ pending' = R
    BY <1>9, <2>1 DEF Resume, placeVars, serverVars
  <2>4. \A q \in pending' : q \notin pending => q.kind \notin {"views"} \cup FilterKind
    BY <2>2, <2>3 DEF FilterKind
  <2> QED BY <2>3, <2>4, ViewsKept
<1>10. ASSUME NEW kind \in FilterKind, NEW f, SendFilter(kind, f)
       PROVE  ViewsOk'
  <2>1. PICK q : q = Ask(kind, project, MaxId + 1, f, pending)
    OBVIOUS
  <2>2. pending' = Spoil(project, pending) \cup {q} /\ q.kind # "views"
    BY <1>10, <2>1 DEF SendFilter, Ask, FilterKind
  <2>3. \A o \in Spoil(project, pending) : o.clean => o \in pending /\ o.of # project
    BY <1>1, MarkedSame
  <2>4. \A o \in pending : o.kind = "views" /\ o.clean => o.of = project
    BY DEF ViewsOk
  <2> QED BY <2>2, <2>3, <2>4, ViewsGone
<1>11. CASE SaveFilter \/ RemoveFilter \/ ApplyPresetFilter
  <2>1. \E kind \in FilterKind : \E f : SendFilter(kind, f)
    BY <1>11 DEF SaveFilter, RemoveFilter, ApplyPresetFilter, FilterKind
  <2> QED BY <1>10, <2>1
<1>12. ASSUME NEW p \in Project, SwitchProject(p)
       PROVE  ViewsOk'
  <2> DEFINE old == Soiled(pending)
             asked == Start("views", p, old)
             first == Start("first", p, asked)
  <2>1. project' = p /\ pending' = IF p \in known THEN first ELSE asked
    BY <1>12 DEF SwitchProject, Soiled
  <2>2. Requests(old) /\ \A q \in old : ~q.clean
    BY <1>1, SoiledIs
  <2> HIDE DEF old
  <2>3. /\ Requests(asked) /\ old \subseteq asked
        /\ \A r \in asked : r \notin old =>
             /\ r.kind = "views" /\ r.of = p /\ ~r.answered
             /\ r.clean = Quiet("views", old)
    BY <2>2, StartIs
  <2> HIDE DEF asked
  <2>4. \A r \in first : r \notin asked => r.kind = "first"
    BY <2>3, StartIs
  <2> HIDE DEF first
  <2>5. pending' \subseteq first \cup asked
    BY <2>1
  <2>6. Quiet("views", old) => \A r \in old : r.kind \notin FilterKind
    BY DEF Quiet
  <2>7. \A q \in pending' : q.kind = "views" /\ q.clean =>
          q.of = p /\ ~q.answered /\ Quiet("views", old)
    BY <2>2, <2>3, <2>4, <2>5
  <2>8. Quiet("views", old) => \A q \in pending' : q.kind \notin FilterKind
    <3>1. "views" \notin FilterKind /\ "first" \notin FilterKind
      BY DEF FilterKind
    <3> QED BY <2>3, <2>4, <2>5, <2>6, <3>1
  <2> QED BY <2>1, <2>7, <2>8 DEF ViewsOk
<1>13. CASE Users
  BY <1>7, <1>8, <1>9, <1>11, <1>12, <1>13 DEF Users
<1> QED BY <1>2, <1>3, <1>4, <1>5, <1>6, <1>7, <1>13, StepIs

\* The saves under way stay the same, perhaps with their answers spoilt.
SavesKept(m) ==
    /\ Saving' = {m[r] : r \in Saving}
    /\ \A r \in Saving : /\ m[r].kind = r.kind /\ m[r].filter = r.filter
                         /\ m[r].answered = r.answered

LEMMA ChipsFrame ==
  ASSUME ChipsOk, chipsTrusted' => chipsTrusted,
         UNCHANGED <<filters, project, chips, filterSaving>>,
         \A q \in pending' : q.kind \in FilterKind =>
            q.of = project \/ \E r \in pending : r.kind \in FilterKind /\ r.of = q.of,
         NEW m, SavesKept(m)
  PROVE  ChipsOk'
<1>0. /\ Saving' = {m[r] : r \in Saving}
      /\ \A r \in Saving : /\ m[r].kind = r.kind /\ m[r].filter = r.filter
                           /\ m[r].answered = r.answered
  BY DEF SavesKept
<1> SUFFICES ASSUME chipsTrusted'
             PROVE  /\ \A q \in pending' : q.kind \in FilterKind => q.of = project
                    /\ \A q \in Saving' : filterSaving /\ \A other \in Saving' : other = q
                    /\ \A q \in Saving' :
                         filters[project] = IF q.answered THEN ChipsAfter(q) ELSE chips
                    /\ Saving' = {} => chips = filters[project]
  BY DEF ChipsOk, ChipsAfter
<1>1. /\ \A r \in pending : r.kind \in FilterKind => r.of = project
      /\ \A r \in Saving : filterSaving /\ \A other \in Saving : other = r
      /\ \A r \in Saving :
           filters[project] = IF r.answered THEN ChipsAfter(r) ELSE chips
      /\ Saving = {} => chips = filters[project]
  BY DEF ChipsOk
<1>2. \A q \in pending' : q.kind \in FilterKind => q.of = project
  BY <1>1
<1>3. ASSUME NEW r \in Saving
      PROVE  filters[project] = IF m[r].answered THEN ChipsAfter(m[r]) ELSE chips
  <2>1. ChipsAfter(m[r]) = ChipsAfter(r)
    BY <1>0 DEF ChipsAfter
  <2> QED BY <1>0, <1>1, <2>1
<1>4. Saving' = {} => Saving = {}
  BY <1>0
<1> QED BY <1>0, <1>1, <1>2, <1>3, <1>4

\* Requests of other kinds come and go.
LEMMA ChipsKept ==
  ASSUME ChipsOk, chipsTrusted' => chipsTrusted,
         UNCHANGED <<filters, project, chips, filterSaving>>,
         \A q \in pending' : q.kind \in FilterKind => q \in pending,
         \A r \in Saving : r \in pending'
  PROVE  ChipsOk'
<1>1. Saving' = Saving
  <2>1. Saving' = {q \in pending' : q.kind \in FilterKind \ {"preset"}}
    BY DEF Saving
  <2>2. \A q : q \in Saving <=> q \in pending /\ q.kind \in FilterKind \ {"preset"}
    BY DEF Saving
  <2> QED BY <2>1, <2>2
<1> QED BY <1>1 DEF ChipsOk, ChipsAfter

\* With nothing trusted nothing is said.
LEMMA ChipsUntrusted ==
  ASSUME chipsTrusted' = FALSE
  PROVE  ChipsOk'
BY DEF ChipsOk

\* Marking answers as spoilt leaves the saves under way.
LEMMA SavingMarked ==
  ASSUME Requests(pending), NEW p, NEW S, S \subseteq pending,
         \A r \in Saving : r \in S,
         NEW X, pending' = Spoil(p, S) \cup X, \A q \in X : q.kind \notin FilterKind \ {"preset"}
  PROVE  SavesKept([r \in pending |-> Mark(p, r)])
<1>1. \A r \in pending : r \in Request
  BY DEF Requests
<1>2. \A r \in pending : /\ Mark(p, r).kind = r.kind /\ Mark(p, r).filter = r.filter
                         /\ Mark(p, r).answered = r.answered
  BY <1>1, MarkIs
<1>3. \A q : q \in Saving <=> q \in pending /\ q.kind \in FilterKind \ {"preset"}
  BY DEF Saving
<1>4. Saving' = {q \in pending' : q.kind \in FilterKind \ {"preset"}}
  BY DEF Saving
<1>5. pending' = {Mark(p, r) : r \in S} \cup X
  BY SpoilIs
<1>6. Saving' = {Mark(p, r) : r \in Saving}
  <2>1. \A q \in Saving' : \E r \in Saving : q = Mark(p, r)
    BY <1>2, <1>3, <1>4, <1>5
  <2>2. \A r \in Saving : Mark(p, r) \in Saving'
    BY <1>2, <1>3, <1>4, <1>5
  <2> QED BY <2>1, <2>2
<1> QED BY <1>2, <1>3, <1>6 DEF SavesKept

LEMMA ChipsOkKept ==
  ASSUME Typed, ViewsOk, ChipsOk, Next
  PROVE  ChipsOk'
<1>1. /\ Requests(pending) /\ project \in Project /\ filterSaving \in BOOLEAN
      /\ chipsTrusted \in BOOLEAN /\ \A r \in pending : r \in Request
      /\ filters \in [Project -> SUBSET FilterId]
  BY DEF Typed, TypeOk, Requests
<1>2. \A q : q \in Saving <=> q \in pending /\ q.kind \in FilterKind \ {"preset"}
  BY DEF Saving
<1>3. ASSUME NEW p \in Project, LogArrives(p) \/ LogUpdated(p) \/ LogTrimmed(p)
      PROVE  ChipsOk'
  <2>1. /\ pending' = Spoil(p, pending) \cup {}
        /\ UNCHANGED <<filters, project, chips, filterSaving>> /\ UNCHANGED chipsTrusted
    BY <1>3, ChangeIs DEF Disturb, placeVars, chipVars
  <2>2. PICK m : m = [r \in pending |-> Mark(p, r)]
    OBVIOUS
  <2>3. SavesKept(m)
    <3>1. PICK X : X = {}
      OBVIOUS
    <3>2. pending' = Spoil(p, pending) \cup X /\ \A q \in X : q.kind \notin FilterKind \ {"preset"}
      BY <2>1, <3>1
    <3>3. pending \subseteq pending /\ \A r \in Saving : r \in pending
      BY <1>2
    <3> QED BY <1>1, <2>2, <3>2, <3>3, SavingMarked
  <2>4. \A q \in pending' : \E r \in pending : q.kind = r.kind /\ q.of = r.of
    BY <1>1, <2>1, MarkedSame DEF Untouched, Same
  <2> QED BY <2>1, <2>3, <2>4, ChipsFrame
<1>4. ASSUME NEW r \in pending, ServeQuery(r)
      PROVE  ChipsOk'
  <2>1. PICK page, stored : pending' = (pending \ {r}) \cup {Given(r, page, stored)}
    BY <1>4 DEF ServeQuery, Answer, Given
  <2>2. Given(r, page, stored).kind = r.kind
    BY <1>1 DEF Given, Request
  <2>3. r.kind \notin FilterKind
    BY <1>4 DEF ServeQuery, FilterKind
  <2>4. UNCHANGED <<filters, project, chips, filterSaving>> /\ UNCHANGED chipsTrusted
    BY <1>4 DEF ServeQuery, serverVars, placeVars, chipVars
  <2>5. \A q \in pending' : q.kind \in FilterKind => q \in pending
    BY <2>1, <2>2, <2>3
  <2>6. \A q \in Saving : q \in pending'
    BY <1>2, <2>1, <2>3
  <2> QED BY <2>4, <2>5, <2>6, ChipsKept
<1>5. ASSUME NEW r \in pending, ServeClear(r)
      PROVE  ChipsOk'
  <2>1. PICK g : g = Given(r, <<>>, {})
    OBVIOUS
  <2>2. /\ pending' = Spoil(r.of, pending \ {r}) \cup {g} /\ r.kind = "clear"
        /\ UNCHANGED <<filters, project, chips, filterSaving>> /\ UNCHANGED chipsTrusted
    BY <1>5, <2>1 DEF ServeClear, Answer, Given, placeVars, chipVars
  <2>3. g.kind \notin FilterKind /\ r.kind \notin FilterKind
    BY <1>1, <2>1, <2>2 DEF Given, Request, FilterKind
  <2>4. PICK m : m = [q \in pending |-> Mark(r.of, q)]
    OBVIOUS
  <2>5. PICK S : S = pending \ {r}
    OBVIOUS
  <2>6. S \subseteq pending /\ (\A q \in Saving : q \in S) /\ Requests(S)
    BY <1>1, <1>2, <2>3, <2>5 DEF Requests
  <2>7. SavesKept(m)
    <3>1. \A q \in {g} : q.kind \notin FilterKind \ {"preset"}
      BY <2>3
    <3>2. pending' = Spoil(r.of, S) \cup {g}
      BY <2>2, <2>5
    <3> QED BY <1>1, <2>4, <2>6, <3>1, <3>2, SavingMarked
  <2>8. \A q \in pending' : q = g \/ \E o \in pending : q.kind = o.kind /\ q.of = o.of
    BY <2>2, <2>5, <2>6, MarkedSame DEF Untouched, Same
  <2>9. \A q \in pending' : q.kind \in FilterKind =>
            q.of = project \/ \E o \in pending : o.kind \in FilterKind /\ o.of = q.of
    BY <2>3, <2>8
  <2> QED BY <2>2, <2>7, <2>9, ChipsFrame
\* A save or a preset is handled: the stored filters become what it makes of those shown.
<1>6. ASSUME NEW r \in pending, ServeFilter(r)
      PROVE  ChipsOk'
  <2> SUFFICES ASSUME chipsTrusted' PROVE ChipsOk'
    BY DEF ChipsOk
  <2>1. PICK g : g = Given(r, <<>>, {})
    OBVIOUS
  <2>2. /\ pending' = Spoil(r.of, pending \ {r}) \cup {g}
        /\ r.kind \in FilterKind /\ ~r.answered
        /\ UNCHANGED <<project, chips, filterSaving>> /\ UNCHANGED chipsTrusted
        /\ filters' = [filters EXCEPT ![r.of] =
               CASE r.kind = "create" -> filters[r.of] \cup {r.filter}
                 [] r.kind = "remove" -> filters[r.of] \ {r.filter}
                 [] OTHER -> filters[r.of]]
    BY <1>6, <2>1 DEF ServeFilter, Answer, Given, placeVars, chipVars
  <2>3. g.kind = r.kind /\ g.of = r.of /\ g.filter = r.filter /\ g.answered
    BY <1>1, <2>1 DEF Given, Request
  <2>4. /\ \A q \in pending : q.kind \in FilterKind => q.of = project
        /\ \A q \in Saving : filterSaving /\ \A other \in Saving : other = q
        /\ \A q \in Saving :
             filters[project] = IF q.answered THEN ChipsAfter(q) ELSE chips
        /\ Saving = {} => chips = filters[project]
    BY <2>2 DEF ChipsOk
  <2>5. PICK S : S = pending \ {r}
    OBVIOUS
  <2>6. S \subseteq pending /\ Requests(S) /\ r.of = project
    BY <1>1, <2>2, <2>4, <2>5 DEF Requests
  <2>7. \A q \in pending' : q = g \/ \E o \in S : Untouched(q, o)
    BY <2>2, <2>5, <2>6, MarkedSame
  <2>8. \A q \in pending' : q.kind \in FilterKind => q.of = project'
    BY <2>2, <2>3, <2>4, <2>6, <2>7 DEF Untouched, Same
  <2>9. \A q : q \in Saving' <=> q \in pending' /\ q.kind \in FilterKind \ {"preset"}
    BY DEF Saving
  <2>10. filters'[project] = CASE r.kind = "create" -> filters[project] \cup {r.filter}
                               [] r.kind = "remove" -> filters[project] \ {r.filter}
                               [] OTHER -> filters[project]
    BY <1>1, <2>2, <2>6
  <2>11. CASE r.kind # "preset"
    <3>1. r \in Saving
      BY <1>2, <2>2, <2>11
    <3>2. \A o \in S : o.kind \notin FilterKind \ {"preset"}
      BY <1>2, <2>4, <2>5, <3>1
    <3>3. Saving' = {g}
      <4>1. \A q \in Saving' : q = g
        BY <2>7, <2>9, <3>2 DEF Untouched, Same
      <4>2. g \in Saving'
        BY <2>2, <2>3, <2>9, <2>11
      <4> QED BY <4>1, <4>2
    <3>4. filters[project] = chips /\ filterSaving
      BY <2>2, <2>4, <3>1
    <3>5. filters'[project] = ChipsAfter(g)
      BY <2>3, <2>10, <3>4 DEF ChipsAfter
    <3>6. ChipsAfter(g)' = ChipsAfter(g)
      BY <2>2, <3>3 DEF ChipsAfter
    <3> QED BY <2>2, <2>3, <2>8, <3>3, <3>4, <3>5 DEF ChipsOk, ChipsAfter
  <2>12. CASE r.kind = "preset"
    <3>1. filters' = filters
      <4>1. filters'[project] = filters[project]
        BY <2>10, <2>12
      <4> QED BY <1>1, <2>2, <2>6, <4>1
    <3>2. PICK m : m = [q \in pending |-> Mark(r.of, q)]
      OBVIOUS
    <3>3. \A q \in Saving : q \in S
      BY <1>2, <2>5, <2>12
    <3>4. SavesKept(m)
      <4>1. \A q \in {g} : q.kind \notin FilterKind \ {"preset"}
        BY <2>3, <2>12
      <4>2. pending' = Spoil(r.of, S) \cup {g}
        BY <2>2, <2>5
      <4> QED BY <1>1, <2>6, <3>2, <3>3, <4>1, <4>2, SavingMarked
    <3>5. \A q \in pending' : q.kind \in FilterKind =>
            q.of = project \/ \E o \in pending : o.kind \in FilterKind /\ o.of = q.of
      BY <2>2, <2>8
    <3> QED BY <2>2, <3>1, <3>4, <3>5, ChipsFrame
  <2> QED BY <2>11, <2>12
<1>7. ASSUME NEW r \in pending, ViewsArrive(r)
      PROVE  ChipsOk'
  <2> SUFFICES ASSUME chipsTrusted' PROVE ChipsOk'
    BY DEF ChipsOk
  <2>1. /\ r.answered /\ r.kind = "views" /\ r.of = project /\ r.clean
        /\ chips' = r.chips /\ UNCHANGED <<filters, project>>
        /\ \/ pending' = pending \ {r} \/ pending' = Start("first", r.of, pending \ {r})
    BY <1>7 DEF ViewsArrive, serverVars
  <2>2. r.chips = filters[project] /\ \A o \in pending : o.kind \notin FilterKind
    BY <2>1 DEF ViewsOk
  <2>3. Requests(pending \ {r}) /\ r.of \in Project
    BY <1>1, <2>1 DEF Requests
  <2>4. PICK T : T = Start("first", r.of, pending \ {r})
    OBVIOUS
  <2>5. \A q \in T : q \in pending \/ q.kind = "first"
    BY <2>3, <2>4, StartIs
  <2>6. \A q \in pending' : q.kind \notin FilterKind
    BY <2>1, <2>2, <2>4, <2>5 DEF FilterKind
  <2>7. Saving' = {}
    BY <2>6 DEF Saving
  <2> QED BY <2>1, <2>2, <2>6, <2>7 DEF ChipsOk
\* The answer to a save arrives: it was the only one.
<1>8. ASSUME NEW r \in pending, FilterSaved(r)
      PROVE  ChipsOk'
  <2> SUFFICES ASSUME chipsTrusted' PROVE ChipsOk'
    BY DEF ChipsOk
  <2>1. /\ r.answered /\ r.kind \in FilterKind \ {"preset"} /\ chipsTrusted
        /\ chips' = ChipsAfter(r) /\ UNCHANGED <<filters, project>>
        /\ pending' = Refetch(pending \ {r})
    BY <1>8 DEF FilterSaved, serverVars, placeVars
  <2>2. r \in Saving
    BY <1>2, <2>1
  <2>3. /\ \A q \in pending : q.kind \in FilterKind => q.of = project
        /\ \A q \in Saving : q = r
        /\ filters[project] = ChipsAfter(r)
    BY <2>1, <2>2 DEF ChipsOk
  <2>4. Requests(pending \ {r})
    BY <1>1 DEF Requests
  <2>5. PICK R : R = Refetch(pending \ {r})
    OBVIOUS
  <2>6. \A q \in R : q \in pending \ {r} \/ q.kind = "first"
    BY <1>1, <2>4, <2>5, RefetchIs
  <2>7. \A q \in pending' : q.kind \in FilterKind => q \in pending \ {r}
    BY <2>1, <2>5, <2>6 DEF FilterKind
  <2>8. \A q \in pending' : q.kind \in FilterKind => q.of = project
    BY <2>3, <2>7
  <2>9. Saving' = {}
    <3>1. \A q \in pending' : q.kind \notin FilterKind \ {"preset"}
      BY <1>2, <2>3, <2>7
    <3> QED BY <3>1 DEF Saving
  <2> QED BY <2>1, <2>3, <2>8, <2>9 DEF ChipsOk
\* Other answers: a save is not among them, or it is not for the project shown.
<1>9. ASSUME NEW r \in pending, Answers(r) \/ Fails(r), ~ViewsArrive(r), ~FilterSaved(r)
      PROVE  ChipsOk'
  <2> SUFFICES ASSUME chipsTrusted' PROVE ChipsOk'
    BY DEF ChipsOk
  <2>1. /\ UNCHANGED <<filters, project, chips>> /\ chipsTrusted
        /\ SaveDropped(r) \/ (UNCHANGED filterSaving /\ r.kind \notin FilterKind \ {"preset"})
    <3>1. CASE Fails(r)
      <4>1. /\ UNCHANGED <<filters, project, chips>> /\ chipsTrusted
            /\ r.kind \notin FilterKind
        BY <3>1 DEF Fails, placeVars, serverVars
      <4>2. filterSaving' = filterSaving
        BY <1>1, <3>1, <4>1 DEF Fails
      <4> QED BY <4>1, <4>2
    <3>2. CASE Answers(r)
      BY <1>9, <3>2 DEF Answers, FirstArrives, MoreArrives, PageDropped, FilterKind,
                SaveDropped, PresetSaved, LogsCleared, Emptied, Done, placeVars, serverVars,
                chipVars
    <3> QED BY <1>9, <3>1, <3>2
  <2>2. ~SaveDropped(r)
    BY <2>1 DEF SaveDropped, ChipsOk
  <2>3. pending' = pending \ {r} \/ pending' = Refetch(pending \ {r})
    BY <1>9 DEF Answers, FirstArrives, MoreArrives, PageDropped, 
                SaveDropped, PresetSaved, LogsCleared, Emptied, Done, Fails
  <2>4. Requests(pending \ {r})
    BY <1>1 DEF Requests
  <2>5. PICK R : R = Refetch(pending \ {r})
    OBVIOUS
  <2>6. /\ \A q \in R : q \in pending \ {r} \/ q.kind = "first"
        /\ pending \ {r} \subseteq R
    BY <1>1, <2>4, <2>5, RefetchIs
  <2>7. \A q \in pending' : q.kind \in FilterKind => q \in pending
    BY <2>3, <2>5, <2>6 DEF FilterKind
  <2>8. \A q \in Saving : q \in pending'
    BY <1>2, <2>1, <2>2, <2>3, <2>5, <2>6
  <2> QED BY <2>1, <2>2, <2>7, <2>8, ChipsKept
<1>10. CASE SocketEvent \/ IpcEvent
  <2>1. GoBlank \/ \E selection : Take(Head(channel), selection)
    BY <1>10, DeliverIs
  <2>2. CASE GoBlank
    BY <2>2, ChipsUntrusted DEF GoBlank
  <2>3. CASE \E selection : Take(Head(channel), selection)
    <3>1. UNCHANGED <<filters, project, chips, filterSaving>> /\ UNCHANGED chipsTrusted
          /\ UNCHANGED pending
      BY <2>3 DEF Take, placeVars, serverVars, chipVars
    <3> QED BY <1>2, <3>1, ChipsKept
  <2> QED BY <2>1, <2>2, <2>3
<1>11. CASE Connect \/ Pause \/ SelectRow
  <2>1. UNCHANGED <<filters, project, chips, filterSaving>> /\ UNCHANGED chipsTrusted
        /\ UNCHANGED pending
    BY <1>11 DEF Connect, Pause, SelectRow, placeVars, serverVars, chipVars
  <2> QED BY <1>2, <2>1, ChipsKept
<1>12. CASE LoadMore \/ ClearLogs
  <2>1. PICK kind, max :
          /\ kind \in {"more", "clear"}
          /\ pending' = pending \cup {Ask(kind, project, max, NoFilter, pending)}
    BY <1>12 DEF LoadMore, ClearLogs
  <2>2. Ask(kind, project, max, NoFilter, pending).kind = kind
    BY DEF Ask
  <2>3. UNCHANGED <<filters, project, chips, filterSaving>> /\ UNCHANGED chipsTrusted
    BY <1>12 DEF LoadMore, ClearLogs, placeVars, serverVars, chipVars
  <2>4. \A q \in pending' : q.kind \in FilterKind => q \in pending
    BY <2>1, <2>2 DEF FilterKind
  <2>5. \A q \in Saving : q \in pending'
    BY <1>2, <2>1
  <2> QED BY <2>3, <2>4, <2>5, ChipsKept
<1>13. CASE Resume
  <2>1. PICK R : R = Refetch(pending)
    OBVIOUS
  <2>2. pending \subseteq R /\ \A q \in R : q \notin pending => q.kind = "first"
    BY <1>1, <2>1, RefetchIs
  <2>3. /\ UNCHANGED <<filters, project, chips, filterSaving>> /\ UNCHANGED chipsTrusted
        /\ pending' = R
    BY <1>13, <2>1 DEF Resume, placeVars, serverVars, chipVars
  <2>4. \A q \in pending' : q.kind \in FilterKind => q \in pending
    BY <2>2, <2>3 DEF FilterKind
  <2>5. \A q \in Saving : q \in pending'
    BY <1>2, <2>2, <2>3
  <2> QED BY <2>3, <2>4, <2>5, ChipsKept
<1>14. CASE ApplyPresetFilter
  <2>1. PICK q : q = Ask("preset", project, MaxId + 1, NoFilter, pending)
    OBVIOUS
  <2>2. /\ pending' = Spoil(project, pending) \cup {q}
        /\ UNCHANGED <<filters, project, chips, filterSaving>> /\ UNCHANGED chipsTrusted
        /\ q.kind = "preset" /\ q.of = project
    BY <1>14, <2>1 DEF ApplyPresetFilter, SendFilter, Ask, placeVars, serverVars
  <2>3. PICK m : m = [r \in pending |-> Mark(project, r)]
    OBVIOUS
  <2>4. SavesKept(m)
    <3>1. PICK X : X = {q}
      OBVIOUS
    <3>2. /\ \A o \in X : o.kind \notin FilterKind \ {"preset"}
          /\ pending' = Spoil(project, pending) \cup X
      BY <2>2, <3>1
    <3>3. \A r \in Saving : r \in pending
      BY DEF Saving
    <3>4. SavesKept([r \in pending |-> Mark(project, r)])
      BY <1>1, <3>2, <3>3, SavingMarked
    <3> QED BY <2>3, <3>4
  <2>5. \A o \in pending' : o = q \/ \E r \in pending : o.kind = r.kind /\ o.of = r.of
    BY <1>1, <2>2, MarkedSame DEF Untouched, Same
  <2>6. \A o \in pending' : o.kind \in FilterKind =>
            o.of = project \/ \E r \in pending : r.kind \in FilterKind /\ r.of = o.of
    BY <2>2, <2>5
  <2> QED BY <2>2, <2>4, <2>6, ChipsFrame
\* A save begins when none is under way.
<1>15. CASE SaveFilter \/ RemoveFilter
  <2> SUFFICES ASSUME chipsTrusted' PROVE ChipsOk'
    BY DEF ChipsOk
  <2>1. PICK kind, f : kind \in FilterKind \ {"preset"} /\ SendFilter(kind, f)
    BY <1>15 DEF SaveFilter, RemoveFilter, FilterKind
  <2>2. PICK q : q = Ask(kind, project, MaxId + 1, f, pending)
    OBVIOUS
  <2>3. /\ pending' = Spoil(project, pending) \cup {q}
        /\ UNCHANGED <<filters, project, chips>> /\ chipsTrusted
        /\ q.kind = kind /\ q.of = project /\ q.answered = FALSE
    BY <2>1, <2>2 DEF SendFilter, Ask, placeVars, serverVars
  <2>4. ~filterSaving /\ filterSaving' = TRUE
    BY <1>15 DEF SaveFilter, RemoveFilter
  <2>5. /\ \A r \in pending : r.kind \in FilterKind => r.of = project
        /\ Saving = {} /\ chips = filters[project]
    BY <2>3, <2>4 DEF ChipsOk
  <2>6. \A o \in pending' : o = q \/ \E r \in pending : o.kind = r.kind /\ o.of = r.of
    BY <1>1, <2>3, MarkedSame DEF Untouched, Same
  <2>7. \A o \in pending' : o.kind \in FilterKind => o.of = project
    BY <2>3, <2>5, <2>6
  <2>8. Saving' = {q}
    <3>1. \A o : o \in Saving' <=> o \in pending' /\ o.kind \in FilterKind \ {"preset"}
      BY DEF Saving
    <3>2. \A o \in Saving' : o = q
      BY <1>2, <2>5, <2>6, <3>1
    <3>3. q \in Saving'
      BY <2>1, <2>3, <3>1
    <3> QED BY <3>2, <3>3
  <2> QED BY <2>3, <2>4, <2>5, <2>7, <2>8 DEF ChipsOk
<1>16. ASSUME NEW p \in Project, SwitchProject(p)
       PROVE  ChipsOk'
  BY <1>16, ChipsUntrusted DEF SwitchProject
<1>17. CASE Users
  BY <1>11, <1>12, <1>13, <1>14, <1>15, <1>16, <1>17 DEF Users
<1> QED BY <1>3, <1>4, <1>5, <1>6, <1>7, <1>8, <1>9, <1>10, <1>11, <1>17, StepIs

-----------------------------------------------------------------------------
(* The list.                                                                *)

IsPage(r) == r.kind \in {"first", "more"} /\ r.clean

\* A clean page of the list is the only one, nothing of its project is on its
\* way, and its answer is what the view lists now.
PagesOk ==
    \A r \in pending : IsPage(r) =>
        /\ r.of = project
        /\ \A x \in Int : Unheard(channel, project, x)
        /\ r.answered => r.rows = Page(Listed(project), r.max)
        /\ \A other \in pending : IsPage(other) => other = r
        /\ r.kind = "first" => r.max = MaxId + 1
        /\ r.kind = "more" /\ trusted => rows # << >> /\ r.max = rows[Len(rows)].id

ListOk == trusted => Follows(channel, project, Listed(project), rows, hasMore)

\* A step that leaves a page on its way as good as it was.
Calm ==
    /\ UNCHANGED project /\ Listed(project)' = Listed(project)
    /\ \A x \in Int : Unheard(channel, project, x) => Unheard(channel, project, x)'
    /\ trusted' => trusted /\ rows' = rows

\* q is a page asked for when S was under way.
Fresh(q, S) ==
    /\ q.of = project' /\ ~q.answered /\ Quiet(q.kind, S)
    /\ q.kind = "first" => q.max = MaxId + 1
    /\ q.kind = "more" => rows' # << >> /\ q.max = rows'[Len(rows')].id

LEMMA PagesFrame ==
  ASSUME PagesOk, NEW S,
         \A q \in pending' : IsPage(q) => q \in S \/ Fresh(q, S),
         \A q, r \in pending' : q \notin S /\ r \notin S /\ IsPage(q) /\ IsPage(r) => q = r,
         \A q \in S : IsPage(q) => q \in pending /\ Calm,
         channel = << >> => channel' = << >>
  PROVE  PagesOk'
<1> SUFFICES ASSUME NEW q \in pending', IsPage(q)
             PROVE  /\ q.of = project'
                    /\ \A x \in Int : Unheard(channel, project, x)'
                    /\ q.answered => q.rows = Page(Listed(project)', q.max)
                    /\ \A other \in pending' : IsPage(other) => other = q
                    /\ q.kind = "first" => q.max = MaxId + 1
                    /\ q.kind = "more" /\ trusted' =>
                         rows' # << >> /\ q.max = rows'[Len(rows')].id
  BY DEF PagesOk, IsPage, Page
<1>1. q.kind # "views"
  BY DEF IsPage
<1>2. CASE q \in S
  <2>1. q \in pending /\ Calm
    BY <1>2
  <2>2. /\ q.of = project
        /\ \A x \in Int : Unheard(channel, project, x)
        /\ q.answered => q.rows = Page(Listed(project), q.max)
        /\ \A other \in pending : IsPage(other) => other = q
        /\ q.kind = "first" => q.max = MaxId + 1
        /\ q.kind = "more" /\ trusted => rows # << >> /\ q.max = rows[Len(rows)].id
    BY <2>1 DEF PagesOk
  <2>3. \A other \in pending' : IsPage(other) => other \in S
    <3>1. \A other \in pending' : IsPage(other) /\ Quiet(other.kind, S) => FALSE
      BY <1>1, <1>2 DEF Quiet, IsPage
    <3> QED BY <3>1 DEF Fresh
  <2> QED BY <2>1, <2>2, <2>3 DEF Calm
<1>3. CASE q \notin S
  <2>1. Fresh(q, S)
    BY <1>3
  <2>2. channel = << >> /\ \A r \in S : r.kind = "views"
    BY <1>1, <2>1 DEF Fresh, Quiet
  <2>3. \A other \in pending' : IsPage(other) => other = q
    BY <1>3, <2>2 DEF IsPage
  <2>4. \A x \in Int : Unheard(channel, project, x)'
    BY <2>2 DEF Unheard
  <2> QED BY <2>1, <2>3, <2>4 DEF Fresh
<1> QED BY <1>2, <1>3

LEMMA SameListed ==
  ASSUME UNCHANGED <<log, listed>>, NEW p
  PROVE  Listed(p)' = Listed(p)
BY DEF Listed

\* A step that leaves list and events alone.
LEMMA ListFrame ==
  ASSUME ListOk, trusted' => trusted, UNCHANGED <<channel, project, rows, hasMore>>,
         trusted' => Listed(project)' = Listed(project)
  PROVE  ListOk'
BY DEF ListOk

\* What the page hears of another project is not about its own.
LEMMA ToldOther ==
  ASSUME Typed, NEW p \in Project, Told(p), p # project, UNCHANGED project
  PROVE  /\ Listed(project)' = Listed(project)
         /\ \A x \in Int : Unheard(channel, project, x) => Unheard(channel, project, x)'
<1>1. project \in Project /\ channel \in Seq(Event)
  BY DEF Typed, TypeOk
<1>2. Listed(project)' = Listed(project)
  BY <1>1 DEF Told
<1>3. PICK es \in Seq(Event) :
         /\ \A i \in DOMAIN es : es[i].row.of = p
         /\ channel' = IF Heard(p) THEN channel \o es ELSE channel
  BY DEF Told
<1>4. ASSUME NEW x \in Int, Unheard(channel, project, x)
      PROVE  Unheard(channel', project, x)
  <2>1. CASE Heard(p)
    <3>1. PICK u : u = channel \o es
      OBVIOUS
    <3>2. \A k \in DOMAIN u : \/ k \in DOMAIN channel /\ u[k] = channel[k]
                              \/ \E i \in DOMAIN es : u[k] = es[i]
      BY <1>1, <3>1, JoinedIndex
    <3>3. \A k \in DOMAIN u : ~About(u[k], project, x)
      BY <1>3, <1>4, <3>2 DEF Unheard, About
    <3> QED BY <1>3, <2>1, <3>1, <3>3 DEF Unheard
  <2>2. CASE ~Heard(p)
    BY <1>3, <1>4, <2>2
  <2> QED BY <2>1, <2>2
<1> QED BY <1>2, <1>4

\* What the server tells keeps the list right, if the page hears it.
LEMMA ToldFollows ==
  ASSUME Typed, ListOk, NEW p \in Project, Told(p), UNCHANGED <<project, rows, hasMore>>,
         trusted' => trusted /\ (p = project => Heard(p))
  PROVE  ListOk'
<1> SUFFICES ASSUME trusted'
             PROVE  Follows(channel', project, Listed(project)', rows, hasMore)
  BY DEF ListOk
<1>1. /\ project \in Project /\ channel \in Seq(Event) /\ rows \in Seq(Row)
      /\ hasMore \in BOOLEAN
  BY DEF Typed, TypeOk
<1>2. \A row : In(rows, row) => row.id \in Int
  BY <1>1, RowsTyped DEF In
<1>3. Follows(channel, project, Listed(project), rows, hasMore)
  BY DEF ListOk
<1>4. PICK es \in Seq(Event) :
         /\ \A i \in DOMAIN es : es[i].row.of = p
         /\ Reports(es, p, Listed(p), Listed(p)')
         /\ channel' = IF Heard(p) THEN channel \o es ELSE channel
  BY DEF Told
<1>5. p # project => Listed(project)' = Listed(project)
  BY ToldOther
<1>6. Reports(es, project, Listed(project), Listed(project)')
  <2>1. CASE p = project
    BY <1>4, <2>1
  <2>2. CASE p # project
    BY <1>4, <1>5, <2>2, OtherReports
  <2> QED BY <2>1, <2>2
<1>7. PICK S, R : S = Listed(project) /\ R = Listed(project)'
  OBVIOUS
<1>8. Follows(channel \o es, project, R, rows, hasMore)
  BY <1>1, <1>2, <1>3, <1>6, <1>7, ReportsFollow
<1>9. CASE Heard(p)
  BY <1>4, <1>7, <1>8, <1>9
<1>10. CASE ~Heard(p)
  BY <1>3, <1>4, <1>5, <1>10
<1> QED BY <1>9, <1>10

\* Pages on their way go, or stay as good as they were.
LEMMA PagesKept ==
  ASSUME PagesOk, \A q \in pending' : IsPage(q) => q \in pending /\ Calm
  PROVE  PagesOk'
<1> SUFFICES ASSUME NEW q \in pending', IsPage(q)
             PROVE  /\ q.of = project'
                    /\ \A x \in Int : Unheard(channel, project, x)'
                    /\ q.answered => q.rows = Page(Listed(project)', q.max)
                    /\ \A other \in pending' : IsPage(other) => other = q
                    /\ q.kind = "first" => q.max = MaxId + 1
                    /\ q.kind = "more" /\ trusted' =>
                         rows' # << >> /\ q.max = rows'[Len(rows')].id
  BY DEF PagesOk, IsPage, Page
<1>1. q \in pending /\ Calm /\ \A other \in pending' : IsPage(other) => other \in pending
  OBVIOUS
<1>2. /\ q.of = project
      /\ \A x \in Int : Unheard(channel, project, x)
      /\ q.answered => q.rows = Page(Listed(project), q.max)
      /\ \A other \in pending : IsPage(other) => other = q
      /\ q.kind = "first" => q.max = MaxId + 1
      /\ q.kind = "more" /\ trusted => rows # << >> /\ q.max = rows[Len(rows)].id
  BY <1>1 DEF PagesOk
<1> QED BY <1>1, <1>2 DEF Calm

\* Nothing of what a page is about has changed.
LEMMA StillCalm ==
  ASSUME UNCHANGED <<log, listed>>, UNCHANGED <<channel, project>>,
         trusted' => trusted /\ rows' = rows
  PROVE  Calm
<1>1. \A p : Listed(p)' = Listed(p)
  BY DEF Listed
<1> QED BY <1>1 DEF Calm, Unheard

\* Pages of a view whose logs or filters change are spoilt.
LEMMA PagesSpoilt ==
  ASSUME Typed, PagesOk, NEW p, NEW S, S \subseteq pending,
         \A q \in pending' : IsPage(q) => q \in Spoil(p, S),
         p # project => Calm
  PROVE  PagesOk'
<1>1. Requests(S)
  BY DEF Typed, Requests
<1>2. \A q \in pending' : IsPage(q) => q \in pending /\ q.of # p
  BY <1>1, MarkedSame DEF IsPage
<1>3. \A q \in pending : IsPage(q) => q.of = project
  BY DEF PagesOk
<1> QED BY <1>2, <1>3, PagesKept

LEMMA TailUnheard ==
  ASSUME Typed, channel # << >>, channel' = Tail(channel), UNCHANGED project
  PROVE  \A x \in Int : Unheard(channel, project, x) => Unheard(channel, project, x)'
<1>1. PICK rest : rest = Tail(channel)
  OBVIOUS
<1>2. \A i \in DOMAIN rest : i + 1 \in DOMAIN channel /\ rest[i] = channel[i + 1]
  BY <1>1, TailIndex DEF Typed, TypeOk
<1>3. \A x \in Int : Unheard(channel, project, x) => Unheard(rest, project, x)
  BY <1>2 DEF Unheard
<1> QED BY <1>1, <1>3

\* What a delivered event does to the list.
LEMMA TakenIs ==
  ASSUME Typed, ListOk, NEW event \in Event, channel # << >>, event = Head(channel),
         NEW selection, Take(event, selection)
  PROVE  /\ trusted' => trusted
         /\ trusted' => IF \E x \in Int : About(event, project, x)
                        THEN /\ Takes(rows', rows, event)
                             /\ event.effect = "insert" => ~Below(rows, hasMore, event.row.id)
                        ELSE rows' = rows
<1> DEFINE ignored == paused \/ event.row.of # viewRef
<1>1. /\ rows' = IF ignored THEN rows ELSE Applied(rows, event)
      /\ trusted' = /\ trusted
                    /\ event.row.of = project /\ event.effect # "none"
                         => ~ignored /\ ~LeavesGap(event)
                    /\ event.row.of # project => ignored
  BY DEF Take, Show
<1> HIDE DEF ignored
<1>2. /\ channel \in Seq(Event) /\ rows \in Seq(Row) /\ hasMore \in BOOLEAN
      /\ trusted \in BOOLEAN /\ MaxId \in Nat /\ event.row.id \in Int
  BY LogPageAssumption DEF Typed, TypeOk, Event, Row
<1>3. trusted' => trusted
  BY <1>1
<1> SUFFICES ASSUME trusted'
             PROVE  IF \E x \in Int : About(event, project, x)
                    THEN /\ Takes(rows', rows, event)
                         /\ event.effect = "insert" => ~Below(rows, hasMore, event.row.id)
                    ELSE rows' = rows
  BY <1>3
<1>4. Follows(channel, project, Listed(project), rows, hasMore)
  BY <1>3 DEF ListOk
<1>5. CASE event.row.of = project /\ event.effect # "none"
  <2>1. ~ignored /\ ~LeavesGap(event) /\ rows' = Applied(rows, event)
    BY <1>1, <1>5
  <2>2. Descending(rows) /\ FirstFits(channel, project, rows, hasMore)
    BY <1>4 DEF Follows
  <2>3. Takes(Applied(rows, event), rows, event)
    BY <1>2, <1>5, <2>2, EventApplied
  <2>4. event.effect = "insert" => ~Below(rows, hasMore, event.row.id)
    BY <2>1 DEF LeavesGap, Below, Has
  <2>5. About(event, project, event.row.id)
    BY <1>5 DEF About
  <2> QED BY <1>2, <2>1, <2>3, <2>4, <2>5
<1>6. CASE ~(event.row.of = project /\ event.effect # "none")
  <2>1. event.row.of # project => ignored
    BY <1>1
  <2>2. event.effect = "none" => Applied(rows, event) = rows
    BY DEF Applied
  <2>3. rows' = rows
    BY <1>1, <1>6, <2>1, <2>2
  <2>4. ~\E x \in Int : About(event, project, x)
    BY <1>6 DEF About
  <2> QED BY <2>3, <2>4
<1> QED BY <1>5, <1>6

LEMMA PagesOkKept ==
  ASSUME Typed, PagesOk, ListOk, Next
  PROVE  PagesOk'
<1>1. /\ Requests(pending) /\ project \in Project /\ trusted \in BOOLEAN
      /\ \A r \in pending : r \in Request
  BY DEF Typed, TypeOk, Requests
<1>2. ASSUME NEW p \in Project, LogArrives(p) \/ LogUpdated(p) \/ LogTrimmed(p)
      PROVE  PagesOk'
  <2>1. /\ Told(p) /\ pending' = Spoil(p, pending)
        /\ trusted' = (trusted /\ (p = project => Heard(p)))
        /\ UNCHANGED <<rows, project>>
    BY <1>2, ChangeIs DEF Disturb, placeVars
  <2>2. ASSUME p # project PROVE Calm
    <3>1. /\ Listed(project)' = Listed(project)
          /\ \A x \in Int : Unheard(channel, project, x) => Unheard(channel, project, x)'
      BY <2>1, <2>2, ToldOther
    <3> QED BY <2>1, <3>1 DEF Calm
  <2> QED BY <2>1, <2>2, PagesSpoilt
<1>3. ASSUME NEW r \in pending, ServeQuery(r)
      PROVE  PagesOk'
  <2> DEFINE page == IF r.kind = "views" THEN <<>> ELSE LogViewLogs(r.of, r.max)
             stored == IF r.kind = "views" THEN filters[r.of] ELSE {}
             g == Given(r, page, stored)
  <2>1. /\ pending' = (pending \ {r}) \cup {g}
        /\ UNCHANGED <<log, listed>> /\ UNCHANGED <<channel, project, rows, trusted>>
    BY <1>3 DEF ServeQuery, Answer, Given, serverVars, placeVars, listVars
  <2>2. /\ g.kind = r.kind /\ g.of = r.of /\ g.max = r.max /\ g.clean = r.clean
        /\ g.rows = page
    BY <1>1 DEF Given, Request
  <2>3. Calm
    BY <2>1, StillCalm
  <2>4. IsPage(r) => page = Page(Listed(project), r.max)
    <3>1. ASSUME IsPage(r) PROVE r.of = project /\ r.kind # "views"
      BY <3>1 DEF PagesOk, IsPage
    <3>2. LogViewLogs(project, r.max) = Page(Listed(project), r.max)
      BY <1>1, ListedLogs
    <3> QED BY <3>1, <3>2
  <2> HIDE DEF page, stored, g
  <2>5. IsPage(g) <=> IsPage(r)
    BY <2>2 DEF IsPage
  <2>6. CASE IsPage(r)
    <3>1. \A q \in pending' : IsPage(q) => q = g
      BY <2>1, <2>6 DEF PagesOk
    <3>2. /\ r.of = project
          /\ \A x \in Int : Unheard(channel, project, x)
          /\ r.kind = "first" => r.max = MaxId + 1
          /\ r.kind = "more" /\ trusted => rows # << >> /\ r.max = rows[Len(rows)].id
      BY <2>6 DEF PagesOk
    <3>3. /\ g.of = project'
          /\ \A x \in Int : Unheard(channel, project, x)'
          /\ g.rows = Page(Listed(project)', g.max)
          /\ g.kind = "first" => g.max = MaxId + 1
          /\ g.kind = "more" /\ trusted' => rows' # << >> /\ g.max = rows'[Len(rows')].id
      <4>1. g.rows = Page(Listed(project)', g.max)
        BY <2>2, <2>3, <2>4, <2>6 DEF Calm
      <4>2. \A x \in Int : Unheard(channel, project, x)'
        BY <2>3, <3>2 DEF Calm
      <4> QED BY <2>1, <2>2, <3>2, <4>1, <4>2
    <3>4. \A q \in pending' : IsPage(q) =>
            /\ q.of = project'
            /\ \A x \in Int : Unheard(channel, project, x)'
            /\ q.answered => q.rows = Page(Listed(project)', q.max)
            /\ \A other \in pending' : IsPage(other) => other = q
            /\ q.kind = "first" => q.max = MaxId + 1
            /\ q.kind = "more" /\ trusted' =>
                 rows' # << >> /\ q.max = rows'[Len(rows')].id
      BY <3>1, <3>3
    <3> QED BY <3>4 DEF PagesOk, IsPage, Page
  <2>7. CASE ~IsPage(r)
    BY <2>1, <2>3, <2>5, <2>7, PagesKept
  <2> QED BY <2>6, <2>7
<1>4. ASSUME NEW r \in pending, ServeFilter(r) \/ ServeClear(r)
      PROVE  PagesOk'
  <2>1. PICK g : g = Given(r, <<>>, {})
    OBVIOUS
  <2>2. PICK S : S = pending \ {r}
    OBVIOUS
  <2>3. /\ pending' = Spoil(r.of, S) \cup {g}
        /\ r.kind \in FilterKind \cup {"clear"} /\ UNCHANGED <<project, rows>>
        /\ trusted' => trusted
    BY <1>4, <2>1, <2>2 DEF ServeFilter, ServeClear, Answer, Given, placeVars
  <2>4. ~IsPage(g)
    BY <1>1, <2>1, <2>3 DEF Given, Request, FilterKind, IsPage
  <2>5. ASSUME r.of # project PROVE Calm
    <3>1. CASE ServeFilter(r)
      <4>1. /\ UNCHANGED log /\ UNCHANGED channel
            /\ \E now : listed' = [listed EXCEPT ![r.of] = now]
        BY <3>1 DEF ServeFilter
      <4>2. listed'[project] = listed[project]
        BY <1>1, <2>5, <4>1 DEF Typed, TypeOk
      <4>3. Listed(project)' = Listed(project)
        BY <2>3, <4>1, <4>2 DEF Listed
      <4> QED BY <2>3, <4>1, <4>3 DEF Calm, Unheard
    <3>2. CASE ServeClear(r)
      <4>1. r.of \in Project /\ LogsRemoved(r.of, log[r.of])
        BY <1>1, <3>2 DEF ServeClear, Request
      <4>2. Told(r.of)
        BY <4>1, RemovalTold
      <4>3. /\ Listed(project)' = Listed(project)
            /\ \A x \in Int : Unheard(channel, project, x) => Unheard(channel, project, x)'
        BY <2>3, <2>5, <4>1, <4>2, ToldOther
      <4> QED BY <2>3, <4>3 DEF Calm
    <3> QED BY <1>4, <3>1, <3>2
  <2>6. S \subseteq pending /\ \A q \in pending' : IsPage(q) => q \in Spoil(r.of, S)
    BY <2>2, <2>3, <2>4
  <2> QED BY <2>5, <2>6, PagesSpoilt
<1>5. ASSUME NEW r \in pending, Fails(r) \/ PageDropped(r) \/ SaveDropped(r)
      PROVE  PagesOk'
  <2>1. /\ UNCHANGED <<log, listed>> /\ UNCHANGED <<channel, project, rows, trusted>>
        /\ pending' = pending \ {r}
    BY <1>5 DEF Fails, PageDropped, SaveDropped, placeVars, serverVars, listVars
  <2>2. Calm
    BY <2>1, StillCalm
  <2> QED BY <2>1, <2>2, PagesKept
\* The page that arrives was the only one the list could trust.
<1>6. ASSUME NEW r \in pending, FirstArrives(r) \/ MoreArrives(r)
      PROVE  PagesOk'
  <2>1. /\ UNCHANGED <<log, listed>> /\ UNCHANGED <<channel, project>>
        /\ pending' = pending \ {r}
        /\ trusted' => r.clean
        /\ r.kind \in {"first", "more"}
    BY <1>6 DEF FirstArrives, MoreArrives, placeVars, serverVars
  <2>2. ASSUME NEW q \in pending', IsPage(q) PROVE Calm
    <3>1. q \in pending /\ q # r
      BY <2>1
    <3>2. ~IsPage(r)
      BY <2>2, <3>1 DEF PagesOk
    <3>3. ~trusted'
      BY <2>1, <3>2 DEF IsPage
    <3> QED BY <2>1, <3>3, StillCalm
  <2>3. \A q \in pending' : q \in pending
    BY <2>1
  <2> QED BY <2>2, <2>3, PagesKept
\* Another first page is asked for.
<1>7. ASSUME NEW r \in pending,
             \/ ViewsArrive(r) \/ FilterSaved(r) \/ PresetSaved(r) \/ LogsCleared(r)
             \/ Emptied(r)
      PROVE  PagesOk'
  <2>1. PICK S : S = pending \ {r}
    OBVIOUS
  <2>2. /\ UNCHANGED <<log, listed>> /\ UNCHANGED <<channel, project>>
        /\ trusted' => trusted /\ rows' = rows
        /\ pending' \in {S, Refetch(S), Start("first", project, S)}
    <3>1. CASE ViewsArrive(r)
      BY <2>1, <3>1 DEF ViewsArrive, serverVars
    <3>2. CASE FilterSaved(r) \/ PresetSaved(r) \/ LogsCleared(r)
      BY <2>1, <3>2 DEF FilterSaved, PresetSaved, LogsCleared, Done, placeVars,
                        serverVars, listVars
    <3>3. CASE Emptied(r)
      BY <2>1, <3>3 DEF Emptied, Done, placeVars, serverVars
    <3> QED BY <1>7, <3>1, <3>2, <3>3
  <2>3. Calm
    BY <2>2, StillCalm
  <2>4. Requests(S) /\ S \subseteq pending
    BY <1>1, <2>1 DEF Requests
  <2>5. PICK R : R = Refetch(S)
    OBVIOUS
  <2>6. PICK T : T = Start("first", project, S)
    OBVIOUS
  <2>7. /\ \A q \in R : q \notin S =>
             /\ q.kind = "first" /\ q.of = project /\ q.max = MaxId + 1 /\ ~q.answered
             /\ q.clean = Quiet("first", S)
        /\ \A p, q \in R : p \notin S /\ q \notin S => p = q
    BY <1>1, <2>4, <2>5, RefetchIs
  <2>8. /\ \A q \in T : q \notin S =>
             /\ q.kind = "first" /\ q.of = project /\ q.max = MaxId + 1 /\ ~q.answered
             /\ q.clean = Quiet("first", S)
        /\ \A p, q \in T : p \notin S /\ q \notin S => p = q
    BY <1>1, <2>4, <2>6, StartIs
  <2>9. \A q \in pending' : IsPage(q) => q \in S \/ Fresh(q, S)
    BY <2>2, <2>5, <2>6, <2>7, <2>8 DEF Fresh, IsPage
  <2>10. \A p, q \in pending' : p \notin S /\ q \notin S /\ IsPage(p) /\ IsPage(q) => p = q
    BY <2>2, <2>5, <2>6, <2>7, <2>8
  <2> QED BY <2>2, <2>3, <2>4, <2>9, <2>10, PagesFrame
<1>8. CASE SocketEvent \/ IpcEvent
  <2>1. PICK event \in Event :
          /\ channel # << >> /\ channel' = Tail(channel) /\ event = Head(channel)
          /\ GoBlank \/ \E selection : Take(event, selection)
    BY <1>8, DeliverIs
  <2>2. UNCHANGED <<project, log, listed, pending>>
    BY <2>1 DEF GoBlank, Take, placeVars, serverVars
  <2>3. \A x \in Int : Unheard(channel, project, x) => Unheard(channel, project, x)'
    BY <2>1, <2>2, TailUnheard
  <2>4. Listed(project)' = Listed(project)
    BY <2>2 DEF Listed
  <2>5. ASSUME NEW q \in pending, IsPage(q), trusted' PROVE trusted /\ rows' = rows
    <3>1. PICK selection : Take(event, selection)
      BY <2>1, <2>5 DEF GoBlank
    <3>2. \A x \in Int : Unheard(channel, project, x)
      BY <2>5 DEF PagesOk
    <3>3. 1 \in DOMAIN channel /\ event = channel[1]
      BY <2>1, TailIndex DEF Typed, TypeOk
    <3>4. ~\E x \in Int : About(event, project, x)
      BY <3>2, <3>3 DEF Unheard
    <3> QED BY <2>1, <2>5, <3>1, <3>4, TakenIs
  <2>6. \A q \in pending : IsPage(q) => Calm
    BY <2>2, <2>3, <2>4, <2>5 DEF Calm
  <2> QED BY <2>2, <2>6, PagesKept
<1>9. CASE Connect \/ Pause \/ SelectRow
  <2>1. UNCHANGED <<log, listed>> /\ UNCHANGED <<channel, project, rows, trusted, pending>>
    BY <1>9 DEF Connect, Pause, SelectRow, placeVars, serverVars, listVars
  <2>2. Calm
    BY <2>1, StillCalm
  <2> QED BY <2>1, <2>2, PagesKept
<1>10. CASE LoadMore
  <2>1. PICK q : q = Ask("more", project, rows[Len(rows)].id, NoFilter, pending)
    OBVIOUS
  <2>2. /\ UNCHANGED <<log, listed>> /\ UNCHANGED <<channel, project, rows, trusted>>
        /\ pending' = pending \cup {q} /\ rows # << >>
    BY <1>10, <2>1 DEF LoadMore, placeVars, serverVars
  <2>3. /\ q.kind = "more" /\ q.of = project /\ q.max = rows[Len(rows)].id
        /\ q.answered = FALSE /\ q.clean = Quiet("more", pending)
    BY <2>1 DEF Ask
  <2>4. Calm
    BY <2>2, StillCalm
  <2>5. IsPage(q) => Fresh(q, pending)
    BY <2>2, <2>3 DEF IsPage, Fresh
  <2>6. \A o \in pending' : IsPage(o) => o \in pending \/ Fresh(o, pending)
    BY <2>2, <2>5
  <2>7. \A o, r \in pending' : o \notin pending /\ r \notin pending => o = r
    BY <2>2
  <2> QED BY <2>2, <2>4, <2>6, <2>7, PagesFrame
<1>11. CASE ClearLogs
  <2>1. /\ UNCHANGED <<log, listed>> /\ UNCHANGED <<channel, project, rows, trusted>>
        /\ pending' = pending \cup {Ask("clear", project, MaxId + 1, NoFilter, pending)}
    BY <1>11 DEF ClearLogs, placeVars, serverVars, listVars
  <2>2. ~IsPage(Ask("clear", project, MaxId + 1, NoFilter, pending))
    BY DEF IsPage, Ask
  <2>3. Calm
    BY <2>1, StillCalm
  <2>4. \A q \in pending' : IsPage(q) => q \in pending
    BY <2>1, <2>2
  <2> QED BY <2>3, <2>4, PagesKept
<1>12. CASE Resume
  <2>1. /\ UNCHANGED <<log, listed>> /\ UNCHANGED <<channel, project, rows, trusted>>
        /\ pending' = Refetch(pending)
    BY <1>12 DEF Resume, placeVars, serverVars, listVars
  <2>2. Calm
    BY <2>1, StillCalm
  <2>3. PICK R : R = Refetch(pending)
    OBVIOUS
  <2>4. /\ \A q \in R : q \notin pending =>
             /\ q.kind = "first" /\ q.of = project /\ q.max = MaxId + 1 /\ ~q.answered
             /\ q.clean = Quiet("first", pending)
        /\ \A p, q \in R : p \notin pending /\ q \notin pending => p = q
    BY <1>1, <2>3, RefetchIs
  <2>5. \A q \in pending' : IsPage(q) => q \in pending \/ Fresh(q, pending)
    BY <2>1, <2>3, <2>4 DEF Fresh, IsPage
  <2>6. \A o, r \in pending' : o \notin pending /\ r \notin pending => o = r
    BY <2>1, <2>3, <2>4
  <2> QED BY <2>1, <2>2, <2>5, <2>6, PagesFrame
<1>13. CASE SaveFilter \/ RemoveFilter \/ ApplyPresetFilter
  <2>1. PICK kind, f : kind \in FilterKind /\ SendFilter(kind, f)
    BY <1>13 DEF SaveFilter, RemoveFilter, ApplyPresetFilter, FilterKind
  <2>2. PICK q : q = Ask(kind, project, MaxId + 1, f, pending)
    OBVIOUS
  <2>3. pending' = Spoil(project, pending) \cup {q} /\ ~IsPage(q)
    BY <2>1, <2>2 DEF SendFilter, Ask, IsPage, FilterKind
  <2>4. \A o \in pending' : IsPage(o) => o \in Spoil(project, pending)
    BY <2>3
  <2> QED BY <2>4, PagesSpoilt
\* In the new project nothing else is under way, nor any event if the page is clean.
<1>14. ASSUME NEW p \in Project, SwitchProject(p)
       PROVE  PagesOk'
  <2> DEFINE old == Soiled(pending)
             asked == Start("views", p, old)
             first == Start("first", p, asked)
  <2>1. /\ project' = p /\ pending' = IF p \in known THEN first ELSE asked
        /\ channel' = IF host = "web" THEN <<>> ELSE channel
    BY <1>14 DEF SwitchProject, Soiled
  <2>2. Requests(old) /\ \A q \in old : ~q.clean
    BY <1>1, SoiledIs
  <2> HIDE DEF old
  <2>3. Requests(asked) /\ \A r \in asked : r \notin old => r.kind = "views"
    BY <2>2, StartIs
  <2> HIDE DEF asked
  <2>4. /\ \A q \in first : q \notin asked =>
             /\ q.kind = "first" /\ q.of = p /\ q.max = MaxId + 1 /\ ~q.answered
             /\ q.clean = Quiet("first", asked)
        /\ \A o, q \in first : o \notin asked /\ q \notin asked => o = q
    BY <2>3, StartIs
  <2> HIDE DEF first
  <2>5. \A q \in asked : ~IsPage(q)
    BY <2>2, <2>3 DEF IsPage
  <2>6. \A q \in pending' : IsPage(q) => q \in asked \/ Fresh(q, asked)
    BY <2>1, <2>4 DEF Fresh, IsPage
  <2>7. \A o, q \in pending' : o \notin asked /\ q \notin asked => o = q
    BY <2>1, <2>4
  <2>8. channel = << >> => channel' = << >>
    BY <2>1
  <2> QED BY <2>5, <2>6, <2>7, <2>8, PagesFrame
<1>15. CASE Users
  BY <1>9, <1>10, <1>11, <1>12, <1>13, <1>14, <1>15 DEF Users
<1> QED BY <1>2, <1>3, <1>4, <1>5, <1>6, <1>7, <1>8, <1>9, <1>15, StepIs DEF Answers

\* A page that arrives clean is what the view lists now.
LEMMA PageFollows ==
  ASSUME Typed, PagesOk, ListOk, NEW r \in pending, FirstArrives(r) \/ MoreArrives(r)
  PROVE  ListOk'
<1>1. /\ project \in Project /\ channel \in Seq(Event) /\ rows \in Seq(Row)
      /\ UNCHANGED <<channel, project>> /\ Listed(project)' = Listed(project)
  <2>1. UNCHANGED <<log, listed>> /\ UNCHANGED <<channel, project>>
    BY DEF FirstArrives, MoreArrives, placeVars, serverVars
  <2> QED BY <2>1, SameListed DEF Typed, TypeOk
<1> SUFFICES ASSUME trusted'
             PROVE  Follows(channel, project, Listed(project), rows', hasMore')
  BY <1>1 DEF ListOk
<1>2. /\ r.clean /\ r.answered /\ r.kind \in {"first", "more"}
      /\ hasMore' = (Len(r.rows) = PageSize)
      /\ r.kind = "first" => rows' = r.rows
      /\ r.kind = "more" => trusted /\ rows' = Merged(rows, r.rows)
  BY DEF FirstArrives, MoreArrives, Show
<1>3. IsPage(r)
  BY <1>2 DEF IsPage
<1>4. /\ \A x \in Int : Unheard(channel, project, x)
      /\ r.rows = Page(Listed(project), r.max)
      /\ r.kind = "first" => r.max = MaxId + 1
      /\ r.kind = "more" => rows # << >> /\ r.max = rows[Len(rows)].id
  BY <1>2, <1>3 DEF PagesOk
<1>5. Logs(Listed(project))
  BY <1>1, ListedLogs
<1>6. PICK S : S = Listed(project)
  OBVIOUS
<1>7. CASE r.kind = "first"
  <2>1. Follows(channel, project, S, Page(S, MaxId + 1), Len(Page(S, MaxId + 1)) = PageSize)
    BY <1>1, <1>4, <1>5, <1>6, FirstFollows
  <2>2. rows' = Page(S, MaxId + 1) /\ hasMore' = (Len(Page(S, MaxId + 1)) = PageSize)
    BY <1>2, <1>4, <1>6, <1>7
  <2> QED BY <1>6, <2>1, <2>2
<1>8. CASE r.kind = "more"
  <2>1. PICK max : max = rows[Len(rows)].id
    OBVIOUS
  <2>2. Follows(channel, project, S, rows, hasMore)
    BY <1>2, <1>6, <1>8 DEF ListOk
  <2>3. Follows(channel, project, S, Merged(rows, Page(S, max)), Len(Page(S, max)) = PageSize)
    BY <1>1, <1>4, <1>5, <1>6, <1>8, <2>1, <2>2, MoreFollows
  <2>4. rows' = Merged(rows, Page(S, max)) /\ hasMore' = (Len(Page(S, max)) = PageSize)
    BY <1>2, <1>4, <1>6, <1>8, <2>1
  <2> QED BY <1>6, <2>3, <2>4
<1> QED BY <1>2, <1>7, <1>8

LEMMA ListOkKept ==
  ASSUME Typed, PagesOk, ListOk, Next
  PROVE  ListOk'
<1>1. /\ project \in Project /\ channel \in Seq(Event) /\ rows \in Seq(Row)
      /\ hasMore \in BOOLEAN /\ MaxId \in Nat
      /\ \A r \in pending : r.of \in Project
  BY LogPageAssumption DEF Typed, TypeOk, Requests, Request
<1>2. ASSUME NEW p \in Project, LogArrives(p) \/ LogUpdated(p) \/ LogTrimmed(p)
      PROVE  ListOk'
  <2>1. /\ Told(p) /\ Disturb(p) /\ UNCHANGED <<rows, hasMore, placeVars>>
    BY <1>2, ChangeIs
  <2>2. UNCHANGED <<project, rows, hasMore>>
    BY <2>1 DEF placeVars
  <2>3. trusted' => trusted /\ (p = project => Heard(p))
    BY <2>1 DEF Disturb
  <2> QED BY <2>1, <2>2, <2>3, ToldFollows
<1>3. ASSUME NEW r \in pending, ServeClear(r)
      PROVE  ListOk'
  <2>1. LogsRemoved(r.of, log[r.of])
    BY <1>3 DEF ServeClear
  <2>2. Told(r.of)
    BY <1>1, <2>1, RemovalTold
  <2>3. UNCHANGED <<project, rows, hasMore>>
    BY <1>3 DEF ServeClear, placeVars
  <2>4. trusted' => trusted /\ (r.of = project => Heard(r.of))
    BY <1>3 DEF ServeClear
  <2> QED BY <1>1, <2>2, <2>3, <2>4, ToldFollows
<1>4. ASSUME NEW r \in pending, ServeFilter(r)
      PROVE  ListOk'
  <2>1. /\ UNCHANGED log /\ UNCHANGED <<channel, project, rows, hasMore>>
        /\ \E now : listed' = [listed EXCEPT ![r.of] = now]
    BY <1>4 DEF ServeFilter, placeVars
  <2>2. trusted' => trusted /\ r.of # project
    BY <1>4 DEF ServeFilter
  <2>3. r.of # project => listed'[project] = listed[project]
    BY <1>1, <2>1 DEF Typed, TypeOk
  <2>4. trusted' => Listed(project)' = Listed(project)
    BY <2>1, <2>2, <2>3 DEF Listed
  <2> QED BY <2>1, <2>2, <2>4, ListFrame
\* The list takes the event at the head of the channel.
<1>5. CASE SocketEvent \/ IpcEvent
  <2>1. PICK event \in Event :
          /\ channel # << >> /\ channel' = Tail(channel) /\ event = Head(channel)
          /\ GoBlank \/ \E selection : Take(event, selection)
    BY <1>5, DeliverIs
  <2>2. UNCHANGED <<project, log, listed, hasMore>>
    BY <2>1 DEF GoBlank, Take, placeVars, serverVars
  <2>3. Listed(project)' = Listed(project)
    BY <2>2 DEF Listed
  <2> SUFFICES ASSUME trusted'
               PROVE  Follows(Tail(channel), project, Listed(project), rows', hasMore)
    BY <2>1, <2>2, <2>3 DEF ListOk
  <2>4. PICK selection : Take(event, selection)
    BY <2>1 DEF GoBlank
  <2>5. /\ trusted
        /\ IF \E x \in Int : About(event, project, x)
           THEN /\ Takes(rows', rows, event)
                /\ event.effect = "insert" => ~Below(rows, hasMore, event.row.id)
           ELSE rows' = rows
    BY <2>1, <2>4, TakenIs
  <2>6. Follows(channel, project, Listed(project), rows, hasMore)
    BY <2>5 DEF ListOk
  <2>7. \A row : In(rows, row) => row.id \in Int
    BY <1>1, RowsTyped DEF In
  <2>8. Descending(rows')
    BY <2>5, <2>6 DEF Takes, Follows
  <2>9. PICK new : new = rows'
    OBVIOUS
  <2>10. PICK S : S = Listed(project)
    OBVIOUS
  <2>11. Follows(Tail(channel), project, S, new, hasMore)
    BY <1>1, <2>1, <2>5, <2>6, <2>7, <2>8, <2>9, <2>10, TailFollows
  <2> QED BY <2>9, <2>10, <2>11
<1>6. ASSUME NEW r \in pending, Answers(r)
      PROVE  ListOk'
  <2>1. CASE FirstArrives(r) \/ MoreArrives(r)
    BY <2>1, PageFollows
  <2>2. CASE Emptied(r)
    BY <2>2 DEF Emptied, ListOk
  <2>3. CASE \/ ViewsArrive(r) \/ PageDropped(r) \/ FilterSaved(r) \/ SaveDropped(r)
             \/ PresetSaved(r) \/ LogsCleared(r)
    <3>1. /\ UNCHANGED <<log, listed>> /\ UNCHANGED <<channel, project, rows, hasMore>>
          /\ trusted' => trusted
      <4>1. CASE ViewsArrive(r)
        BY <4>1 DEF ViewsArrive, serverVars
      <4>2. CASE PageDropped(r) \/ SaveDropped(r)
        BY <4>2 DEF PageDropped, SaveDropped, serverVars, listVars, placeVars
      <4>3. CASE FilterSaved(r) \/ PresetSaved(r) \/ LogsCleared(r)
        BY <4>3 DEF FilterSaved, PresetSaved, LogsCleared, Done, serverVars, listVars, placeVars
      <4> QED BY <2>3, <4>1, <4>2, <4>3
    <3> QED BY <3>1, SameListed, ListFrame
  <2> QED BY <1>6, <2>1, <2>2, <2>3 DEF Answers
<1>7. ASSUME Connect \/ \E r \in pending : Fails(r) \/ ServeQuery(r)
      PROVE  ListOk'
  <2>1. UNCHANGED <<log, listed>> /\ UNCHANGED <<channel, project, rows, hasMore, trusted>>
    BY <1>7 DEF Connect, Fails, ServeQuery, serverVars, listVars, placeVars
  <2> QED BY <2>1, SameListed, ListFrame
<1>8. CASE Users
  <2>1. CASE \E p \in Project : SwitchProject(p)
    BY <2>1 DEF SwitchProject, ListOk
  <2>2. CASE LoadMore \/ ClearLogs \/ Resume \/ Pause \/ SelectRow
    <3>1. UNCHANGED <<log, listed>> /\ UNCHANGED <<channel, project, rows, hasMore, trusted>>
      BY <2>2 DEF LoadMore, ClearLogs, Resume, Pause, SelectRow, serverVars, listVars,
                  placeVars
    <3> QED BY <3>1, SameListed, ListFrame
  <2>3. CASE SaveFilter \/ RemoveFilter \/ ApplyPresetFilter
    <3>1. \E kind, f : SendFilter(kind, f)
      BY <2>3 DEF SaveFilter, RemoveFilter, ApplyPresetFilter
    <3>2. UNCHANGED <<log, listed>> /\ UNCHANGED <<channel, project, rows, hasMore, trusted>>
      BY <3>1 DEF SendFilter, serverVars, listVars, placeVars
    <3> QED BY <3>2, SameListed, ListFrame
  <2> QED BY <1>8, <2>1, <2>2, <2>3 DEF Users
<1> QED BY <1>2, <1>3, <1>4, <1>5, <1>6, <1>7, <1>8, StepIs

-----------------------------------------------------------------------------
(* The view whose events the page takes.                                    *)

RefOk == trusted => viewRef = project

LEMMA RefOkKept ==
  ASSUME Typed, RefOk, Next
  PROVE  RefOk'
<1>1. ASSUME trusted' => trusted, UNCHANGED placeVars
      PROVE  RefOk'
  BY <1>1 DEF RefOk, placeVars
<1>2. ASSUME NEW p \in Project, LogArrives(p) \/ LogUpdated(p) \/ LogTrimmed(p)
      PROVE  RefOk'
  <2>1. UNCHANGED placeVars /\ Disturb(p)
    BY <1>2, ChangeIs
  <2> QED BY <1>1, <2>1 DEF Disturb
<1>3. ASSUME NEW r \in pending, ServeQuery(r) \/ ServeFilter(r) \/ ServeClear(r) \/ Fails(r)
      PROVE  RefOk'
  <2>1. UNCHANGED placeVars
    BY <1>3 DEF ServeQuery, ServeFilter, ServeClear, Fails
  <2>2. trusted' => trusted
    BY <1>3 DEF ServeQuery, ServeFilter, ServeClear, Fails, listVars
  <2> QED BY <1>1, <2>1, <2>2
<1>4. ASSUME NEW r \in pending, Answers(r)
      PROVE  RefOk'
  <2>1. CASE ViewsArrive(r)
    BY <2>1 DEF ViewsArrive, RefOk
  <2>2. CASE FirstArrives(r)
    BY <2>2 DEF FirstArrives, RefOk
  <2>3. CASE MoreArrives(r) \/ PageDropped(r) \/ SaveDropped(r)
    BY <1>1, <2>3 DEF MoreArrives, PageDropped, SaveDropped, listVars
  <2>4. CASE FilterSaved(r) \/ PresetSaved(r) \/ LogsCleared(r) \/ Emptied(r)
    BY <1>1, <2>4 DEF FilterSaved, PresetSaved, LogsCleared, Emptied, Done, listVars
  <2> QED BY <1>4, <2>1, <2>2, <2>3, <2>4 DEF Answers
<1>5. CASE SocketEvent \/ IpcEvent
  <2>1. CASE GoBlank
    BY <2>1 DEF GoBlank, RefOk
  <2>2. ASSUME NEW event, NEW selection, Take(event, selection)
        PROVE  RefOk'
    BY <1>1, <2>2 DEF Take
  <2> QED BY <1>5, <2>1, <2>2, DeliverIs
<1>6. CASE Connect
  BY <1>1, <1>6 DEF Connect, listVars
<1>7. CASE Users
  <2>1. CASE \E p \in Project : SwitchProject(p)
    BY <2>1 DEF SwitchProject, RefOk
  <2>2. CASE LoadMore \/ ClearLogs \/ Resume \/ Pause \/ SelectRow
    BY <1>1, <2>2 DEF LoadMore, ClearLogs, Resume, Pause, SelectRow, listVars
  <2>3. CASE SaveFilter \/ RemoveFilter \/ ApplyPresetFilter
    <3>1. \E kind, f : SendFilter(kind, f)
      BY <2>3 DEF SaveFilter, RemoveFilter, ApplyPresetFilter
    <3> QED BY <1>1, <3>1 DEF SendFilter, listVars
  <2> QED BY <1>7, <2>1, <2>2, <2>3 DEF Users
<1> QED BY <1>2, <1>3, <1>4, <1>5, <1>6, <1>7, StepIs

-----------------------------------------------------------------------------
(* The invariant, and what it says when no event is on its way.             *)

IInv == Typed /\ KnownOk /\ ViewsOk /\ ChipsOk /\ PagesOk /\ ListOk /\ RefOk

LEMMA InitIInv ==
  ASSUME PageInit
  PROVE  IInv
<1>1. /\ MaxId \in Nat /\ MaxId >= 1 /\ MaxVersion \in Nat
      /\ project \in Project /\ MaxId + 1 \in 1 .. MaxId + 1
  BY LogPageAssumption DEF PageInit, Init
<1>2. /\ log = [p \in Project |->
                  IF p \in Busy THEN {} ELSE {[of |-> p, id |-> 1, ver |-> 0]}]
      /\ listed = [p \in Project |-> IF p \in Busy THEN {} ELSE {1}]
      /\ number = [p \in Project |-> IF p \in Busy THEN 0 ELSE 1]
      /\ filters = [p \in Project |-> {}]
  BY DEF PageInit, Init
<1>3. ASSUME NEW p \in Project
      PROVE  /\ Logs(log[p]) /\ \A row \in log[p] : row.of = p
             /\ listed[p] \subseteq {row.id : row \in log[p]}
             /\ log[p] \subseteq Row /\ listed[p] \subseteq 1 .. MaxId
             /\ number[p] \in 0 .. MaxId
  <2>1. PICK row : row = [of |-> p, id |-> 1, ver |-> 0]
    OBVIOUS
  <2>2. row \in Row /\ row.of = p /\ row.id = 1
    BY <1>1, <2>1 DEF Row
  <2>3. CASE p \in Busy
    BY <1>1, <1>2, <2>3, FS_EmptySet DEF Logs
  <2>4. CASE p \notin Busy
    <3>1. log[p] = {row} /\ listed[p] = {1} /\ number[p] = 1
      BY <1>2, <2>1, <2>4
    <3>2. IsFiniteSet({row})
      BY FS_Singleton
    <3>3. Logs(log[p])
      BY <2>2, <3>1, <3>2 DEF Logs
    <3> QED BY <1>1, <2>2, <3>1, <3>3
  <2> QED BY <2>3, <2>4
<1>4. ServerTyped
  <2>1. log \in [Project -> SUBSET Row]
    BY <1>2, <1>3
  <2>2. listed \in [Project -> SUBSET (1 .. MaxId)]
    BY <1>2, <1>3
  <2>3. number \in [Project -> 0 .. MaxId]
    BY <1>2, <1>3
  <2>4. filters \in [Project -> SUBSET FilterId]
    BY <1>2
  <2>5. LogOk
    BY <1>3 DEF LogOk
  <2> QED BY <2>1, <2>2, <2>3, <2>4, <2>5 DEF ServerTyped
<1>5. PICK q : q = [kind |-> "views", of |-> project, max |-> MaxId + 1, filter |-> NoFilter,
                    clean |-> TRUE, answered |-> FALSE, rows |-> <<>>, chips |-> {}]
  OBVIOUS
<1>6. /\ pending = {q} /\ q \in Request
      /\ q.kind = "views" /\ q.of = project /\ ~q.answered
  BY <1>1, <1>5 DEF PageInit, Init, Request
<1>7. PlaceTyped
  BY DEF PageInit, Init, PlaceTyped
<1>8. PageTyped
  <2>1. /\ rows = << >> /\ rowsOf = NoProject /\ selected = Nothing /\ chips = {}
        /\ ~hasMore /\ hasMore \in BOOLEAN /\ loadingMore \in BOOLEAN /\ paused \in BOOLEAN
        /\ filterSaving \in BOOLEAN /\ trusted \in BOOLEAN /\ chipsTrusted \in BOOLEAN
    BY DEF PageInit, Init
  <2>2. rows \in Seq(Row)
    BY <2>1
  <2> QED BY <2>1, <2>2 DEF PageTyped
<1>9. channel \in Seq(Event)
  BY DEF PageInit, Init
<1>10. Requests(pending)
  BY <1>6 DEF Requests
<1>11. Typed
  BY <1>4, <1>7, <1>8, <1>9, <1>10, TypedParts
<1>12. KnownOk /\ PagesOk
  BY <1>6 DEF KnownOk, PagesOk, IsPage
<1>13. ViewsOk
  BY <1>6 DEF ViewsOk, FilterKind
<1>14. ChipsOk /\ ListOk /\ RefOk
  BY DEF PageInit, Init, ChipsOk, ListOk, RefOk
<1> QED BY <1>11, <1>12, <1>13, <1>14 DEF IInv

LEMMA NextIInv ==
  ASSUME IInv, Next
  PROVE  IInv'
BY TypedKept, KnownKept, ViewsOkKept, ChipsOkKept, PagesOkKept, ListOkKept, RefOkKept DEF IInv

LEMMA StutterIInv ==
  ASSUME IInv, UNCHANGED pageVars
  PROVE  IInv'
<1>1. /\ UNCHANGED <<log, listed>> /\ UNCHANGED <<number, filters>>
      /\ UNCHANGED <<rows, rowsOf, hasMore, loadingMore, selected, trusted>>
      /\ UNCHANGED <<chips, filterSaving, chipsTrusted>>
      /\ UNCHANGED <<host, project, viewRef, known, fetched>>
      /\ UNCHANGED <<channel, joined, paused, pending>>
  BY DEF pageVars, vars, serverVars, listVars, chipVars, placeVars
<1>2. Typed'
  BY <1>1 DEF IInv, Typed, TypeOk, LogOk
<1>3. KnownOk' /\ ViewsOk' /\ RefOk'
  BY <1>1 DEF IInv, KnownOk, ViewsOk, RefOk
<1>4. ChipsOk'
  BY <1>1 DEF IInv, ChipsOk, Saving, ChipsAfter
<1>5. Listed(project)' = Listed(project)
  BY <1>1 DEF Listed
<1>6. PagesOk'
  BY <1>1, <1>5, StillCalm, PagesKept DEF IInv
<1>7. ListOk'
  BY <1>1, <1>5 DEF IInv, ListOk
<1> QED BY <1>2, <1>3, <1>4, <1>6, <1>7 DEF IInv

LEMMA Invariance == Spec => []IInv
<1>1. PageInit => IInv
  BY InitIInv
<1>2. IInv /\ [Next]_pageVars => IInv'
  BY NextIInv, StutterIInv
<1> QED BY <1>1, <1>2, PTL DEF Spec

\* The list is descending, holds rows of the view only, and all of those that
\* are not below its end.
LEMMA QuietList ==
  ASSUME IInv
  PROVE  QuietPageIsExact
<1> SUFFICES ASSUME trusted, channel = << >>
             PROVE  LET all == Newest(Listed(project))
                    IN  /\ rows = SubSeq(all, 1, Len(rows))
                        /\ ~hasMore => rows = all
  BY DEF QuietPageIsExact
<1>1. /\ Typed /\ project \in Project /\ rows \in Seq(Row) /\ MaxId \in Nat
      /\ Follows(channel, project, Listed(project), rows, hasMore)
  BY LogPageAssumption DEF IInv, Typed, TypeOk, ListOk
<1>2. PICK S : S = Listed(project)
  OBVIOUS
<1>3. Logs(S)
  BY <1>1, <1>2, ListedLogs
<1>4. /\ IsFiniteSet(S) /\ Distinct(S)
      /\ \A row \in S : row.id \in Int
  BY <1>1, <1>3 DEF Logs, Distinct, Row
<1>5. Descending(rows) /\ QuietTells(channel, project, S, rows, hasMore)
  BY <1>1, <1>2 DEF Follows
<1>6. \A x \in Int : Unheard(channel, project, x)
  BY DEF Unheard
<1>7. /\ Len(rows) \in Nat /\ DOMAIN rows = 1 .. Len(rows)
      /\ \A i \in 1 .. Len(rows) : rows[i] \in Row /\ rows[i].id \in Int
  BY <1>1, RowsTyped
<1>8. \A i \in 1 .. Len(rows) : rows[i] \in S
  BY <1>5, <1>6, <1>7 DEF QuietTells, In
<1>9. rows \in Seq(S)
  BY <1>1, <1>7, <1>8
<1>10. ASSUME NEW row \in S
       PROVE  \/ \E i \in DOMAIN rows : rows[i] = row
              \/ hasMore /\ \A i \in DOMAIN rows : row.id < rows[i].id
  <2>1. Has(rows, row.id) \/ Below(rows, hasMore, row.id)
    BY <1>4, <1>5, <1>6 DEF QuietTells, Lists
  <2>2. CASE Has(rows, row.id)
    <3>1. PICK i \in DOMAIN rows : rows[i].id = row.id
      BY <2>2 DEF Has
    <3>2. rows[i] = row
      BY <1>4, <1>7, <1>8, <3>1 DEF Distinct
    <3> QED BY <3>2
  <2>3. CASE Below(rows, hasMore, row.id)
    BY <2>3 DEF Below, Has
  <2> QED BY <2>1, <2>2, <2>3
<1>11. /\ rows = SubSeq(Newest(S), 1, Len(rows))
       /\ (\A row \in S : \E i \in DOMAIN rows : rows[i] = row) => rows = Newest(S)
  BY <1>4, <1>5, <1>9, <1>10, PrefixOfNewest
<1>12. ~hasMore => \A row \in S : \E i \in DOMAIN rows : rows[i] = row
  BY <1>10
<1> QED BY <1>2, <1>11, <1>12

\* The page throws, and React takes it down, only after something has disturbed
\* its list since the first page of it: no event finds the binary search of an
\* undisturbed list leaving the list.
UndisturbedNeverThrows == trusted /\ channel # << >> => ~Breaks(Head(channel))

LEMMA NeverThrows ==
  ASSUME IInv
  PROVE  UndisturbedNeverThrows
<1> SUFFICES ASSUME trusted, channel # << >>, Breaks(Head(channel))
             PROVE  FALSE
  BY DEF UndisturbedNeverThrows
<1>1. /\ rows \in Seq(Row) /\ channel \in Seq(Event) /\ MaxId \in Nat
      /\ FirstFits(channel, project, rows, hasMore) /\ Descending(rows)
  BY LogPageAssumption DEF IInv, Typed, TypeOk, ListOk, Follows
<1>2. PICK event \in Event : event = Head(channel)
  BY <1>1
<1>3. PICK x \in Int : x = event.row.id
  BY <1>1 DEF Event, Row
<1>4. /\ 1 \in DOMAIN channel /\ channel[1] = event
      /\ \A j \in DOMAIN channel : ~(j < 1)
  BY <1>1, <1>2, TailIndex
<1>5. /\ event.effect = "update" /\ event.row.of = project
      /\ BinarySearch(rows, x) = Throws
  BY <1>2, <1>3 DEF Breaks, IInv, RefOk
<1>6. Has(rows, x) \/ Below(rows, hasMore, x)
  <2>1. About(channel[1], project, x)
    BY <1>3, <1>4, <1>5 DEF About
  <2> QED BY <1>1, <1>4, <1>5, <2>1 DEF FirstFits
<1>7. /\ Len(rows) \in Nat /\ DOMAIN rows = 1 .. Len(rows)
      /\ rows # << >> => Len(rows) # 0
      /\ \A row \in Row : row.id \in Int
  BY <1>1, RowsTyped DEF Row
<1>8. /\ \A k \in DOMAIN rows : rows[k].id = x => BinarySearch(rows, x) = k
      /\ rows # << >> /\ x > rows[1].id
  BY <1>1, <1>5, <1>7, SearchFinds
<1>9. ~Has(rows, x)
  BY <1>5, <1>7, <1>8 DEF Has, Throws
<1>10. 1 \in DOMAIN rows /\ rows[1].id \in Int
  BY <1>1, <1>7, <1>8, RowsTyped
<1>11. ~Below(rows, hasMore, x)
  <2>1. PICK y \in Int : y = rows[1].id
    BY <1>10
  <2>2. Has(rows, y) /\ ~(x < y)
    BY <1>8, <1>10, <2>1 DEF Has
  <2> QED BY <2>2, Zenon DEF Below
<1> QED BY <1>6, <1>9, <1>11

\* The state of the page and the server has its types: rows, events and answers are
\* logs of projects, and the first pages it has had are of views it knows.
THEOREM TypeCorrect == Spec => []TypeOk
<1>1. IInv => TypeOk
  BY DEF IInv, Typed
<1> QED BY <1>1, Invariance, PTL

\* In quiet times the list of LogPage.tsx, in either build, holds the newest
\* logs of the view, each once, as they are now, and all of them when it has
\* no more to load.
THEOREM QuietListIsExact == Spec => []QuietPageIsExact
<1>1. IInv => QuietPageIsExact
  BY QuietList
<1> QED BY <1>1, Invariance, PTL

\* In quiet times the filter bar of LogPage.tsx shows the filters stored with
\* the view, unless one of them is being saved.
THEOREM QuietBarShowsTheStored == Spec => []QuietChipsAreStored
<1>1. IInv => QuietChipsAreStored
  BY DEF IInv, ChipsOk, Saving, QuietChipsAreStored
<1> QED BY <1>1, Invariance, PTL

\* The dashboard goes blank only after something has disturbed the list: as long
\* as nothing has, every update it hears is of a row that is on the list or below
\* its end, and the search of common.ts does not leave the list.
THEOREM OnlyDisturbedPagesThrow == Spec => []UndisturbedNeverThrows
<1>1. IInv => UndisturbedNeverThrows
  BY NeverThrows
<1> QED BY <1>1, Invariance, PTL
=============================================================================
