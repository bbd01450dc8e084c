----------------------- MODULE ExpectationStoreProofs -----------------------
(***************************************************************************)
(* Proofs about the match order and the expectation store of both builds,  *)
(* for any number of documents, any ranks, keys and contents, and any      *)
(* files.  The first part shows what sorting and concatenating make of the *)
(* blocks: MatchOrder lists every expectation once, and of two of them     *)
(* first the one that Ahead puts first.  The properties of the store       *)
(* follow from Ahead alone.                                                *)
(***************************************************************************)
EXTENDS DesktopExpectationStore, TLAPS, FiniteSetTheorems, SequenceTheorems

-----------------------------------------------------------------------------
(* Sorting a finite set.                                                    *)

\* R is a set of pairs: a strict total order on S.
StrictTotal(S, R) ==
    /\ \A x \in S : <<x, x>> \notin R
    /\ \A x, y \in S : x = y \/ <<x, y>> \in R \/ <<y, x>> \in R
    /\ \A x, y, z \in S : <<x, y>> \in R /\ <<y, z>> \in R => <<x, z>> \in R

Before(S, R, x) == {y \in S : <<y, x>> \in R}

\* The list of c elements that a set of pairs <<place, element>> describes.
Listed(places, c) == [n \in 1 .. c |-> (CHOOSE p \in places : p[1] = n - 1)[2]]

\* Sorted of MatchOrder, with the order given as a set of pairs.
SortedBy(S, R) == Listed({<<Cardinality(Before(S, R, x)), x>> : x \in S}, Cardinality(S))

\* How many come before an element is its place, and every place is taken.
LEMMA Places ==
  ASSUME NEW S, IsFiniteSet(S), NEW R, StrictTotal(S, R),
         NEW place, place = [x \in S |-> Cardinality(Before(S, R, x))]
  PROVE  /\ Cardinality(S) \in Nat
         /\ place \in [S -> 0 .. Cardinality(S) - 1]
         /\ \A x, y \in S : <<x, y>> \in R => place[x] < place[y]
         /\ \A x, y \in S : place[x] = place[y] => x = y
         /\ \A k \in 0 .. Cardinality(S) - 1 : \E x \in S : place[x] = k
<1> DEFINE n == Cardinality(S)
           B(x) == Before(S, R, x)
<1>1. n \in Nat
  BY FS_CardinalityType
<1>2. \A x \in S : IsFiniteSet(B(x)) /\ Cardinality(B(x)) \in Nat
  <2> TAKE x \in S
  <2>1. B(x) \in SUBSET S
    BY DEF Before
  <2> QED BY <2>1, FS_Subset, FS_CardinalityType
<1>3. ASSUME NEW x \in S PROVE Cardinality(B(x)) < n
  <2>1. B(x) \in SUBSET S /\ B(x) # S
    <3>1. x \notin B(x)
      BY DEF Before, StrictTotal
    <3> QED BY <3>1 DEF Before
  <2>2. Cardinality(B(x)) <= n /\ n # Cardinality(B(x))
    BY <2>1, FS_Subset
  <2> QED BY <1>1, <1>2, <2>2
<1>4. ASSUME NEW x \in S, NEW y \in S, <<x, y>> \in R PROVE place[x] < place[y]
  <2>1. B(x) \in SUBSET B(y)
    BY <1>4 DEF Before, StrictTotal
  <2>2. x \in B(y) /\ x \notin B(x)
    BY <1>4 DEF Before, StrictTotal
  <2>3. B(x) # B(y)
    BY <2>2
  <2> HIDE DEF B
  <2>4. Cardinality(B(x)) <= Cardinality(B(y)) /\ Cardinality(B(y)) # Cardinality(B(x))
    BY <1>2, <2>1, <2>3, FS_Subset
  <2>5. place[x] = Cardinality(B(x)) /\ place[y] = Cardinality(B(y))
    BY DEF B
  <2> QED BY <1>2, <2>4, <2>5
<1>5. place \in [S -> 0 .. n - 1]
  <2>1. \A x \in S : place[x] \in 0 .. n - 1
    BY <1>1, <1>2, <1>3
  <2> QED BY <2>1
<1>6. \A x, y \in S : place[x] = place[y] => x = y
  <2> SUFFICES ASSUME NEW x \in S, NEW y \in S, place[x] = place[y], x # y PROVE FALSE
    OBVIOUS
  <2>1. <<x, y>> \in R \/ <<y, x>> \in R
    BY DEF StrictTotal
  <2>2. place[x] \in 0 .. n - 1 /\ place[y] \in 0 .. n - 1
    BY <1>5
  <2> HIDE DEF n
  <2> QED BY <1>1, <1>4, <2>1, <2>2
<1>7. place \in Injection(S, 0 .. n - 1)
  BY <1>5, <1>6 DEF Injection, IsInjective
<1>8. IsFiniteSet(0 .. n - 1) /\ Cardinality(0 .. n - 1) = n
  <2> HIDE DEF n
  <2>1. 0 \in Int /\ n - 1 \in Int
    BY <1>1
  <2>2. /\ IsFiniteSet(0 .. n - 1)
        /\ Cardinality(0 .. n - 1) = IF 0 > n - 1 THEN 0 ELSE (n - 1) - 0 + 1
    BY <2>1, FS_Interval
  <2> QED BY <1>1, <2>2
<1>9. place \in Surjection(S, 0 .. n - 1)
  BY <1>7, <1>8, FS_Injection
<1>10. \A k \in 0 .. n - 1 : \E x \in S : place[x] = k
  BY <1>9 DEF Surjection
<1> QED BY <1>1, <1>4, <1>5, <1>6, <1>10

\* A sorted set lists each element once, the smaller one first.
LEMMA SortedLists ==
  ASSUME NEW S, IsFiniteSet(S), NEW R, StrictTotal(S, R)
  PROVE  /\ Cardinality(S) \in Nat
         /\ SortedBy(S, R) \in [1 .. Cardinality(S) -> S]
         /\ \A x \in S : \E n \in 1 .. Cardinality(S) : SortedBy(S, R)[n] = x
         /\ \A m, n \in 1 .. Cardinality(S) :
              m < n => <<SortedBy(S, R)[m], SortedBy(S, R)[n]>> \in R
<1> DEFINE c == Cardinality(S)
           place == [x \in S |-> Cardinality(Before(S, R, x))]
           places == {<<Cardinality(Before(S, R, x)), x>> : x \in S}
           at(n) == (CHOOSE p \in places : p[1] = n - 1)[2]
<1>1. /\ c \in Nat
      /\ place \in [S -> 0 .. c - 1]
      /\ \A x, y \in S : <<x, y>> \in R => place[x] < place[y]
      /\ \A x, y \in S : place[x] = place[y] => x = y
      /\ \A k \in 0 .. c - 1 : \E x \in S : place[x] = k
  <2>1. place = [x \in S |-> Cardinality(Before(S, R, x))]
    OBVIOUS
  <2> HIDE DEF place
  <2> QED BY <2>1, Places
<1>2. SortedBy(S, R) = [n \in 1 .. c |-> at(n)]
  BY DEF SortedBy, Listed
<1>3. places = {<<place[x], x>> : x \in S}
  OBVIOUS
<1> HIDE DEF place, places, c
<1>4. ASSUME NEW n \in 1 .. c PROVE at(n) \in S /\ place[at(n)] = n - 1
  <2>1. n - 1 \in 0 .. c - 1
    BY <1>1
  <2>2. PICK x \in S : place[x] = n - 1
    BY <1>1, <2>1
  <2> DEFINE q == <<place[x], x>>
  <2>3. q \in places /\ q[1] = n - 1
    BY <1>3, <2>2
  <2> DEFINE p == CHOOSE z \in places : z[1] = n - 1
  <2>4. p \in places /\ p[1] = n - 1
    BY <2>3
  <2>5. PICK y \in S : p = <<place[y], y>>
    BY <1>3, <2>4
  <2>6. at(n) = p[2]
    OBVIOUS
  <2> HIDE DEF p, at
  <2> QED BY <2>4, <2>5, <2>6
<1> HIDE DEF at
<1>5. SortedBy(S, R) \in [1 .. c -> S]
  BY <1>2, <1>4
<1>6. ASSUME NEW x \in S PROVE \E n \in 1 .. c : SortedBy(S, R)[n] = x
  <2>1. place[x] \in 0 .. c - 1
    BY <1>1
  <2>2. place[x] + 1 \in 1 .. c
    BY <1>1, <2>1
  <2>3. at(place[x] + 1) \in S /\ place[at(place[x] + 1)] = place[x]
    BY <1>1, <1>4, <2>1, <2>2
  <2>4. at(place[x] + 1) = x
    BY <1>1, <2>3
  <2> QED BY <1>2, <2>2, <2>4
<1>7. ASSUME NEW m \in 1 .. c, NEW n \in 1 .. c, m < n PROVE <<at(m), at(n)>> \in R
  <2>1. /\ at(m) \in S /\ at(n) \in S
        /\ place[at(m)] = m - 1 /\ place[at(n)] = n - 1
    BY <1>4
  <2>2. place[at(m)] < place[at(n)]
    BY <1>1, <1>7, <2>1
  <2>3. at(m) # at(n) /\ <<at(n), at(m)>> \notin R
    BY <1>1, <1>7, <2>1, <2>2
  <2> QED BY <2>1, <2>3 DEF StrictTotal
<1> QED BY <1>1, <1>2, <1>5, <1>6, <1>7 DEF c

-----------------------------------------------------------------------------
(* Concatenating lists.                                                     *)

\* f holds the concatenation of the first n lists at n, for every n up to k.
Prefixes(f, lists, k) ==
    f = [n \in 0 .. k |-> IF n = 0 THEN << >> ELSE f[n - 1] \o lists[n]]

LEMMA ConcatenatedIs ==
  ASSUME NEW lists
  PROVE  Concatenated(lists) = (CHOOSE f : Prefixes(f, lists, Len(lists)))[Len(lists)]
  BY DEF Concatenated, Prefixes

LEMMA NaturalInduction ==
  ASSUME NEW T, 0 \in T, \A n \in Nat : n \in T => n + 1 \in T
  PROVE  Nat \subseteq T
<1> SUFFICES ASSUME Nat \ T # {} PROVE FALSE
  OBVIOUS
<1>1. Nat \ T \subseteq Nat
  OBVIOUS
<1>2. PICK m \in Nat \ T : \A n \in Nat \ T : <<n, m>> \notin OpToRel(<, Nat)
  BY <1>1, NatLessThanWellFounded, WFMin
<1>3. \A n \in Nat \ T : ~(n < m)
  BY <1>2 DEF OpToRel
<1>4. m \in Nat /\ m \notin T
  BY <1>2
<1>5. m # 0
  BY <1>4
<1>6. m - 1 \in Nat /\ m - 1 < m /\ (m - 1) + 1 = m
  BY <1>4, <1>5
<1>7. m - 1 \in T
  BY <1>3, <1>6
<1>8. (m - 1) + 1 \in T
  BY <1>6, <1>7
<1> QED BY <1>4, <1>6, <1>8

LEMMA PrefixesExist ==
  ASSUME NEW lists, NEW k \in Nat
  PROVE  \E f : Prefixes(f, lists, k)
<1> DEFINE T == {n \in Nat : \E f : Prefixes(f, lists, n)}
<1>1. 0 \in T
  <2> DEFINE f == [n \in 0 .. 0 |-> << >>]
  <2>1. f = [n \in 0 .. 0 |-> IF n = 0 THEN << >> ELSE f[n - 1] \o lists[n]]
    OBVIOUS
  <2> QED BY <2>1 DEF Prefixes
<1>2. ASSUME NEW n \in Nat, n \in T PROVE n + 1 \in T
  <2>1. PICK f : Prefixes(f, lists, n)
    BY <1>2
  <2> DEFINE g == [m \in 0 .. n + 1 |-> IF m = n + 1 THEN f[n] \o lists[n + 1] ELSE f[m]]
  <2>2. \A m \in 0 .. n : f[m] = IF m = 0 THEN << >> ELSE f[m - 1] \o lists[m]
    BY <2>1 DEF Prefixes
  <2>3. ASSUME NEW m \in 0 .. n + 1
        PROVE  g[m] = IF m = 0 THEN << >> ELSE g[m - 1] \o lists[m]
    BY <2>2
  <2>4. g = [m \in 0 .. n + 1 |-> IF m = 0 THEN << >> ELSE g[m - 1] \o lists[m]]
    BY <2>3
  <2>5. Prefixes(g, lists, n + 1)
    BY <2>4 DEF Prefixes
  <2> QED BY <2>5
<1> HIDE DEF T
<1>3. k \in T
  BY <1>1, <1>2, NaturalInduction
<1> QED BY <1>3 DEF T

\* x is in one of the first n lists.
Holds(lists, n, x) == \E k \in 1 .. n : \E i \in DOMAIN lists[k] : lists[k][i] = x

\* x is in an earlier list than y, or earlier in the same list.
Earlier(lists, n, x, y) ==
    \E k, l \in 1 .. n : \E i \in DOMAIN lists[k], j \in DOMAIN lists[l] :
        /\ lists[k][i] = x /\ lists[l][j] = y
        /\ k < l \/ (k = l /\ i < j)

Member(seq, x) == \E a \in DOMAIN seq : seq[a] = x

\* seq is the concatenation of the first n lists, as far as order goes.
Joins(seq, lists, n) ==
    /\ \A x : Holds(lists, n, x) <=> Member(seq, x)
    /\ \A a, b \in DOMAIN seq : a < b => Earlier(lists, n, seq[a], seq[b])

LEMMA JoinOneMore ==
  ASSUME NEW S, NEW lists, NEW n \in Nat, NEW seq \in Seq(S), Joins(seq, lists, n),
         lists[n + 1] \in Seq(S)
  PROVE  seq \o lists[n + 1] \in Seq(S) /\ Joins(seq \o lists[n + 1], lists, n + 1)
<1> DEFINE t == lists[n + 1]
           u == seq \o t
<1>1. /\ Len(seq) \in Nat /\ DOMAIN seq = 1 .. Len(seq)
      /\ Len(t) \in Nat /\ DOMAIN t = 1 .. Len(t)
      /\ u \in Seq(S) /\ Len(u) = Len(seq) + Len(t)
      /\ \A a \in 1 .. Len(seq) + Len(t) :
           u[a] = IF a <= Len(seq) THEN seq[a] ELSE t[a - Len(seq)]
  BY LenProperties, ConcatProperties
<1>2. DOMAIN u = 1 .. Len(seq) + Len(t)
  BY <1>1, LenProperties
<1> HIDE DEF u
<1>3. ASSUME NEW x PROVE Holds(lists, n + 1, x) <=> Holds(lists, n, x) \/ Member(t, x)
  BY DEF Holds, Member
<1>4. ASSUME NEW x PROVE Member(u, x) <=> Member(seq, x) \/ Member(t, x)
  <2>1. ASSUME NEW a \in DOMAIN u PROVE Member(seq, u[a]) \/ Member(t, u[a])
    <3>1. CASE a <= Len(seq)
      BY <1>1, <1>2, <3>1 DEF Member
    <3>2. CASE a > Len(seq)
      <4>1. a - Len(seq) \in 1 .. Len(t)
        BY <1>1, <1>2, <3>2
      <4> QED BY <1>1, <1>2, <3>2, <4>1 DEF Member
    <3> QED BY <1>1, <1>2, <3>1, <3>2
  <2>2. ASSUME NEW a \in DOMAIN seq PROVE Member(u, seq[a])
    BY <1>1, <1>2 DEF Member
  <2>3. ASSUME NEW a \in DOMAIN t PROVE Member(u, t[a])
    <3>1. a + Len(seq) \in DOMAIN u /\ u[a + Len(seq)] = t[a]
      BY <1>1, <1>2
    <3> QED BY <3>1 DEF Member
  <2> QED BY <2>1, <2>2, <2>3 DEF Member
<1>5. ASSUME NEW a \in DOMAIN u, NEW b \in DOMAIN u, a < b
      PROVE  Earlier(lists, n + 1, u[a], u[b])
  <2>1. CASE b <= Len(seq)
    <3>1. Earlier(lists, n, seq[a], seq[b])
      BY <1>1, <1>2, <1>5, <2>1 DEF Joins
    <3>2. Earlier(lists, n + 1, seq[a], seq[b])
      BY <3>1 DEF Earlier
    <3> QED BY <1>1, <1>2, <1>5, <2>1, <3>2
  <2>2. CASE a <= Len(seq) /\ b > Len(seq)
    <3>1. b - Len(seq) \in DOMAIN t /\ u[b] = t[b - Len(seq)] /\ u[a] = seq[a]
      BY <1>1, <1>2, <2>2
    <3>2. Holds(lists, n, u[a])
      BY <1>1, <1>2, <2>2, <3>1 DEF Joins, Member
    <3>3. PICK k \in 1 .. n : \E i \in DOMAIN lists[k] : lists[k][i] = u[a]
      BY <3>2 DEF Holds
    <3>4. PICK i \in DOMAIN lists[k] : lists[k][i] = u[a]
      BY <3>3
    <3>5. k \in 1 .. n + 1 /\ n + 1 \in 1 .. n + 1 /\ k < n + 1
      OBVIOUS
    <3> QED BY <3>1, <3>4, <3>5 DEF Earlier
  <2>3. CASE a > Len(seq)
    <3>1. /\ a - Len(seq) \in DOMAIN t /\ b - Len(seq) \in DOMAIN t
          /\ u[a] = t[a - Len(seq)] /\ u[b] = t[b - Len(seq)]
          /\ a - Len(seq) < b - Len(seq)
      BY <1>1, <1>2, <1>5, <2>3
    <3>2. n + 1 \in 1 .. n + 1
      OBVIOUS
    <3> QED BY <3>1, <3>2 DEF Earlier
  <2> QED BY <1>1, <1>2, <2>1, <2>2, <2>3
<1>6. Joins(u, lists, n + 1)
  BY <1>3, <1>4, <1>5 DEF Joins
<1> QED BY <1>1, <1>6 DEF u

\* What Concatenated returns.
LEMMA ConcatenatedJoins ==
  ASSUME NEW S, NEW lists \in Seq(Seq(S))
  PROVE  Concatenated(lists) \in Seq(S) /\ Joins(Concatenated(lists), lists, Len(lists))
<1>1. Len(lists) \in Nat /\ \A n \in 1 .. Len(lists) : lists[n] \in Seq(S)
  BY LenProperties, ElementOfSeq
<1> DEFINE f == CHOOSE g : Prefixes(g, lists, Len(lists))
<1>2. Prefixes(f, lists, Len(lists))
  BY <1>1, PrefixesExist
<1>3. Concatenated(lists) = f[Len(lists)]
  BY ConcatenatedIs
<1> HIDE DEF f
<1>4. \A n \in 0 .. Len(lists) : f[n] = IF n = 0 THEN << >> ELSE f[n - 1] \o lists[n]
  BY <1>2 DEF Prefixes
<1> DEFINE T == {n \in Nat : n <= Len(lists) => f[n] \in Seq(S) /\ Joins(f[n], lists, n)}
<1>5. 0 \in T
  <2>1. f[0] = << >>
    BY <1>1, <1>4
  <2>2. << >> \in Seq(S) /\ DOMAIN << >> = {}
    BY EmptySeq
  <2>3. \A x : ~Holds(lists, 0, x) /\ ~Member(<< >>, x)
    BY <2>2 DEF Holds, Member
  <2>4. Joins(<< >>, lists, 0)
    BY <2>2, <2>3 DEF Joins
  <2> QED BY <2>1, <2>2, <2>4
<1>6. ASSUME NEW n \in Nat, n \in T PROVE n + 1 \in T
  <2> SUFFICES ASSUME n + 1 <= Len(lists)
               PROVE  f[n + 1] \in Seq(S) /\ Joins(f[n + 1], lists, n + 1)
    OBVIOUS
  <2>1. f[n] \in Seq(S) /\ Joins(f[n], lists, n)
    BY <1>1, <1>6
  <2>2. n + 1 \in 0 .. Len(lists) /\ n + 1 \in 1 .. Len(lists) /\ n + 1 # 0 /\ (n + 1) - 1 = n
    BY <1>1
  <2>3. lists[n + 1] \in Seq(S)
    BY <1>1, <2>2
  <2>4. f[n + 1] = f[(n + 1) - 1] \o lists[n + 1]
    BY <1>4, <2>2
  <2>5. f[n + 1] = f[n] \o lists[n + 1]
    BY <2>2, <2>4
  <2> QED BY <2>1, <2>3, <2>5, JoinOneMore
<1> HIDE DEF T
<1>7. Len(lists) \in T
  BY <1>1, <1>5, <1>6, NaturalInduction
<1> QED BY <1>3, <1>7 DEF T

-----------------------------------------------------------------------------
(* The ranks.  A place is a quadruple: priority and time count down, then   *)
(* groups come before single expectations, then the lower number.           *)

Place == Nat \X Nat \X Nat \X Nat

Lex(x, y) ==
    \/ x[1] > y[1]
    \/ x[1] = y[1] /\ x[2] > y[2]
    \/ x[1] = y[1] /\ x[2] = y[2] /\ x[3] < y[3]
    \/ x[1] = y[1] /\ x[2] = y[2] /\ x[3] = y[3] /\ x[4] < y[4]

LEMMA LexTotal ==
  ASSUME NEW x \in Place, NEW y \in Place
  PROVE  /\ ~Lex(x, x)
         /\ x = y \/ Lex(x, y) \/ Lex(y, x)
         /\ ~(Lex(x, y) /\ Lex(y, x))
  BY DEF Place, Lex

LEMMA LexTransitive ==
  ASSUME NEW x \in Place, NEW y \in Place, NEW z \in Place, Lex(x, y), Lex(y, z)
  PROVE  Lex(x, z)
  BY DEF Place, Lex

\* The order that places give to the elements of a set.
ByPlace(S, f) == {p \in S \X S : Lex(f[p[1]], f[p[2]])}

LEMMA PlacesOrder ==
  ASSUME NEW S, NEW f \in [S -> Place], \A x, y \in S : f[x] = f[y] => x = y
  PROVE  StrictTotal(S, ByPlace(S, f))
<1>1. \A x, y \in S : <<x, y>> \in ByPlace(S, f) <=> Lex(f[x], f[y])
  BY DEF ByPlace
<1>2. \A x \in S : f[x] \in Place
  OBVIOUS
<1>3. \A x \in S : ~Lex(f[x], f[x])
  BY <1>2, LexTotal
<1>4. \A x, y \in S : x = y \/ Lex(f[x], f[y]) \/ Lex(f[y], f[x])
  BY <1>2, LexTotal
<1>5. \A x, y, z \in S : Lex(f[x], f[y]) /\ Lex(f[y], f[z]) => Lex(f[x], f[z])
  BY <1>2, LexTransitive
<1> QED BY <1>1, <1>3, <1>4, <1>5 DEF StrictTotal

\* The documents of a collection are finitely many, numbered from 1, and
\* ranked by naturals.
Documents(docs) ==
    /\ IsFiniteSet(DOMAIN docs) /\ DOMAIN docs \subseteq Nat \ {0}
    /\ \A d \in DOMAIN docs : docs[d].priority \in Nat /\ docs[d].time \in Nat

\* The place of an expectation in its block, and that of its block.
Own(E, e) == <<E[e].priority, E[e].time, 0, e>>

Standing(E, G, e) ==
    IF Grouped(E, G, e) THEN <<G[E[e].group].priority, G[E[e].group].time, 0, E[e].group>>
    ELSE <<E[e].priority, E[e].time, 1, e>>

\* The match order without blocks, sorts or lists.
Ahead(E, G, e, f) ==
    \/ Lex(Standing(E, G, e), Standing(E, G, f))
    \/ Standing(E, G, e) = Standing(E, G, f) /\ Lex(Own(E, e), Own(E, f))

LEMMA PlacesTyped ==
  ASSUME NEW E, NEW G, Documents(E), Documents(G), NEW e \in DOMAIN E
  PROVE  Own(E, e) \in Place /\ Standing(E, G, e) \in Place
<1>1. Own(E, e) \in Place
  BY DEF Documents, Own, Place
<1>2. CASE Grouped(E, G, e)
  <2>1. E[e].group \in DOMAIN G
    BY <1>2 DEF Grouped
  <2>2. Standing(E, G, e) = <<G[E[e].group].priority, G[E[e].group].time, 0, E[e].group>>
    BY <1>2 DEF Standing
  <2> QED BY <1>1, <2>1, <2>2 DEF Documents, Place
<1>3. CASE ~Grouped(E, G, e)
  BY <1>1, <1>3 DEF Documents, Place, Standing
<1> QED BY <1>2, <1>3

\* Two expectations have the same standing exactly if they share a block.
LEMMA SameStanding ==
  ASSUME NEW E, NEW G, NEW e \in DOMAIN E, NEW f \in DOMAIN E
  PROVE  Standing(E, G, e) = Standing(E, G, f) <=>
           e = f \/ (Grouped(E, G, e) /\ E[e].group = E[f].group)
  BY DEF Standing, Grouped

LEMMA AheadTotal ==
  ASSUME NEW E, NEW G, Documents(E), Documents(G), NEW e \in DOMAIN E, NEW f \in DOMAIN E
  PROVE  /\ ~Ahead(E, G, e, e)
         /\ e = f \/ Ahead(E, G, e, f) \/ Ahead(E, G, f, e)
         /\ ~(Ahead(E, G, e, f) /\ Ahead(E, G, f, e))
<1>1. /\ Own(E, e) \in Place /\ Own(E, f) \in Place
      /\ Standing(E, G, e) \in Place /\ Standing(E, G, f) \in Place
  BY PlacesTyped
<1>2. Own(E, e) = Own(E, f) => e = f
  BY DEF Own
<1> QED BY <1>1, <1>2, LexTotal DEF Ahead

-----------------------------------------------------------------------------
(* The blocks.                                                              *)

GroupBlock(E, g) == [group |-> g, members |-> {e \in DOMAIN E : E[e].group = g}]
SingleBlock(e) == [group |-> NoGroup, members |-> {e}]
Singles(E, G) == {e \in DOMAIN E : ~Grouped(E, G, e)}

LEMMA BlocksAre ==
  ASSUME NEW E, NEW G
  PROVE  Blocks(E, G) = {GroupBlock(E, g) : g \in DOMAIN G} \cup
                        {SingleBlock(e) : e \in Singles(E, G)}
  BY DEF Blocks, GroupBlock, SingleBlock, Singles

LEMMA BlocksFinite ==
  ASSUME NEW E, NEW G, IsFiniteSet(DOMAIN E), IsFiniteSet(DOMAIN G)
  PROVE  IsFiniteSet(Blocks(E, G))
<1> DEFINE A == {GroupBlock(E, g) : g \in DOMAIN G}
           B == {SingleBlock(e) : e \in Singles(E, G)}
           a == [g \in DOMAIN G |-> GroupBlock(E, g)]
           b == [e \in Singles(E, G) |-> SingleBlock(e)]
<1>1. IsFiniteSet(Singles(E, G))
  <2>1. Singles(E, G) \in SUBSET DOMAIN E
    BY DEF Singles
  <2> QED BY <2>1, FS_Subset
<1>2. a \in Surjection(DOMAIN G, A) /\ b \in Surjection(Singles(E, G), B)
  BY DEF Surjection
<1>3. IsFiniteSet(A) /\ IsFiniteSet(B)
  <2> HIDE DEF A, B, a, b
  <2> QED BY <1>1, <1>2, FS_Surjection
<1>4. Blocks(E, G) = A \cup B
  BY BlocksAre
<1> HIDE DEF A, B
<1> QED BY <1>3, <1>4, FS_Union

\* The place of a block.
BlockPlace(E, G, b) ==
    IF b.group # NoGroup THEN <<G[b.group].priority, G[b.group].time, 0, b.group>>
    ELSE LET e == CHOOSE e \in b.members : TRUE
         IN  <<E[e].priority, E[e].time, 1, e>>

LEMMA GroupPlace ==
  ASSUME NEW E, NEW G, NEW g \in DOMAIN G, g # NoGroup
  PROVE  /\ GroupBlock(E, g).group = g
         /\ BlockKey(E, G, GroupBlock(E, g)) = G[g]
         /\ BlockPlace(E, G, GroupBlock(E, g)) = <<G[g].priority, G[g].time, 0, g>>
  BY DEF GroupBlock, BlockKey, BlockPlace

LEMMA SinglePlace ==
  ASSUME NEW E, NEW G, NEW e
  PROVE  /\ SingleBlock(e).group = NoGroup /\ SingleBlock(e).members = {e}
         /\ BlockKey(E, G, SingleBlock(e)) = E[e]
         /\ BlockPlace(E, G, SingleBlock(e)) = <<E[e].priority, E[e].time, 1, e>>
<1>1. (CHOOSE x \in {e} : TRUE) = e
  OBVIOUS
<1> QED BY <1>1 DEF SingleBlock, BlockKey, BlockPlace

\* The comparison of blocks is that of their places.
LEMMA BlockBeforeIsLex ==
  ASSUME NEW E, NEW G, Documents(E), Documents(G),
         NEW b \in Blocks(E, G), NEW c \in Blocks(E, G)
  PROVE  BlockBefore(E, G, b, c) <=> Lex(BlockPlace(E, G, b), BlockPlace(E, G, c))
<1>1. \A g \in DOMAIN G : g # NoGroup /\ g \in Nat /\ G[g].priority \in Nat /\ G[g].time \in Nat
  BY DEF Documents, NoGroup
<1>2. \A e \in Singles(E, G) : e \in Nat /\ E[e].priority \in Nat /\ E[e].time \in Nat
  BY DEF Documents, Singles
<1>3. /\ (\E g \in DOMAIN G : b = GroupBlock(E, g)) \/ (\E e \in Singles(E, G) : b = SingleBlock(e))
      /\ (\E g \in DOMAIN G : c = GroupBlock(E, g)) \/ (\E e \in Singles(E, G) : c = SingleBlock(e))
  BY BlocksAre
<1>4. ASSUME NEW g \in DOMAIN G, NEW h \in DOMAIN G, b = GroupBlock(E, g), c = GroupBlock(E, h)
      PROVE  BlockBefore(E, G, b, c) <=> Lex(BlockPlace(E, G, b), BlockPlace(E, G, c))
  <2>1. b.group = g /\ c.group = h /\ g # NoGroup /\ h # NoGroup
    BY <1>1, <1>4, GroupPlace
  <2>2. PushedBefore(b, c) <=> g < h
    BY <2>1 DEF PushedBefore
  <2>3. BlockBefore(E, G, b, c) <=>
          Outranks(G[g], G[h]) \/ (~Outranks(G[h], G[g]) /\ g < h)
    BY <1>1, <1>4, <2>2, GroupPlace DEF BlockBefore
  <2>4. /\ BlockPlace(E, G, b) = <<G[g].priority, G[g].time, 0, g>>
        /\ BlockPlace(E, G, c) = <<G[h].priority, G[h].time, 0, h>>
    BY <1>1, <1>4, GroupPlace
  <2> QED BY <1>1, <2>3, <2>4 DEF Lex, Outranks
<1>5. ASSUME NEW g \in DOMAIN G, NEW f \in Singles(E, G), b = GroupBlock(E, g), c = SingleBlock(f)
      PROVE  BlockBefore(E, G, b, c) <=> Lex(BlockPlace(E, G, b), BlockPlace(E, G, c))
  <2>1. b.group = g /\ g # NoGroup /\ c.group = NoGroup
    BY <1>1, <1>5 DEF GroupBlock, SingleBlock
  <2>2. PushedBefore(b, c)
    BY <2>1 DEF PushedBefore
  <2>3. BlockBefore(E, G, b, c) <=> Outranks(G[g], E[f]) \/ ~Outranks(E[f], G[g])
    BY <1>1, <1>5, <2>2, GroupPlace, SinglePlace DEF BlockBefore
  <2>4. /\ BlockPlace(E, G, b) = <<G[g].priority, G[g].time, 0, g>>
        /\ BlockPlace(E, G, c) = <<E[f].priority, E[f].time, 1, f>>
    BY <1>1, <1>5, GroupPlace, SinglePlace
  <2> QED BY <1>1, <1>2, <2>3, <2>4 DEF Lex, Outranks
<1>6. ASSUME NEW e \in Singles(E, G), NEW h \in DOMAIN G, b = SingleBlock(e), c = GroupBlock(E, h)
      PROVE  BlockBefore(E, G, b, c) <=> Lex(BlockPlace(E, G, b), BlockPlace(E, G, c))
  <2>1. b.group = NoGroup /\ c.group = h /\ h # NoGroup
    BY <1>1, <1>6 DEF GroupBlock, SingleBlock
  <2>2. ~PushedBefore(b, c)
    BY <2>1 DEF PushedBefore
  <2>3. BlockBefore(E, G, b, c) <=> Outranks(E[e], G[h])
    BY <1>1, <1>6, <2>2, GroupPlace, SinglePlace DEF BlockBefore
  <2>4. /\ BlockPlace(E, G, b) = <<E[e].priority, E[e].time, 1, e>>
        /\ BlockPlace(E, G, c) = <<G[h].priority, G[h].time, 0, h>>
    BY <1>1, <1>6, GroupPlace, SinglePlace
  <2> QED BY <1>1, <1>2, <2>3, <2>4 DEF Lex, Outranks
<1>7. ASSUME NEW e \in Singles(E, G), NEW f \in Singles(E, G), b = SingleBlock(e), c = SingleBlock(f)
      PROVE  BlockBefore(E, G, b, c) <=> Lex(BlockPlace(E, G, b), BlockPlace(E, G, c))
  <2>1. PushedBefore(b, c) <=> e < f
    BY <1>7, SinglePlace DEF PushedBefore
  <2>2. BlockBefore(E, G, b, c) <=>
          Outranks(E[e], E[f]) \/ (~Outranks(E[f], E[e]) /\ e < f)
    BY <1>7, <2>1, SinglePlace DEF BlockBefore
  <2>3. /\ BlockPlace(E, G, b) = <<E[e].priority, E[e].time, 1, e>>
        /\ BlockPlace(E, G, c) = <<E[f].priority, E[f].time, 1, f>>
    BY <1>7, SinglePlace
  <2> QED BY <1>2, <2>2, <2>3 DEF Lex, Outranks
<1> QED BY <1>3, <1>4, <1>5, <1>6, <1>7

LEMMA BlockPlacesDiffer ==
  ASSUME NEW E, NEW G, Documents(E), Documents(G)
  PROVE  /\ \A b \in Blocks(E, G) : BlockPlace(E, G, b) \in Place
         /\ \A b, c \in Blocks(E, G) : BlockPlace(E, G, b) = BlockPlace(E, G, c) => b = c
<1>1. \A g \in DOMAIN G : g # NoGroup /\ g \in Nat /\ G[g].priority \in Nat /\ G[g].time \in Nat
  BY DEF Documents, NoGroup
<1>2. \A e \in Singles(E, G) : e \in Nat /\ E[e].priority \in Nat /\ E[e].time \in Nat
  BY DEF Documents, Singles
<1>3. \A b \in Blocks(E, G) :
         \/ \E g \in DOMAIN G :
               b = GroupBlock(E, g) /\ BlockPlace(E, G, b) = <<G[g].priority, G[g].time, 0, g>>
         \/ \E e \in Singles(E, G) :
               b = SingleBlock(e) /\ BlockPlace(E, G, b) = <<E[e].priority, E[e].time, 1, e>>
  BY <1>1, BlocksAre, GroupPlace, SinglePlace
<1>4. \A b \in Blocks(E, G) : BlockPlace(E, G, b) \in Place
  BY <1>1, <1>2, <1>3 DEF Place
<1>5. ASSUME NEW b \in Blocks(E, G), NEW c \in Blocks(E, G),
             BlockPlace(E, G, b) = BlockPlace(E, G, c)
      PROVE  b = c
  BY <1>3, <1>5
<1> QED BY <1>4, <1>5

-----------------------------------------------------------------------------
(* The match order.                                                         *)

BlockOrder(E, G) == ByPlace(Blocks(E, G), [b \in Blocks(E, G) |-> BlockPlace(E, G, b)])
MemberOrder(E, S) == ByPlace(S, [e \in S |-> Own(E, e)])

LEMMA SortedBlocks ==
  ASSUME NEW E, NEW G, Documents(E), Documents(G)
  PROVE  /\ BuildMatchOrderBlocks(E, G) = SortedBy(Blocks(E, G), BlockOrder(E, G))
         /\ StrictTotal(Blocks(E, G), BlockOrder(E, G))
<1> DEFINE S == Blocks(E, G)
           R == BlockOrder(E, G)
           f == [b \in S |-> BlockPlace(E, G, b)]
<1>1. f \in [S -> Place] /\ \A b, c \in S : f[b] = f[c] => b = c
  <2> HIDE DEF S
  <2>1. /\ \A b \in S : BlockPlace(E, G, b) \in Place
        /\ \A b, c \in S : BlockPlace(E, G, b) = BlockPlace(E, G, c) => b = c
    BY BlockPlacesDiffer DEF S
  <2> QED BY <2>1
<1>2. StrictTotal(S, R)
  <2>1. R = ByPlace(S, f)
    BY DEF BlockOrder
  <2> HIDE DEF S, R, f
  <2> QED BY <1>1, <2>1, PlacesOrder
<1>3. \A x, y \in S : BlockBefore(E, G, y, x) <=> <<y, x>> \in R
  BY BlockBeforeIsLex DEF BlockOrder, ByPlace
<1>4. ASSUME NEW x \in S PROVE {y \in S : BlockBefore(E, G, y, x)} = Before(S, R, x)
  <2> HIDE DEF S, R
  <2> QED BY <1>3 DEF Before
<1>5. {<<Cardinality({y \in S : BlockBefore(E, G, y, x)}), x>> : x \in S} =
      {<<Cardinality(Before(S, R, x)), x>> : x \in S}
  <2> HIDE DEF S, R
  <2> QED BY <1>4
<1>6. BuildMatchOrderBlocks(E, G) =
      Listed({<<Cardinality({y \in S : BlockBefore(E, G, y, x)}), x>> : x \in S}, Cardinality(S))
  BY DEF BuildMatchOrderBlocks, Sorted, Listed
<1>7. BuildMatchOrderBlocks(E, G) = SortedBy(S, R)
  BY <1>5, <1>6 DEF SortedBy
<1> QED BY <1>2, <1>7

LEMMA SortedMembersAre ==
  ASSUME NEW E, Documents(E), NEW S, S \subseteq DOMAIN E
  PROVE  /\ SortedMembers(E, S) = SortedBy(S, MemberOrder(E, S))
         /\ StrictTotal(S, MemberOrder(E, S))
<1> DEFINE R == MemberOrder(E, S)
           f == [e \in S |-> Own(E, e)]
<1>1. f \in [S -> Place] /\ \A d, e \in S : f[d] = f[e] => d = e
  BY DEF Documents, Own, Place
<1>2. StrictTotal(S, R)
  <2>1. R = ByPlace(S, f)
    BY DEF MemberOrder
  <2> HIDE DEF R, f
  <2> QED BY <1>1, <2>1, PlacesOrder
<1>3. \A x, y \in S : SortsBefore(E, y, x) <=> <<y, x>> \in R
  <2> TAKE x, y \in S
  <2>1. <<y, x>> \in R <=> Lex(Own(E, y), Own(E, x))
    BY DEF MemberOrder, ByPlace
  <2> HIDE DEF R
  <2>2. /\ x \in Nat /\ E[x].priority \in Nat /\ E[x].time \in Nat
        /\ y \in Nat /\ E[y].priority \in Nat /\ E[y].time \in Nat
    BY DEF Documents
  <2> QED BY <2>1, <2>2 DEF SortsBefore, Outranks, Own, Lex
<1>4. ASSUME NEW x \in S PROVE {y \in S : SortsBefore(E, y, x)} = Before(S, R, x)
  <2> HIDE DEF R
  <2> QED BY <1>3 DEF Before
<1>5. {<<Cardinality({y \in S : SortsBefore(E, y, x)}), x>> : x \in S} =
      {<<Cardinality(Before(S, R, x)), x>> : x \in S}
  <2> HIDE DEF R
  <2> QED BY <1>4
<1>6. SortedMembers(E, S) =
      Listed({<<Cardinality({y \in S : SortsBefore(E, y, x)}), x>> : x \in S}, Cardinality(S))
  BY DEF SortedMembers, Sorted, Listed
<1>7. SortedMembers(E, S) = SortedBy(S, R)
  BY <1>5, <1>6 DEF SortedBy
<1> QED BY <1>2, <1>7

\* The members of a block have its place as their standing.
LEMMA MembersStand ==
  ASSUME NEW E, NEW G, Documents(E), Documents(G), NEW b \in Blocks(E, G)
  PROVE  /\ b.members \subseteq DOMAIN E
         /\ \A e \in b.members : Standing(E, G, e) = BlockPlace(E, G, b)
<1>1. CASE \E g \in DOMAIN G : b = GroupBlock(E, g)
  <2>1. PICK g \in DOMAIN G : b = GroupBlock(E, g)
    BY <1>1
  <2>2. g # NoGroup /\ b.members = {e \in DOMAIN E : E[e].group = g}
    BY <2>1 DEF Documents, NoGroup, GroupBlock
  <2>3. BlockPlace(E, G, b) = <<G[g].priority, G[g].time, 0, g>>
    BY <2>1, <2>2, GroupPlace
  <2> QED BY <2>2, <2>3 DEF Standing, Grouped
<1>2. CASE \E e \in Singles(E, G) : b = SingleBlock(e)
  <2>1. PICK e \in Singles(E, G) : b = SingleBlock(e)
    BY <1>2
  <2>2. b.members = {e}
    BY <2>1 DEF SingleBlock
  <2>3. BlockPlace(E, G, b) = <<E[e].priority, E[e].time, 1, e>>
    BY <2>1, SinglePlace
  <2> QED BY <2>2, <2>3 DEF Standing, Singles
<1> QED BY <1>1, <1>2, BlocksAre

\* Every expectation is in a block.
LEMMA InABlock ==
  ASSUME NEW E, NEW G, NEW e \in DOMAIN E
  PROVE  \E b \in Blocks(E, G) : e \in b.members
<1>1. CASE Grouped(E, G, e)
  <2>1. E[e].group \in DOMAIN G
    BY <1>1 DEF Grouped
  <2>2. GroupBlock(E, E[e].group) \in Blocks(E, G)
    BY <2>1, BlocksAre
  <2>3. e \in GroupBlock(E, E[e].group).members
    BY DEF GroupBlock
  <2> QED BY <2>2, <2>3
<1>2. CASE ~Grouped(E, G, e)
  <2>1. SingleBlock(e) \in Blocks(E, G)
    BY <1>2, BlocksAre DEF Singles
  <2>2. e \in SingleBlock(e).members
    BY DEF SingleBlock
  <2> QED BY <2>1, <2>2
<1> QED BY <1>1, <1>2

\* The match order lists every expectation, the one ahead first.
LEMMA MatchOrderIs ==
  ASSUME NEW E, NEW G, Documents(E), Documents(G)
  PROVE  /\ MatchOrder(E, G) \in Seq(DOMAIN E)
         /\ \A e \in DOMAIN E : Member(MatchOrder(E, G), e)
         /\ \A a, b \in DOMAIN MatchOrder(E, G) :
              a < b => Ahead(E, G, MatchOrder(E, G)[a], MatchOrder(E, G)[b])
<1> DEFINE S == Blocks(E, G)
           c == Cardinality(S)
           blocks == BuildMatchOrderBlocks(E, G)
           lists == [n \in DOMAIN blocks |-> SortedMembers(E, blocks[n].members)]
<1>1. /\ c \in Nat
      /\ blocks \in [1 .. c -> S]
      /\ \A x \in S : \E n \in 1 .. c : blocks[n] = x
      /\ \A m, n \in 1 .. c : m < n => <<blocks[m], blocks[n]>> \in BlockOrder(E, G)
  <2>1. IsFiniteSet(S) /\ StrictTotal(S, BlockOrder(E, G))
    BY BlocksFinite, SortedBlocks DEF Documents
  <2>2. blocks = SortedBy(S, BlockOrder(E, G))
    BY SortedBlocks
  <2> HIDE DEF S, blocks
  <2> QED BY <2>1, <2>2, SortedLists
<1>2. \A x, y \in S : <<x, y>> \in BlockOrder(E, G) =>
                        Lex(BlockPlace(E, G, x), BlockPlace(E, G, y))
  BY DEF BlockOrder, ByPlace
<1> HIDE DEF S, blocks, c
<1>3. ASSUME NEW n \in 1 .. c
      PROVE  /\ lists[n] \in Seq(DOMAIN E)
             /\ \A i \in DOMAIN lists[n] :
                   /\ lists[n][i] \in blocks[n].members
                   /\ Standing(E, G, lists[n][i]) = BlockPlace(E, G, blocks[n])
             /\ \A e \in blocks[n].members : Member(lists[n], e)
             /\ \A i, j \in DOMAIN lists[n] :
                   i < j => Lex(Own(E, lists[n][i]), Own(E, lists[n][j]))
  <2> DEFINE M == blocks[n].members
             k == Cardinality(M)
  <2>1. blocks[n] \in Blocks(E, G)
    BY <1>1 DEF S
  <2>2. M \subseteq DOMAIN E /\ \A e \in M : Standing(E, G, e) = BlockPlace(E, G, blocks[n])
    BY <2>1, MembersStand
  <2>3. IsFiniteSet(M)
    <3>1. M \in SUBSET DOMAIN E
      BY <2>2
    <3> QED BY <3>1, FS_Subset DEF Documents
  <2>4. lists[n] = SortedMembers(E, M)
    BY <1>1
  <2> HIDE DEF M, lists
  <2>5. lists[n] = SortedBy(M, MemberOrder(E, M)) /\ StrictTotal(M, MemberOrder(E, M))
    BY <2>2, <2>4, SortedMembersAre
  <2>6. /\ k \in Nat
        /\ lists[n] \in [1 .. k -> M]
        /\ \A e \in M : \E i \in 1 .. k : lists[n][i] = e
        /\ \A i, j \in 1 .. k : i < j => <<lists[n][i], lists[n][j]>> \in MemberOrder(E, M)
    BY <2>3, <2>5, SortedLists
  <2> HIDE DEF k
  <2>7. lists[n] \in [1 .. k -> DOMAIN E]
    BY <2>2, <2>6
  <2>8. lists[n] \in Seq(DOMAIN E)
    BY <2>6, <2>7, SeqDef
  <2>9. \A i \in DOMAIN lists[n] : lists[n][i] \in M
    BY <2>6
  <2>10. \A e \in M : Member(lists[n], e)
    BY <2>6 DEF Member
  <2>11. \A i, j \in DOMAIN lists[n] : i < j => Lex(Own(E, lists[n][i]), Own(E, lists[n][j]))
    <3>1. \A d, e \in M : <<d, e>> \in MemberOrder(E, M) => Lex(Own(E, d), Own(E, e))
      BY DEF MemberOrder, ByPlace
    <3> QED BY <2>6, <3>1
  <2> QED BY <2>2, <2>8, <2>9, <2>10, <2>11 DEF M
<1>4. lists \in Seq(Seq(DOMAIN E)) /\ Len(lists) = c /\ DOMAIN lists = 1 .. c
  <2>1. DOMAIN lists = 1 .. c
    BY <1>1
  <2>2. lists \in [1 .. c -> Seq(DOMAIN E)]
    <3>1. lists = [n \in 1 .. c |-> lists[n]]
      BY <2>1
    <3> HIDE DEF lists
    <3> QED BY <1>3, <3>1
  <2> HIDE DEF lists
  <2>3. lists \in Seq(Seq(DOMAIN E))
    BY <1>1, <2>2, SeqDef
  <2>4. Len(lists) = c
    BY <1>1, <2>1, <2>3, LenProperties
  <2> QED BY <2>1, <2>3, <2>4
<1>5. MatchOrder(E, G) = Concatenated(lists)
  BY DEF MatchOrder, blocks
<1> HIDE DEF lists
<1>6. MatchOrder(E, G) \in Seq(DOMAIN E) /\ Joins(MatchOrder(E, G), lists, c)
  BY <1>4, <1>5, ConcatenatedJoins
<1> DEFINE order == MatchOrder(E, G)
<1> HIDE DEF order
<1>7. ASSUME NEW e \in DOMAIN E PROVE Member(order, e)
  <2>1. PICK b \in S : e \in b.members
    BY InABlock DEF S
  <2>2. PICK n \in 1 .. c : blocks[n] = b
    BY <1>1
  <2>3. Member(lists[n], e)
    BY <1>3, <2>1, <2>2
  <2>4. Holds(lists, c, e)
    BY <2>3 DEF Holds, Member
  <2> QED BY <1>6, <2>4 DEF Joins, order
<1>8. ASSUME NEW a \in DOMAIN order, NEW b \in DOMAIN order, a < b
      PROVE  Ahead(E, G, order[a], order[b])
  <2>1. Earlier(lists, c, order[a], order[b])
    BY <1>6, <1>8 DEF Joins, order
  <2>2. PICK k \in 1 .. c, l \in 1 .. c :
           \E i \in DOMAIN lists[k], j \in DOMAIN lists[l] :
              /\ lists[k][i] = order[a] /\ lists[l][j] = order[b]
              /\ k < l \/ (k = l /\ i < j)
    BY <2>1 DEF Earlier
  <2>3. PICK i \in DOMAIN lists[k], j \in DOMAIN lists[l] :
           /\ lists[k][i] = order[a] /\ lists[l][j] = order[b]
           /\ k < l \/ (k = l /\ i < j)
    BY <2>2
  <2>4. /\ Standing(E, G, order[a]) = BlockPlace(E, G, blocks[k])
        /\ Standing(E, G, order[b]) = BlockPlace(E, G, blocks[l])
    BY <1>3, <2>3
  <2>5. CASE k < l
    <3>1. Lex(BlockPlace(E, G, blocks[k]), BlockPlace(E, G, blocks[l]))
      BY <1>1, <1>2, <2>5
    <3> QED BY <2>4, <3>1 DEF Ahead
  <2>6. CASE k = l /\ i < j
    <3>1. Lex(Own(E, order[a]), Own(E, order[b]))
      BY <1>3, <2>3, <2>6
    <3> QED BY <2>4, <2>6, <3>1 DEF Ahead
  <2> QED BY <2>3, <2>5, <2>6
<1> QED BY <1>6, <1>7, <1>8 DEF order

-----------------------------------------------------------------------------
(* Two match orders agree if what is ahead in the one is in the other.      *)

LEMMA MatchOrderEnumerates ==
  ASSUME NEW E, NEW G, Documents(E), Documents(G)
  PROVE  Enumerates(MatchOrder(E, G), DOMAIN E)
<1> DEFINE order == MatchOrder(E, G)
<1>1. /\ order \in Seq(DOMAIN E)
      /\ \A e \in DOMAIN E : Member(order, e)
      /\ \A a, b \in DOMAIN order : a < b => Ahead(E, G, order[a], order[b])
  BY MatchOrderIs
<1> HIDE DEF order
<1>2. DOMAIN order = 1 .. Len(order) /\ Len(order) \in Nat
  BY <1>1, LenProperties
<1>3. \A n \in DOMAIN order : order[n] \in DOMAIN E
  BY <1>1, <1>2, ElementOfSeq
<1>4. {order[n] : n \in DOMAIN order} = DOMAIN E
  BY <1>1, <1>3 DEF Member
<1>5. ASSUME NEW m \in DOMAIN order, NEW n \in DOMAIN order, order[m] = order[n], m < n
      PROVE  FALSE
  <2>1. Ahead(E, G, order[m], order[n])
    BY <1>1, <1>5
  <2> QED BY <1>3, <1>5, <2>1, AheadTotal
<1>6. ASSUME NEW m \in DOMAIN order, NEW n \in DOMAIN order, order[m] = order[n]
      PROVE  m = n
  <2>1. m < n \/ n < m \/ m = n
    BY <1>2
  <2> QED BY <1>5, <1>6, <2>1
<1> QED BY <1>4, <1>6 DEF Enumerates, order

LEMMA AheadPrecedes ==
  ASSUME NEW E, NEW G, Documents(E), Documents(G),
         NEW e \in DOMAIN E, NEW f \in DOMAIN E, Ahead(E, G, e, f)
  PROVE  Precedes(MatchOrder(E, G), e, f)
<1> DEFINE order == MatchOrder(E, G)
<1>1. /\ order \in Seq(DOMAIN E)
      /\ \A d \in DOMAIN E : Member(order, d)
      /\ \A a, b \in DOMAIN order : a < b => Ahead(E, G, order[a], order[b])
  BY MatchOrderIs
<1> HIDE DEF order
<1>2. DOMAIN order = 1 .. Len(order) /\ Len(order) \in Nat
  BY <1>1, LenProperties
<1>3. PICK m \in DOMAIN order, n \in DOMAIN order : order[m] = e /\ order[n] = f
  BY <1>1 DEF Member
<1>4. m # n
  BY <1>3, AheadTotal
<1>5. ~(n < m)
  BY <1>1, <1>3, AheadTotal
<1>6. m < n
  BY <1>2, <1>4, <1>5
<1> QED BY <1>3, <1>6 DEF Precedes, order

LEMMA OrdersAgree ==
  ASSUME NEW E, NEW G, Documents(E), Documents(G),
         NEW F, NEW H, Documents(F), Documents(H), DOMAIN E \subseteq DOMAIN F,
         \A e, f \in DOMAIN E : Ahead(E, G, e, f) => Ahead(F, H, e, f)
  PROVE  Agree(MatchOrder(E, G), MatchOrder(F, H))
<1> DEFINE order == MatchOrder(E, G)
<1>1. /\ order \in Seq(DOMAIN E)
      /\ \A a, b \in DOMAIN order : a < b => Ahead(E, G, order[a], order[b])
  BY MatchOrderIs
<1> HIDE DEF order
<1>2. \A n \in DOMAIN order : order[n] \in DOMAIN E
  BY <1>1, LenProperties, ElementOfSeq
<1>3. ASSUME NEW m \in DOMAIN order, NEW n \in DOMAIN order, m < n
      PROVE  Precedes(MatchOrder(F, H), order[m], order[n])
  <2>1. Ahead(F, H, order[m], order[n])
    BY <1>1, <1>2, <1>3
  <2> QED BY <1>2, <2>1, AheadPrecedes
<1> QED BY <1>3 DEF Agree, order

-----------------------------------------------------------------------------
(* The store.                                                               *)

Enabled(E, G) == [e \in Active(E, G) |-> E[e]]

LEMMA CollectionsAreDocuments ==
  ASSUME NEW E, NEW G, NEW l \in Nat, NEW h \in Nat,
         DOMAIN E \subseteq 1 .. l, DOMAIN G \subseteq 1 .. h,
         \A e \in DOMAIN E : E[e] \in Expectation,
         \A g \in DOMAIN G : G[g] \in Group
  PROVE  /\ Documents(E) /\ Documents(G)
         /\ Documents(Enabled(E, G))
         /\ DOMAIN Enabled(E, G) = Active(E, G)
         /\ Active(E, G) \subseteq DOMAIN E
<1>1. IsFiniteSet(1 .. l) /\ IsFiniteSet(1 .. h)
  <2>1. 1 \in Int /\ l \in Int /\ h \in Int
    OBVIOUS
  <2> QED BY <2>1, FS_Interval
<1>2. DOMAIN E \in SUBSET (1 .. l) /\ DOMAIN G \in SUBSET (1 .. h)
  OBVIOUS
<1>3. IsFiniteSet(DOMAIN E) /\ IsFiniteSet(DOMAIN G)
  BY <1>1, <1>2, FS_Subset
<1>4. Documents(E)
  BY <1>2, <1>3 DEF Documents, Expectation
<1>5. Documents(G)
  BY <1>2, <1>3 DEF Documents, Group
<1>6. Active(E, G) \in SUBSET DOMAIN E
  BY DEF Active
<1>7. IsFiniteSet(Active(E, G))
  BY <1>3, <1>6, FS_Subset
<1>8. Documents(Enabled(E, G))
  BY <1>4, <1>6, <1>7 DEF Documents, Enabled
<1> QED BY <1>4, <1>5, <1>6, <1>8 DEF Enabled

LEMMA StoreDocuments ==
  ASSUME TypeOk
  PROVE  /\ Documents(exps) /\ Documents(groups)
         /\ Documents(Enabled(exps, groups))
         /\ DOMAIN Enabled(exps, groups) = Active(exps, groups)
         /\ Active(exps, groups) \subseteq DOMAIN exps
  BY CollectionsAreDocuments DEF TypeOk

\* Leaving documents out changes nothing between those that stay.
LEMMA AheadAmongActive ==
  ASSUME NEW E, NEW G, NEW e \in Active(E, G), NEW f \in Active(E, G)
  PROVE  Ahead(Enabled(E, G), G, e, f) <=> Ahead(E, G, e, f)
  BY DEF Ahead, Standing, Own, Grouped, Enabled

\* Among the expectations that may answer none beats one ahead of it.
LEMMA AheadIsNotBeaten ==
  ASSUME TypeOk, NEW e \in DOMAIN exps, NEW f \in DOMAIN exps,
         e = f \/ Ahead(exps, groups, e, f)
  PROVE  ~Beats(f, e)
<1>1. Documents(exps) /\ Documents(groups)
  BY StoreDocuments
<1>2. /\ exps[e].priority \in Nat /\ exps[e].time \in Nat
      /\ exps[f].priority \in Nat /\ exps[f].time \in Nat
  BY <1>1 DEF Documents
<1>3. /\ Stands(e).priority \in Nat /\ Stands(e).time \in Nat
      /\ Stands(f).priority \in Nat /\ Stands(f).time \in Nat
  BY <1>1 DEF Documents, Stands, Grouped
<1>4. CASE e = f
  BY <1>2, <1>3, <1>4 DEF Beats, Outranks
<1>5. CASE Ahead(exps, groups, e, f)
  <2>1. CASE Grouped(exps, groups, f) /\ exps[f].group = exps[e].group
    <3>1. Standing(exps, groups, e) = Standing(exps, groups, f)
      BY <2>1 DEF Standing, Grouped
    <3>2. Standing(exps, groups, e) \in Place
      BY <1>1, PlacesTyped
    <3>3. Lex(Own(exps, e), Own(exps, f))
      BY <1>5, <3>1, <3>2, LexTotal DEF Ahead
    <3>4. ~Outranks(exps[f], exps[e])
      BY <1>2, <3>3 DEF Lex, Own, Outranks
    <3> QED BY <2>1, <3>4 DEF Beats
  <2>2. CASE ~(Grouped(exps, groups, f) /\ exps[f].group = exps[e].group)
    <3>1. /\ Standing(exps, groups, e)[1] = Stands(e).priority
          /\ Standing(exps, groups, e)[2] = Stands(e).time
          /\ Standing(exps, groups, f)[1] = Stands(f).priority
          /\ Standing(exps, groups, f)[2] = Stands(f).time
      BY DEF Standing, Stands
    <3>2. \/ Lex(Standing(exps, groups, e), Standing(exps, groups, f))
          \/ Standing(exps, groups, e) = Standing(exps, groups, f)
      BY <1>5 DEF Ahead
    <3>3. ~Outranks(Stands(f), Stands(e))
      BY <1>3, <3>1, <3>2 DEF Lex, Outranks
    <3> QED BY <2>2, <3>3 DEF Beats
  <2> QED BY <2>1, <2>2
<1> QED BY <1>4, <1>5

-----------------------------------------------------------------------------
(* The state properties follow from the types.                              *)

LEMMA LeastNumber ==
  ASSUME NEW S, S \subseteq Nat, S # {}
  PROVE  \E m \in S : \A n \in S : m <= n
<1>1. PICK m \in S : \A n \in S : <<n, m>> \notin OpToRel(<, Nat)
  BY NatLessThanWellFounded, WFMin
<1>2. \A n \in S : ~(n < m)
  BY <1>1 DEF OpToRel
<1> QED BY <1>2

\* The expectation that answers is the first of the order that accepts.
LEMMA FirstIs ==
  ASSUME NEW T, NEW order \in Seq(T), NEW accepts,
         \E n \in DOMAIN order : order[n] \in accepts
  PROVE  \E m \in DOMAIN order :
            /\ First(order, accepts) = order[m] /\ order[m] \in accepts
            /\ \A n \in DOMAIN order : order[n] \in accepts => m <= n
<1> DEFINE hits == {n \in DOMAIN order : order[n] \in accepts}
           first == CHOOSE n \in hits : \A m \in hits : n <= m
<1>1. hits \subseteq Nat /\ hits # {}
  BY LenProperties
<1>2. \E n \in hits : \A m \in hits : n <= m
  <2> HIDE DEF hits
  <2> QED BY <1>1, LeastNumber
<1>3. first \in hits /\ \A m \in hits : first <= m
  <2> HIDE DEF hits
  <2> QED BY <1>2
<1>4. First(order, accepts) = order[first]
  BY <1>1 DEF First
<1> HIDE DEF first
<1> QED BY <1>3, <1>4

LEMMA TypesGiveBestAnswers ==
  ASSUME TypeOk
  PROVE  BestAnswers
<1> DEFINE order == ActiveOrder(exps, groups)
           A == Enabled(exps, groups)
<1>1. /\ Documents(A) /\ Documents(groups)
      /\ DOMAIN A = Active(exps, groups) /\ Active(exps, groups) \subseteq DOMAIN exps
  BY StoreDocuments
<1>2. order = MatchOrder(A, groups)
  BY DEF ActiveOrder, Enabled
<1>3. /\ order \in Seq(DOMAIN A)
      /\ \A e \in DOMAIN A : Member(order, e)
      /\ \A m, n \in DOMAIN order : m < n => Ahead(A, groups, order[m], order[n])
  BY <1>1, <1>2, MatchOrderIs
<1>4. DOMAIN order = 1 .. Len(order) /\ Len(order) \in Nat
      /\ \A n \in DOMAIN order : order[n] \in DOMAIN A
  BY <1>3, LenProperties, ElementOfSeq
<1> HIDE DEF order, A
<1> SUFFICES ASSUME NEW accepts \in SUBSET DOMAIN exps
             PROVE  LET able == {f \in accepts : ~Silent(f)}
                        e == First(order, accepts)
                    IN  IF able = {} THEN e = NoAnswer
                        ELSE e \in able /\ \A f \in able : ~Beats(f, e)
  BY DEF BestAnswers, order
<1> DEFINE able == {f \in accepts : ~Silent(f)}
<1>5. able = accepts \cap DOMAIN A
  <2>1. \A f \in accepts : ~Silent(f) <=> f \in Active(exps, groups)
    BY DEF Silent, Active, TypeOk, Expectation, Group, Grouped
  <2> QED BY <1>1, <2>1
<1>6. CASE able = {}
  <2>1. {n \in DOMAIN order : order[n] \in accepts} = {}
    BY <1>4, <1>5, <1>6
  <2>2. First(order, accepts) = NoAnswer
    BY <2>1 DEF First
  <2> QED BY <1>6, <2>2
<1>7. CASE able # {}
  <2>1. \E n \in DOMAIN order : order[n] \in accepts
    BY <1>3, <1>5, <1>7 DEF Member
  <2>2. PICK m \in DOMAIN order :
           /\ First(order, accepts) = order[m] /\ order[m] \in accepts
           /\ \A n \in DOMAIN order : order[n] \in accepts => m <= n
    BY <1>3, <2>1, FirstIs
  <2>3. order[m] \in able
    BY <1>4, <1>5, <2>2
  <2>4. ASSUME NEW f \in able PROVE ~Beats(f, order[m])
    <3>1. PICK n \in DOMAIN order : order[n] = f
      BY <1>3, <1>5 DEF Member
    <3>2. m < n \/ m = n
      BY <1>4, <2>2, <3>1
    <3>3. order[m] = f \/ Ahead(A, groups, order[m], f)
      BY <1>3, <3>1, <3>2
    <3>4. /\ order[m] \in Active(exps, groups) /\ f \in Active(exps, groups)
          /\ order[m] \in DOMAIN exps /\ f \in DOMAIN exps
      BY <1>1, <1>4, <1>5
    <3>5. order[m] = f \/ Ahead(exps, groups, order[m], f)
      BY <3>3, <3>4, AheadAmongActive DEF A
    <3> QED BY <3>4, <3>5, AheadIsNotBeaten
  <2> QED BY <1>7, <2>2, <2>3, <2>4
<1> QED BY <1>6, <1>7

LEMMA TypesGiveOneOrder ==
  ASSUME TypeOk
  PROVE  ListShowsEngineOrder
<1> DEFINE A == Enabled(exps, groups)
<1>1. /\ Documents(A) /\ Documents(groups) /\ Documents(exps)
      /\ DOMAIN A = Active(exps, groups) /\ Active(exps, groups) \subseteq DOMAIN exps
  BY StoreDocuments
<1>2. /\ ActiveOrder(exps, groups) = MatchOrder(A, groups)
      /\ ListExpectation = MatchOrder(exps, groups)
  BY DEF ActiveOrder, Enabled, ListExpectation
<1>3. \A e, f \in DOMAIN A : Ahead(A, groups, e, f) => Ahead(exps, groups, e, f)
  BY <1>1, AheadAmongActive
<1> HIDE DEF A
<1>4. /\ Enumerates(MatchOrder(A, groups), DOMAIN A)
      /\ Enumerates(MatchOrder(exps, groups), DOMAIN exps)
  BY <1>1, MatchOrderEnumerates
<1>5. Agree(MatchOrder(A, groups), MatchOrder(exps, groups))
  BY <1>1, <1>3, OrdersAgree
<1> QED BY <1>1, <1>2, <1>4, <1>5 DEF ListShowsEngineOrder

-----------------------------------------------------------------------------
(* Imports.                                                                 *)

LEMMA GreatestNumber ==
  ASSUME NEW n \in Nat, NEW S, S \subseteq 1 .. n, S # {}
  PROVE  \E m \in S : \A l \in S : l <= m
<1> DEFINE T == {n - m : m \in S}
<1>1. T \subseteq Nat /\ T # {}
  <2>1. \A m \in S : n - m \in Nat
    OBVIOUS
  <2> QED BY <2>1
<1>2. PICK t \in T : \A u \in T : t <= u
  <2> HIDE DEF T
  <2> QED BY <1>1, LeastNumber
<1>3. PICK m \in S : t = n - m
  OBVIOUS
<1>4. ASSUME NEW l \in S PROVE l <= m
  <2>1. n - l \in T
    OBVIOUS
  <2>2. n - m <= n - l
    BY <1>2, <1>3, <2>1
  <2> QED BY <2>2
<1> QED BY <1>4

\* An overwriting import replaces contents and nothing else.
LEMMA OverwrittenKeeps ==
  ASSUME TypeOk, NEW items \in File, NEW n \in Nat, n <= Len(items)
  PROVE  /\ DOMAIN Overwritten(items, n) = DOMAIN exps
         /\ \A e \in DOMAIN exps :
               /\ Overwritten(items, n)[e] \in Expectation
               /\ Overwritten(items, n)[e].key = exps[e].key
<1>1. items \in Seq([key : Key, content : Content])
  BY FileAssumption
<1>2. /\ DOMAIN items = 1 .. Len(items) /\ Len(items) \in Nat
      /\ \A m \in 1 .. Len(items) : items[m] \in [key : Key, content : Content]
  BY <1>1, LenProperties, ElementOfSeq
<1>3. DOMAIN Overwritten(items, n) = DOMAIN exps
  BY DEF Overwritten
<1>4. ASSUME NEW e \in DOMAIN exps
      PROVE  /\ Overwritten(items, n)[e] \in Expectation
             /\ Overwritten(items, n)[e].key = exps[e].key
  <2> DEFINE sources == {m \in 1 .. n : ~Fresh(items, m) /\ Existing(items[m].key) = e}
             last == CHOOSE m \in sources : \A l \in sources : l <= m
  <2>1. exps[e] \in Expectation
    BY DEF TypeOk
  <2>2. Overwritten(items, n)[e] =
          IF sources = {} THEN exps[e] ELSE [exps[e] EXCEPT !.content = items[last].content]
    BY DEF Overwritten
  <2>3. CASE sources # {}
    <3>1. sources \subseteq 1 .. n
      OBVIOUS
    <3>2. last \in sources
      <4>1. \E m \in sources : \A l \in sources : l <= m
        <5> HIDE DEF sources
        <5> QED BY <2>3, <3>1, GreatestNumber
      <4> QED BY <4>1
    <3>3. last \in 1 .. Len(items)
      BY <1>2, <3>1, <3>2
    <3> HIDE DEF last, sources
    <3>4. items[last].content \in Content
      BY <1>2, <3>3
    <3>5. Overwritten(items, n)[e] = [exps[e] EXCEPT !.content = items[last].content]
      BY <2>2, <2>3
    <3> QED BY <2>1, <3>4, <3>5 DEF Expectation
  <2> QED BY <2>1, <2>2, <2>3
<1> QED BY <1>3, <1>4

NewItems(items) == {n \in DOMAIN items : Fresh(items, n) /\ ~Twin(items, n)}
NumberOf(items, n) == lastExp + Cardinality({m \in NewItems(items) : m <= n})

\* What an import leaves and what it adds.
LEMMA ImportAdds ==
  ASSUME TypeOk, NEW items \in File, NEW overwrite \in BOOLEAN, NEW time \in Nat,
         Import(items, overwrite, time)
  PROVE  /\ lastExp' \in Nat /\ lastExp <= lastExp' /\ lastExp' <= lastExp + Len(items)
         /\ DOMAIN exps \subseteq DOMAIN exps' /\ DOMAIN exps' \subseteq 1 .. lastExp'
         /\ \A e \in DOMAIN exps : exps'[e] \in Expectation /\ exps'[e].key = exps[e].key
         /\ \A e \in DOMAIN exps' \ DOMAIN exps :
               \E n \in NewItems(items) :
                  /\ e = NumberOf(items, n)
                  /\ exps'[e] = [group |-> NoGroup, priority |-> 0, time |-> time,
                                 activate |-> TRUE, key |-> items[n].key,
                                 content |-> items[n].content]
         /\ \A e \in DOMAIN exps' : exps'[e] \in Expectation
<1> DEFINE new == {n \in DOMAIN items : Fresh(items, n) /\ ~Twin(items, n)}
           upTo(n) == {m \in new : m <= n}
           number(n) == lastExp + Cardinality(upTo(n))
           kept == IF overwrite THEN Overwritten(items, Len(items)) ELSE exps
           document(n) == [group |-> NoGroup, priority |-> 0, time |-> time,
                           activate |-> TRUE, key |-> items[n].key,
                           content |-> items[n].content]
<1>1. /\ items \in Seq([key : Key, content : Content])
      /\ DOMAIN items = 1 .. Len(items) /\ Len(items) \in Nat
      /\ \A m \in 1 .. Len(items) : items[m] \in [key : Key, content : Content]
  BY FileAssumption, LenProperties, ElementOfSeq
<1>2. /\ lastExp' = lastExp + Cardinality(new)
      /\ exps' = [e \in DOMAIN exps \cup {number(n) : n \in new} |->
                    IF e \in DOMAIN exps THEN kept[e]
                    ELSE document(CHOOSE n \in new : number(n) = e)]
  BY DEF Import
<1>3. /\ IsFiniteSet(new) /\ Cardinality(new) \in Nat /\ Cardinality(new) <= Len(items)
      /\ \A n \in new : /\ Cardinality(upTo(n)) \in Nat
                        /\ 0 < Cardinality(upTo(n)) /\ Cardinality(upTo(n)) <= Cardinality(new)
  <2>1. 1 \in Int /\ Len(items) \in Int
    BY <1>1
  <2>2. IsFiniteSet(1 .. Len(items)) /\ Cardinality(1 .. Len(items)) = Len(items)
    <3>1. /\ IsFiniteSet(1 .. Len(items))
          /\ Cardinality(1 .. Len(items)) = IF 1 > Len(items) THEN 0 ELSE Len(items) - 1 + 1
      BY <2>1, FS_Interval
    <3> QED BY <1>1, <3>1
  <2>3. new \in SUBSET (1 .. Len(items))
    BY <1>1
  <2>4. \A n \in new : upTo(n) \in SUBSET new /\ n \in upTo(n)
    BY <2>3
  <2> HIDE DEF new, upTo
  <2>5. IsFiniteSet(new) /\ Cardinality(new) \in Nat /\ Cardinality(new) <= Len(items)
    BY <2>2, <2>3, FS_Subset, FS_CardinalityType
  <2>6. ASSUME NEW n \in new
        PROVE  /\ Cardinality(upTo(n)) \in Nat
               /\ 0 < Cardinality(upTo(n)) /\ Cardinality(upTo(n)) <= Cardinality(new)
    <3>1. IsFiniteSet(upTo(n)) /\ Cardinality(upTo(n)) <= Cardinality(new)
      BY <2>4, <2>5, FS_Subset
    <3>2. Cardinality(upTo(n)) \in Nat
      BY <3>1, FS_CardinalityType
    <3>3. Cardinality(upTo(n)) # 0
      BY <2>4, <3>1, FS_EmptySet
    <3> QED BY <3>1, <3>2, <3>3
  <2> QED BY <2>5, <2>6
<1>4. lastExp \in Nat /\ DOMAIN exps \subseteq 1 .. lastExp
  BY DEF TypeOk
<1>5. \A n \in new : number(n) \in 1 .. lastExp'
  <2>1. lastExp' = lastExp + Cardinality(new)
    BY <1>2
  <2> HIDE DEF new, upTo
  <2> QED BY <1>3, <1>4, <2>1
<1>6. DOMAIN exps' = DOMAIN exps \cup {number(n) : n \in new}
  BY <1>2
<1>7. DOMAIN exps' \subseteq 1 .. lastExp' /\ DOMAIN exps \subseteq DOMAIN exps'
  <2>1. lastExp' = lastExp + Cardinality(new)
    BY <1>2
  <2> HIDE DEF new, number
  <2>2. DOMAIN exps \subseteq 1 .. lastExp'
    BY <1>3, <1>4, <2>1
  <2> QED BY <1>5, <1>6, <2>2
<1>8. ASSUME NEW e \in DOMAIN exps
      PROVE  exps'[e] \in Expectation /\ exps'[e].key = exps[e].key
  <2>1. kept[e] \in Expectation /\ kept[e].key = exps[e].key
    BY <1>1, OverwrittenKeeps DEF TypeOk
  <2> HIDE DEF kept, new, number, document
  <2>2. exps'[e] = kept[e]
    BY <1>2
  <2> QED BY <2>1, <2>2
<1>9. ASSUME NEW e \in DOMAIN exps' \ DOMAIN exps
      PROVE  \E n \in new : e = number(n) /\ exps'[e] = document(n)
  <2> DEFINE c == CHOOSE n \in new : number(n) = e
  <2> HIDE DEF kept, new, number, document
  <2>1. \E n \in new : number(n) = e
    BY <1>6
  <2>2. c \in new /\ number(c) = e
    BY <2>1
  <2>3. exps'[e] = document(c)
    BY <1>2, <1>6
  <2> QED BY <2>2, <2>3
<1>10. ASSUME NEW n \in new PROVE document(n) \in Expectation
  <2>1. items[n].key \in Key /\ items[n].content \in Content
    BY <1>1
  <2>2. NoGroup \in 0 .. MaxDoc
    BY BoundAssumption DEF NoGroup
  <2> QED BY <2>1, <2>2 DEF Expectation
<1>11. \A e \in DOMAIN exps' : exps'[e] \in Expectation
  <2> HIDE DEF new, number, document
  <2> QED BY <1>8, <1>9, <1>10
<1>12. lastExp' \in Nat /\ lastExp <= lastExp' /\ lastExp' <= lastExp + Len(items)
  BY <1>1, <1>2, <1>3, <1>4
<1> QED BY <1>7, <1>8, <1>9, <1>11, <1>12 DEF NewItems, NumberOf

-----------------------------------------------------------------------------
(* The types.                                                               *)

LEMMA IpcIsNext == IpcNext => Next
  BY DEF IpcNext, IpcCreateGroup, IpcUpdateGroup, IpcDeleteGroup, IpcCreateExpectation,
         IpcUpdateExpectation, IpcDeleteExpectation, IpcEditMatcher, IpcEditAction,
         IpcImport, Next, EditGroups, EditExpectations, ImportFile

LEMMA InitTyped == Init => TypeOk
  BY BoundAssumption DEF Init, TypeOk

LEMMA GroupStepsTyped ==
  ASSUME TypeOk, EditGroups
  PROVE  TypeOk'
<1>1. ASSUME NEW rank \in Rank, CreateGroup(rank)
      PROVE  TypeOk'
  <2>1. rank[1] \in Nat /\ rank[2] \in Nat
    BY RankAssumption
  <2>2. /\ lastGroup' = lastGroup + 1 /\ lastExp + lastGroup < MaxDoc
        /\ UNCHANGED <<exps, lastExp>>
    BY <1>1 DEF CreateGroup
  <2>3. DOMAIN groups' = DOMAIN groups \cup {lastGroup'}
    BY <1>1 DEF CreateGroup, Put
  <2>4. \A g \in DOMAIN groups' : groups'[g] \in Group
    BY <1>1, <2>1 DEF CreateGroup, Put, TypeOk, Group
  <2> QED BY <2>2, <2>3, <2>4, BoundAssumption DEF TypeOk
<1>2. ASSUME NEW g \in DOMAIN groups, UpdateGroup(g)
      PROVE  TypeOk'
  <2>1. \A rank \in Rank : rank[1] \in Nat
    BY RankAssumption
  <2>2. DOMAIN groups' = DOMAIN groups /\ UNCHANGED <<exps, lastExp, lastGroup>>
    BY <1>2 DEF UpdateGroup
  <2>3. \A h \in DOMAIN groups' : groups'[h] \in Group
    BY <1>2, <2>1 DEF UpdateGroup, TypeOk, Group
  <2> QED BY <2>2, <2>3 DEF TypeOk
<1>3. ASSUME NEW g \in DOMAIN groups, DeleteGroup(g)
      PROVE  TypeOk'
  BY <1>3 DEF DeleteGroup, Drop, TypeOk
<1> QED BY <1>1, <1>2, <1>3 DEF EditGroups

LEMMA ExpectationStepsTyped ==
  ASSUME TypeOk, EditExpectations
  PROVE  TypeOk'
<1>1. ASSUME NEW g \in 0 .. lastGroup, NEW rank \in Rank, NEW k \in Key, NEW c \in Content,
             CreateExpectation(g, rank, k, c)
      PROVE  TypeOk'
  <2>1. rank[1] \in Nat /\ rank[2] \in Nat
    BY RankAssumption
  <2>2. g \in 0 .. MaxDoc
    BY BoundAssumption DEF TypeOk
  <2>3. /\ lastExp' = lastExp + 1 /\ lastExp + lastGroup < MaxDoc
        /\ UNCHANGED <<groups, lastGroup>>
    BY <1>1 DEF CreateExpectation
  <2>4. DOMAIN exps' = DOMAIN exps \cup {lastExp'}
    BY <1>1 DEF CreateExpectation, Put
  <2>5. \A e \in DOMAIN exps' : exps'[e] \in Expectation
    BY <1>1, <2>1, <2>2 DEF CreateExpectation, Put, TypeOk, Expectation
  <2> QED BY <2>3, <2>4, <2>5, BoundAssumption DEF TypeOk
<1>2. ASSUME NEW e \in DOMAIN exps, UpdateExpectation(e)
      PROVE  TypeOk'
  <2>1. \A rank \in Rank : rank[1] \in Nat
    BY RankAssumption
  <2>2. \A g \in 0 .. lastGroup : g \in 0 .. MaxDoc
    BY BoundAssumption DEF TypeOk
  <2>3. DOMAIN exps' = DOMAIN exps /\ UNCHANGED <<groups, lastExp, lastGroup>>
    BY <1>2 DEF UpdateExpectation
  <2>4. \A f \in DOMAIN exps : exps[f] \in Expectation
    BY DEF TypeOk
  <2>5. ASSUME \E rank \in Rank : exps' = [exps EXCEPT ![e].priority = rank[1]]
        PROVE  \A f \in DOMAIN exps' : exps'[f] \in Expectation
    BY <2>1, <2>4, <2>5 DEF Expectation
  <2>6. ASSUME exps' = [exps EXCEPT ![e].activate = ~@]
        PROVE  \A f \in DOMAIN exps' : exps'[f] \in Expectation
    BY <2>4, <2>6 DEF Expectation
  <2>7. ASSUME \E g \in 0 .. lastGroup : exps' = [exps EXCEPT ![e].group = g]
        PROVE  \A f \in DOMAIN exps' : exps'[f] \in Expectation
    BY <2>2, <2>4, <2>7 DEF Expectation
  <2>8. \A f \in DOMAIN exps' : exps'[f] \in Expectation
    BY <1>2, <2>5, <2>6, <2>7 DEF UpdateExpectation
  <2> QED BY <2>3, <2>8 DEF TypeOk
<1>3. ASSUME NEW e \in DOMAIN exps, EditMatcher(e)
      PROVE  TypeOk'
  <2>1. DOMAIN exps' = DOMAIN exps /\ UNCHANGED <<groups, lastExp, lastGroup>>
    BY <1>3 DEF EditMatcher
  <2>2. \A f \in DOMAIN exps' : exps'[f] \in Expectation
    BY <1>3 DEF EditMatcher, TypeOk, Expectation
  <2> QED BY <2>1, <2>2 DEF TypeOk
<1>4. ASSUME NEW e \in DOMAIN exps, EditAction(e)
      PROVE  TypeOk'
  <2>1. DOMAIN exps' = DOMAIN exps /\ UNCHANGED <<groups, lastExp, lastGroup>>
    BY <1>4 DEF EditAction
  <2>2. \A f \in DOMAIN exps' : exps'[f] \in Expectation
    BY <1>4 DEF EditAction, TypeOk, Expectation
  <2> QED BY <2>1, <2>2 DEF TypeOk
<1>5. ASSUME NEW e \in DOMAIN exps, DeleteExpectation(e)
      PROVE  TypeOk'
  BY <1>5 DEF DeleteExpectation, Drop, TypeOk
<1> QED BY <1>1, <1>2, <1>3, <1>4, <1>5 DEF EditExpectations

LEMMA ImportStepsTyped ==
  ASSUME TypeOk, ImportFile
  PROVE  TypeOk'
<1>1. PICK items \in File :
        /\ lastExp + lastGroup + Len(items) <= MaxDoc
        /\ \/ \E overwrite \in BOOLEAN, time \in Time : Import(items, overwrite, time)
           \/ ImportFails(items)
  BY DEF ImportFile
<1>2. DOMAIN items = 1 .. Len(items) /\ Len(items) \in Nat
  BY FileAssumption, LenProperties
<1>3. ASSUME NEW overwrite \in BOOLEAN, NEW time \in Time, Import(items, overwrite, time)
      PROVE  TypeOk'
  <2>1. time \in Nat
    BY RankAssumption DEF Time
  <2>2. UNCHANGED <<groups, lastGroup>>
    BY <1>3 DEF Import
  <2>3. /\ lastExp' \in Nat /\ lastExp' <= lastExp + Len(items)
        /\ DOMAIN exps' \subseteq 1 .. lastExp'
        /\ \A e \in DOMAIN exps' : exps'[e] \in Expectation
    BY <1>3, <2>1, ImportAdds
  <2>4. lastExp' + lastGroup' <= MaxDoc
    <3>1. lastExp + lastGroup + Len(items) <= MaxDoc
      BY <1>1
    <3>2. lastExp \in Nat /\ lastGroup \in Nat /\ MaxDoc \in Nat /\ lastGroup' = lastGroup
      BY <2>2, BoundAssumption DEF TypeOk
    <3>3. lastExp' \in Nat /\ lastExp' <= lastExp + Len(items) /\ Len(items) \in Nat
      BY <1>2, <2>3
    <3>4. \A L, l, g, n, m \in Nat : l + g + n <= m /\ L <= l + n => L + g <= m
      OBVIOUS
    <3>5. lastExp' + lastGroup <= MaxDoc
      BY <3>1, <3>2, <3>3, <3>4
    <3> QED BY <3>2, <3>5
  <2> QED BY <2>2, <2>3, <2>4 DEF TypeOk
<1>4. CASE ImportFails(items)
  <2>1. PICK n \in Refused(items) : exps' = Overwritten(items, n - 1)
    BY <1>4 DEF ImportFails, AfterRefusal
  <2>2. n - 1 \in Nat /\ n - 1 <= Len(items)
    BY <1>2 DEF Refused
  <2>3. DOMAIN exps' = DOMAIN exps /\ \A e \in DOMAIN exps : exps'[e] \in Expectation
    BY <2>1, <2>2, OverwrittenKeeps
  <2>4. UNCHANGED <<groups, lastExp, lastGroup>>
    BY <1>4 DEF ImportFails
  <2> QED BY <2>3, <2>4 DEF TypeOk
<1> QED BY <1>1, <1>3, <1>4

LEMMA StepsTyped ==
  ASSUME TypeOk, [Next \/ IpcNext]_vars
  PROVE  TypeOk'
<1>1. CASE UNCHANGED vars
  BY <1>1 DEF vars, TypeOk
<1>2. CASE Next
  BY <1>2, GroupStepsTyped, ExpectationStepsTyped, ImportStepsTyped DEF Next
<1> QED BY <1>1, <1>2, IpcIsNext

\* Whatever is edited or imported, the documents of both collections keep
\* their types and the numbers that were handed out.
THEOREM StoreTypeCorrect == BothSpec => []TypeOk
  BY InitTyped, StepsTyped, PTL DEF BothSpec

\* Of the expectations that accept a request, the one that answers is active
\* and no other active one beats it (expectationGroup.ts, buildMatchOrderBlocks;
\* arrayUtils.ts, first).
THEOREM BestExpectationAnswers == BothSpec => []BestAnswers
<1>1. TypeOk => BestAnswers
  BY TypesGiveBestAnswers
<1> QED BY <1>1, StoreTypeCorrect, PTL

\* The list of expectations and the mock server order the active expectations
\* alike, and each holds its own exactly once.
THEOREM OneOrderForAll == BothSpec => []ListShowsEngineOrder
<1>1. TypeOk => ListShowsEngineOrder
  BY TypesGiveOneOrder
<1> QED BY <1>1, StoreTypeCorrect, PTL

-----------------------------------------------------------------------------
(* What a step may never do.                                                *)

LEMMA ImportBringsOneEach ==
  ASSUME TypeOk, NEW items \in File, NEW overwrite \in BOOLEAN, NEW time \in Time,
         Import(items, overwrite, time), NEW k \in Key
  PROVE  \/ WithKey(exps', k) = WithKey(exps, k)
         \/ \E e : WithKey(exps', k) \subseteq {e}
<1>1. /\ DOMAIN exps \subseteq DOMAIN exps'
      /\ \A e \in DOMAIN exps : exps'[e].key = exps[e].key
      /\ \A e \in DOMAIN exps' \ DOMAIN exps :
            \E n \in NewItems(items) :
               e = NumberOf(items, n) /\ exps'[e].key = items[n].key
  <2>1. time \in Nat
    BY RankAssumption DEF Time
  <2>2. \A e \in DOMAIN exps' \ DOMAIN exps :
           \E n \in NewItems(items) :
              /\ e = NumberOf(items, n)
              /\ exps'[e] = [group |-> NoGroup, priority |-> 0, time |-> time,
                             activate |-> TRUE, key |-> items[n].key,
                             content |-> items[n].content]
    BY <2>1, ImportAdds
  <2>3. \A e \in DOMAIN exps' \ DOMAIN exps :
           \E n \in NewItems(items) :
              e = NumberOf(items, n) /\ exps'[e].key = items[n].key
    BY <2>2
  <2> QED BY <2>1, <2>3, ImportAdds
<1>2. CASE WithKey(exps, k) # {}
  <2>1. \A n \in NewItems(items) : items[n].key # k
    BY <1>2 DEF NewItems, Fresh
  <2> QED BY <1>1, <2>1 DEF WithKey
<1>3. CASE WithKey(exps, k) = {}
  <2>1. ASSUME NEW n \in NewItems(items), NEW m \in NewItems(items),
               items[n].key = k, items[m].key = k
        PROVE  n = m
    <3>1. n \in Nat \ {0} /\ m \in Nat \ {0}
      BY FileAssumption, LenProperties DEF NewItems
    <3>2. ~(n < m) /\ ~(m < n)
      BY <2>1, <3>1 DEF NewItems, Twin
    <3> QED BY <3>1, <3>2
  <2>2. \A e \in WithKey(exps', k) : \E n \in NewItems(items) :
           e = NumberOf(items, n) /\ items[n].key = k
    BY <1>1, <1>3 DEF WithKey
  <2>3. CASE WithKey(exps', k) = {}
    BY <2>3
  <2>4. CASE WithKey(exps', k) # {}
    <3>1. PICK e \in WithKey(exps', k) : TRUE
      BY <2>4
    <3>2. WithKey(exps', k) \subseteq {e}
      BY <2>1, <2>2, <3>1
    <3> QED BY <3>2
  <2> QED BY <2>3, <2>4
<1> QED BY <1>2, <1>3

\* An import never leaves a key with more expectations than it had, unless it
\* had none and gets one (the import handlers of both builds).
THEOREM ImportsMakeNoTwins == BothSpec => ImportMakesNoTwins
<1> DEFINE NoTwins ==
      (\E k \in Key :
          /\ Cardinality(WithKey(exps', k)) > 1
          /\ Cardinality(WithKey(exps', k)) > Cardinality(WithKey(exps, k))) =>
        ~ \E items \in File, overwrite \in BOOLEAN, time \in Time :
              Import(items, overwrite, time)
<1>1. ASSUME TypeOk PROVE NoTwins
  <2> SUFFICES ASSUME NEW k \in Key,
                      Cardinality(WithKey(exps', k)) > 1,
                      Cardinality(WithKey(exps', k)) > Cardinality(WithKey(exps, k)),
                      NEW items \in File, NEW overwrite \in BOOLEAN, NEW time \in Time,
                      Import(items, overwrite, time)
               PROVE  FALSE
    OBVIOUS
  <2>1. CASE WithKey(exps', k) = WithKey(exps, k)
    <3>1. WithKey(exps, k) \in SUBSET DOMAIN exps /\ IsFiniteSet(DOMAIN exps)
      BY <1>1, StoreDocuments DEF WithKey, Documents
    <3>2. Cardinality(WithKey(exps, k)) \in Nat
      BY <3>1, FS_Subset, FS_CardinalityType
    <3> QED BY <2>1, <3>2
  <2>2. ASSUME NEW e, WithKey(exps', k) \subseteq {e} PROVE FALSE
    <3>1. WithKey(exps', k) = {} \/ WithKey(exps', k) = {e}
      BY <2>2
    <3>2. Cardinality(WithKey(exps', k)) = 0 \/ Cardinality(WithKey(exps', k)) = 1
      BY <3>1, FS_EmptySet, FS_Singleton
    <3> QED BY <3>2
  <2> QED BY <1>1, <2>1, <2>2, ImportBringsOneEach
<1>2. TypeOk /\ [Next \/ IpcNext]_vars => [NoTwins]_vars
  BY <1>1
<1> QED BY <1>2, StoreTypeCorrect, PTL DEF BothSpec, ImportMakesNoTwins

\* No step takes a group from under an expectation that stays.
LEMMA GroupsStay ==
  ASSUME TypeOk, Next, NEW e \in DOMAIN exps, e \in DOMAIN exps',
         Grouped(exps, groups, e)
  PROVE  exps[e].group \in DOMAIN groups'
<1>1. CASE EditGroups
  <2>1. ASSUME NEW rank \in Rank, CreateGroup(rank)
        PROVE  exps[e].group \in DOMAIN groups'
    BY <2>1 DEF CreateGroup, Put, Grouped
  <2>2. ASSUME NEW g \in DOMAIN groups, UpdateGroup(g)
        PROVE  exps[e].group \in DOMAIN groups'
    BY <2>2 DEF UpdateGroup, Grouped
  <2>3. ASSUME NEW g \in DOMAIN groups, DeleteGroup(g)
        PROVE  exps[e].group \in DOMAIN groups'
    BY <2>3 DEF DeleteGroup, Drop, Grouped
  <2> QED BY <1>1, <2>1, <2>2, <2>3 DEF EditGroups
<1>2. CASE EditExpectations
  <2>1. groups' = groups
    BY <1>2 DEF EditExpectations, CreateExpectation, UpdateExpectation, EditMatcher,
                EditAction, DeleteExpectation
  <2> QED BY <2>1 DEF Grouped
<1>3. CASE ImportFile
  <2>1. groups' = groups
    BY <1>3 DEF ImportFile, Import, ImportFails
  <2> QED BY <2>1 DEF Grouped
<1> QED BY <1>1, <1>2, <1>3 DEF Next

\* A document that is only switched off keeps all but its activation.
LEMMA SilencedKeepsRank ==
  ASSUME TypeOk, OnlySilenced(exps, exps'), OnlySilenced(groups, groups')
  PROVE  /\ DOMAIN exps' \subseteq DOMAIN exps /\ DOMAIN groups' \subseteq DOMAIN groups
         /\ \A e \in DOMAIN exps' :
               /\ exps'[e].group = exps[e].group
               /\ exps'[e].priority = exps[e].priority /\ exps'[e].time = exps[e].time
               /\ exps'[e].activate => exps[e].activate
         /\ \A g \in DOMAIN groups' :
               /\ groups'[g].priority = groups[g].priority /\ groups'[g].time = groups[g].time
               /\ groups'[g].activate => groups[g].activate
<1>1. DOMAIN exps' \subseteq DOMAIN exps /\ DOMAIN groups' \subseteq DOMAIN groups
  BY DEF OnlySilenced
<1>2. ASSUME NEW e \in DOMAIN exps'
      PROVE  /\ exps'[e].group = exps[e].group
             /\ exps'[e].priority = exps[e].priority /\ exps'[e].time = exps[e].time
             /\ exps'[e].activate => exps[e].activate
  <2>1. exps[e] \in Expectation
    BY <1>1 DEF TypeOk
  <2>2. exps'[e] = exps[e] \/ exps'[e] = [exps[e] EXCEPT !.activate = FALSE]
    BY DEF OnlySilenced
  <2> QED BY <2>1, <2>2 DEF Expectation
<1>3. ASSUME NEW g \in DOMAIN groups'
      PROVE  /\ groups'[g].priority = groups[g].priority /\ groups'[g].time = groups[g].time
             /\ groups'[g].activate => groups[g].activate
  <2>1. groups[g] \in Group
    BY <1>1 DEF TypeOk
  <2>2. groups'[g] = groups[g] \/ groups'[g] = [groups[g] EXCEPT !.activate = FALSE]
    BY DEF OnlySilenced
  <2> QED BY <2>1, <2>2 DEF Group
<1> QED BY <1>1, <1>2, <1>3

LEMMA SilencingStep ==
  ASSUME TypeOk, TypeOk', Next, OnlySilenced(exps, exps'), OnlySilenced(groups, groups')
  PROVE  /\ Active(exps', groups') \subseteq Active(exps, groups)
         /\ Agree(ActiveOrder(exps', groups'), ActiveOrder(exps, groups))
<1> DEFINE A == Enabled(exps, groups)
           B == Enabled(exps', groups')
<1>1. /\ DOMAIN exps' \subseteq DOMAIN exps /\ DOMAIN groups' \subseteq DOMAIN groups
      /\ \A e \in DOMAIN exps' :
            /\ exps'[e].group = exps[e].group
            /\ exps'[e].priority = exps[e].priority /\ exps'[e].time = exps[e].time
            /\ exps'[e].activate => exps[e].activate
      /\ \A g \in DOMAIN groups' :
            /\ groups'[g].priority = groups[g].priority /\ groups'[g].time = groups[g].time
            /\ groups'[g].activate => groups[g].activate
  BY SilencedKeepsRank
<1>2. \A e \in DOMAIN exps' : Grouped(exps', groups', e) <=> Grouped(exps, groups, e)
  BY <1>1, GroupsStay DEF Grouped
<1>3. Active(exps', groups') \subseteq Active(exps, groups)
  BY <1>1, <1>2 DEF Active, Grouped
<1>4. /\ Documents(A) /\ Documents(groups) /\ DOMAIN A = Active(exps, groups)
      /\ Active(exps, groups) \subseteq DOMAIN exps
  BY StoreDocuments
<1>5. /\ Documents(B) /\ Documents(groups') /\ DOMAIN B = Active(exps', groups')
      /\ Active(exps', groups') \subseteq DOMAIN exps'
  BY CollectionsAreDocuments DEF TypeOk
<1>6. ASSUME NEW e \in DOMAIN exps'
      PROVE  /\ Standing(exps', groups', e) = Standing(exps, groups, e)
             /\ Own(exps', e) = Own(exps, e)
  BY <1>1, <1>2 DEF Standing, Own, Grouped
<1>7. ASSUME NEW e \in DOMAIN B, NEW f \in DOMAIN B, Ahead(B, groups', e, f)
      PROVE  Ahead(A, groups, e, f)
  <2>1. Ahead(exps', groups', e, f)
    BY <1>5, <1>7, AheadAmongActive
  <2>2. Ahead(exps, groups, e, f)
    BY <1>5, <1>6, <2>1 DEF Ahead
  <2> QED BY <1>3, <1>5, <2>2, AheadAmongActive
<1> HIDE DEF A, B
<1>8. Agree(MatchOrder(B, groups'), MatchOrder(A, groups))
  BY <1>3, <1>4, <1>5, <1>7, OrdersAgree
<1>9. /\ ActiveOrder(exps, groups) = MatchOrder(A, groups)
      /\ ActiveOrder(exps', groups') = MatchOrder(B, groups')
  BY DEF ActiveOrder, Enabled, A, B
<1> QED BY <1>3, <1>8, <1>9

\* Deleting or switching off only takes answers away: the active expectations
\* that remain keep the order they had (DELETE and PUT of an expectation and
\* of a group).
THEOREM SilencingStaysLocal == BothSpec => SilencingIsLocal
<1> DEFINE Local ==
      OnlySilenced(exps, exps') /\ OnlySilenced(groups, groups') =>
        /\ Active(exps', groups') \subseteq Active(exps, groups)
        /\ Agree(ActiveOrder(exps', groups'), ActiveOrder(exps, groups))
<1>1. ASSUME TypeOk, Next PROVE Local
  <2>1. TypeOk'
    BY <1>1, StepsTyped
  <2> QED BY <1>1, <2>1, SilencingStep
<1>2. TypeOk /\ [Next \/ IpcNext]_vars => [Local]_vars
  BY <1>1, IpcIsNext
<1> QED BY <1>2, StoreTypeCorrect, PTL DEF BothSpec, SilencingIsLocal
=============================================================================
