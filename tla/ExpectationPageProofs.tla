------------------------- MODULE ExpectationPageProofs -------------------------
(***************************************************************************)
(* Proofs about the expectation page of both builds, for every set of      *)
(* projects and every bound on documents, contents, requests and steps.    *)
(***************************************************************************)
EXTENDS DesktopExpectationPage, TLAPS, FiniteSetTheorems

-----------------------------------------------------------------------------
(* Sets of numbers and the lists made from them.                           *)

\* A set of numbers that is not empty has a least one, which Min finds.
LEMMA LeastNumber ==
  ASSUME NEW S, S \subseteq Nat, S # {}
  PROVE  Min(S) \in S /\ \A n \in S : Min(S) <= n
<1>1. PICK m \in S : \A n \in S : <<n, m>> \notin OpToRel(<, Nat)
  BY NatLessThanWellFounded, WFMin
<1>2. \A n \in S : ~(n < m)
  BY <1>1 DEF OpToRel
<1>3. \A n \in S : m <= n
  BY <1>2
<1> QED BY <1>3 DEF Min

\* Ordered lists every number of a bounded set once.
LEMMA OrderedLists ==
  ASSUME NEW S, S \subseteq Nat, NEW b \in Nat, \A k \in S : k <= b
  PROVE  /\ Cardinality(S) \in Nat
         /\ Ordered(S) \in [1 .. Cardinality(S) -> S]
         /\ \A k \in S : \E n \in 1 .. Cardinality(S) : Ordered(S)[n] = k
         /\ \A m, n \in 1 .. Cardinality(S) : Ordered(S)[m] = Ordered(S)[n] => m = n
<1> DEFINE Below(k) == {j \in S : j < k}
           N == Cardinality(S)
           rank == [k \in S |-> Cardinality(Below(k)) + 1]
<1>1. IsFiniteSet(S)
  BY FS_BoundedSetOfNaturals
<1>2. N \in Nat
  BY <1>1, FS_CardinalityType
<1>3. ASSUME NEW k \in S
      PROVE  /\ IsFiniteSet(Below(k)) /\ Cardinality(Below(k)) \in Nat
             /\ Cardinality(Below(k)) < N
  <2>1. Below(k) \in SUBSET S /\ k \in S /\ k \notin Below(k)
    OBVIOUS
  <2>2. IsFiniteSet(Below(k)) /\ Cardinality(Below(k)) <= N /\ (N = Cardinality(Below(k)) => S = Below(k))
    BY <1>1, <2>1, FS_Subset
  <2>3. Cardinality(Below(k)) \in Nat
    BY <2>2, FS_CardinalityType
  <2> QED BY <2>1, <2>2, <2>3, <1>2
<1>4. ASSUME NEW j \in S, NEW k \in S, j < k
      PROVE  Cardinality(Below(j)) < Cardinality(Below(k))
  <2>a. \A x \in Below(j) : x \in Below(k)
    BY <1>4
  <2>b. j \in Below(k) /\ j \notin Below(j)
    BY <1>4
  <2>1. Below(j) \in SUBSET Below(k) /\ j \in Below(k) /\ j \notin Below(j)
    BY <2>a, <2>b
  <2>2. Cardinality(Below(j)) <= Cardinality(Below(k))
        /\ (Cardinality(Below(k)) = Cardinality(Below(j)) => Below(k) = Below(j))
    BY <1>3, <2>1, FS_Subset
  <2> QED BY <1>3, <2>1, <2>2
<1> HIDE DEF Below, N
<1>5. rank \in [S -> 1 .. N]
  BY <1>2, <1>3
<1>6. ASSUME NEW j \in S, NEW k \in S, rank[j] = rank[k] PROVE j = k
  <2>1. Cardinality(Below(j)) = Cardinality(Below(k))
    BY <1>3, <1>6
  <2> QED BY <1>3, <1>4, <2>1
<1>7. rank \in Injection(S, 1 .. N)
  BY <1>5, <1>6 DEF Injection, IsInjective
<1>8. IsFiniteSet(1 .. N) /\ Cardinality(1 .. N) = N
  BY <1>2, FS_Interval
<1>9. rank \in Surjection(S, 1 .. N)
  BY <1>7, <1>8, FS_Injection DEF N
<1>10. \A n \in 1 .. N : \E k \in S : Cardinality(Below(k)) = n - 1
  <2> SUFFICES ASSUME NEW n \in 1 .. N PROVE \E k \in S : Cardinality(Below(k)) = n - 1
    OBVIOUS
  <2>1. PICK k \in S : rank[k] = n
    BY <1>9 DEF Surjection
  <2> QED BY <1>3, <2>1
<1>11. Ordered(S) = [n \in 1 .. N |-> CHOOSE k \in S : Cardinality(Below(k)) = n - 1]
  BY DEF Ordered, N, Below
<1>12. \A n \in 1 .. N : Ordered(S)[n] \in S /\ Cardinality(Below(Ordered(S)[n])) = n - 1
  BY <1>10, <1>11
<1>13. ASSUME NEW k \in S PROVE \E n \in 1 .. N : Ordered(S)[n] = k
  <2>1. rank[k] \in 1 .. N /\ Cardinality(Below(k)) = rank[k] - 1
    BY <1>5, <1>3
  <2>2. rank[Ordered(S)[rank[k]]] = rank[k]
    BY <1>12, <1>3, <2>1
  <2> QED BY <1>6, <1>12, <2>1, <2>2
<1>14. ASSUME NEW m \in 1 .. N, NEW n \in 1 .. N, Ordered(S)[m] = Ordered(S)[n] PROVE m = n
  BY <1>12, <1>14, <1>2
<1> QED BY <1>2, <1>11, <1>12, <1>13, <1>14 DEF N

\* What a list shows of a set of expectations, and of another list.
Shows(l, S) ==
  /\ l \in Seq(Expectation)
  /\ \A i \in DOMAIN l : l[i] \in S
  /\ \A e \in S : \E i \in DOMAIN l : l[i] = e

RowsDiffer(l) == \A i, j \in DOMAIN l : l[i].id = l[j].id => i = j

Unique(S) == \A d, e \in S : d.id = e.id => d = e

RowIds(S) == {e.id : e \in S}

\* The page shows every document of an answer, once.
LEMMA NewestShows ==
  ASSUME NEW S, S \subseteq Expectation, Unique(S)
  PROVE  Shows(Newest(S), S) /\ RowsDiffer(Newest(S))
<1> DEFINE ids == {e.id : e \in S}
           o == Ordered(ids)
           N == Cardinality(ids)
           at(n) == CHOOSE e \in S : e.id = o[Len(o) + 1 - n]
<1>1. ids \subseteq Nat /\ \A k \in ids : k <= MaxId
  BY ExpectationPageAssumption DEF Expectation
<1>2. /\ N \in Nat /\ o \in [1 .. N -> ids]
      /\ \A k \in ids : \E n \in 1 .. N : o[n] = k
      /\ \A m, n \in 1 .. N : o[m] = o[n] => m = n
  <2> HIDE DEF ids
  <2> QED BY <1>1, OrderedLists, ExpectationPageAssumption
<1> HIDE DEF o, N
<1>3. \A n \in 1 .. N : N + 1 - n \in 1 .. N
  BY <1>2
<1>5. Len(o) = N /\ DOMAIN o = 1 .. N
  BY <1>2
<1>4. \A n \in 1 .. N : at(n) \in S /\ at(n).id = o[N + 1 - n]
  <2> SUFFICES ASSUME NEW n \in 1 .. N PROVE \E e \in S : e.id = o[N + 1 - n]
    BY <1>5
  <2>1. o[N + 1 - n] \in ids
    BY <1>2, <1>3
  <2> QED BY <2>1
<1>6. Newest(S) = [n \in DOMAIN o |-> at(n)]
  BY DEF Newest, o
<1> HIDE DEF at
<1>7. Newest(S) \in [1 .. N -> S]
  BY <1>4, <1>5, <1>6
<1>8. Newest(S) \in Seq(Expectation) /\ DOMAIN Newest(S) = 1 .. N
  BY <1>2, <1>7
<1>9. ASSUME NEW e \in S PROVE \E i \in 1 .. N : Newest(S)[i] = e
  <2>1. PICK n \in 1 .. N : o[n] = e.id
    BY <1>2
  <2>2. N + 1 - n \in 1 .. N /\ N + 1 - (N + 1 - n) = n
    BY <1>2
  <2>3. at(N + 1 - n) \in S /\ at(N + 1 - n).id = e.id
    BY <1>4, <2>1, <2>2
  <2>4. at(N + 1 - n) = e
    BY <2>3 DEF Unique
  <2> QED BY <1>5, <1>6, <2>2, <2>4
<1>10. ASSUME NEW i \in 1 .. N, NEW j \in 1 .. N, Newest(S)[i].id = Newest(S)[j].id PROVE i = j
  <2>1. o[N + 1 - i] = o[N + 1 - j]
    BY <1>4, <1>5, <1>6, <1>10
  <2>2. N + 1 - i = N + 1 - j
    BY <1>2, <1>3, <2>1
  <2> QED BY <2>2, <1>2
<1> QED BY <1>7, <1>8, <1>9, <1>10 DEF Shows, RowsDiffer

Keeps(w, l, ids) ==
  /\ w \in Seq(Expectation)
  /\ \A i \in DOMAIN w : \E j \in DOMAIN l : w[i] = l[j] /\ l[j].id \notin ids
  /\ \A j \in DOMAIN l : l[j].id \notin ids => \E i \in DOMAIN w : w[i] = l[j]
  /\ RowsDiffer(l) => RowsDiffer(w)

\* The list without some rows has the others, each once.
LEMMA WithoutKeeps ==
  ASSUME NEW l \in Seq(Expectation), NEW ids
  PROVE  Keeps(Without(l, ids), l, ids)
<1> DEFINE kept == {i \in DOMAIN l : l[i].id \notin ids}
           o == Ordered(kept)
           N == Cardinality(kept)
           w == Without(l, ids)
<1>1. kept \subseteq Nat /\ Len(l) \in Nat /\ \A k \in kept : k <= Len(l)
  OBVIOUS
<1>2. /\ N \in Nat /\ o \in [1 .. N -> kept]
      /\ \A k \in kept : \E n \in 1 .. N : o[n] = k
      /\ \A m, n \in 1 .. N : o[m] = o[n] => m = n
  <2> HIDE DEF kept
  <2> QED BY <1>1, OrderedLists
<1> HIDE DEF o, N
<1>3. \A n \in 1 .. N : o[n] \in DOMAIN l /\ l[o[n]].id \notin ids
  BY <1>2
<1>4. DOMAIN o = 1 .. N
  BY <1>2
<1>5. w = [n \in 1 .. N |-> l[o[n]]]
  BY <1>4 DEF Without, o
<1> HIDE DEF w
<1>6. \A i \in DOMAIN l : l[i] \in Expectation
  OBVIOUS
<1>7. w \in [1 .. N -> Expectation]
  BY <1>3, <1>5, <1>6
<1>8. w \in Seq(Expectation) /\ DOMAIN w = 1 .. N
  BY <1>2, <1>7
<1>9. \A i \in 1 .. N : \E j \in DOMAIN l : w[i] = l[j] /\ l[j].id \notin ids
  BY <1>3, <1>5
<1>10. ASSUME NEW j \in DOMAIN l, l[j].id \notin ids PROVE \E i \in 1 .. N : w[i] = l[j]
  <2>1. PICK n \in 1 .. N : o[n] = j
    BY <1>2, <1>10
  <2> QED BY <2>1, <1>5
<1>11. ASSUME RowsDiffer(l), NEW i \in 1 .. N, NEW j \in 1 .. N, w[i].id = w[j].id PROVE i = j
  <2>1. o[i] = o[j]
    BY <1>3, <1>5, <1>11 DEF RowsDiffer
  <2> QED BY <1>2, <2>1
<1>12. RowsDiffer(l) => RowsDiffer(w)
  BY <1>8, <1>11 DEF RowsDiffer
<1>13. \A i \in DOMAIN w : \E j \in DOMAIN l : w[i] = l[j] /\ l[j].id \notin ids
  BY <1>8, <1>9
<1>14. \A j \in DOMAIN l : l[j].id \notin ids => \E i \in DOMAIN w : w[i] = l[j]
  BY <1>8, <1>10
<1>15. Keeps(w, l, ids)
  BY <1>8, <1>12, <1>13, <1>14 DEF Keeps
<1> QED BY <1>15 DEF w

-----------------------------------------------------------------------------
(* Requests.                                                               *)

DialogOf(kind) ==
  CASE kind = "create" -> {"add", "clone"}
    [] kind = "delete" -> {"delete"}
    [] kind = "deleteGroup" -> {"deleteGroup"}
    [] kind = "saveGroup" -> {"group"}
    [] kind = "edit" -> {"edit"}
    [] kind = "saveAction" -> {"action"}
    [] OTHER -> {"page"}

Commands(requests) == {r \in requests : r.kind \in Command}

\* An action without an id is none.
Sound(e, t) == (e.action.id = None => e.action = NoAction) /\ e.action.id <= t

\* What holds of a request by itself, if contents up to t have been written.
Sane(r, t) ==
  /\ r.dialog \in DialogOf(r.kind)
  /\ r.waits # {} => r.kind = "groups"
  /\ r.answered /\ r.kind \in Query \cup {"create"} => r.ok
  /\ r.kind \in Command => ~r.clean /\ r.action <= t
  /\ r.kind \in {"addAction", "saveAction", "deleteAction"} => r.action # None
  /\ Unique(r.list) /\ \A e \in r.list : Sound(e, t)

OwnNumbers(requests) == \A q, r \in requests : q.no = r.no => q = r

Sensible(requests, t) ==
  /\ requests \subseteq Request
  /\ OwnNumbers(requests)
  /\ \A r \in requests : Sane(r, t)

Unnumbered(n, requests) == n \in 1 .. MaxPending /\ \A r \in requests : r.no # n

\* A request gets a number that no other has, if there is one.
LEMMA BlankIsNew ==
  ASSUME NEW kind \in Query \cup Command, NEW others, NEW n, Unnumbered(n, others),
         project \in Project
  PROVE  /\ Blank(kind, others) \in Request
         /\ Unnumbered(Blank(kind, others).no, others)
         /\ Blank(kind, others).no <= n
<1> DEFINE S == {k \in 1 .. MaxPending + 2 : \A r \in others : r.no # k}
           b == Blank(kind, others)
<1>1. S \subseteq Nat /\ n \in S
  BY ExpectationPageAssumption DEF Unnumbered
<1>2. Min(S) \in S /\ Min(S) <= n
  <2> HIDE DEF S
  <2> QED BY <1>1, LeastNumber
<1>3. Min(S) \in 1 .. MaxPending /\ \A r \in others : r.no # Min(S)
  BY <1>2, ExpectationPageAssumption DEF Unnumbered
<1>4. b = [no |-> Min(S), kind |-> kind,
   of |-> project, dialog |-> "page",
   id |-> None, index |-> 0, group |-> None, text |-> 0, action |-> None,
   active |-> TRUE, members |-> {}, waits |-> {}, next |-> None, moves |-> FALSE,
   clean |-> FALSE, answered |-> FALSE, ok |-> FALSE, list |-> {}, groups |-> {}]
  BY DEF Blank
<1> HIDE DEF S, b
<1>5. b \in Request /\ b.no = Min(S)
  BY <1>3, <1>4, ExpectationPageAssumption DEF Request, None
<1>6. Unnumbered(b.no, others)
  BY <1>3, <1>5 DEF Unnumbered
<1> QED BY <1>2, <1>5, <1>6 DEF b

\* A list that nothing disturbs is the stored one.
CleanLists(requests) ==
  \A q \in requests : q.kind = "list" /\ q.clean =>
    Commands(requests) = {} /\ (q.answered => q.list = stored[q.of])

\* Only a list that was there before is fetched twice at a time.
FirstListIsShared(requests) ==
  \A q, r \in requests :
    q.kind = "list" /\ r.kind = "list" /\ q.of = r.of /\ q.of \notin fetched => q = r

Moving(requests) == {q \in Lists(requests) : q.moves}

\* What a list that is fetched again leaves of the other requests.
Refetched(P, others) ==
  /\ others \ Lists(others) \subseteq P
  /\ \A q \in P : q \in others \ Lists(others) \/ q \in Lists(P)

\* A list that will move the selection moves it there.
MovesTo(P, next, moves) ==
  moves => Moving(P) # {} /\ \A q \in Moving(P) : q.next = next

LEMMA ListRefetchedIs ==
  ASSUME NEW others, NEW t \in Nat, Sensible(others, t), NEW n, Unnumbered(n, others),
         NEW next \in 0 .. MaxId, NEW moves \in BOOLEAN, project \in Project,
         NEW P, P = ListRefetched(others, next, moves)
  PROVE  /\ Sensible(P, t)
         /\ \E k \in Nat : \A q \in P : q.no = k \/ \E r \in others : q.no = r.no
         /\ Refetched(P, others)
         /\ CleanLists(others) => CleanLists(P)
         /\ FirstListIsShared(others) =>
              /\ FirstListIsShared(P)
              /\ MovesTo(P, next, moves)
<1> DEFINE old == Lists(others)
           b == Blank("list", others)
           mine == [Fetch("list", others) EXCEPT !.next = next, !.moves = moves]
           stale(r) == [r EXCEPT !.moves = FALSE, !.clean = FALSE]
           again(r) == IF moves THEN [r EXCEPT !.next = next, !.moves = TRUE] ELSE r
<1>1. b \in Request /\ Unnumbered(b.no, others)
  BY BlankIsNew DEF Query
<1>2. /\ b.kind = "list" /\ b.of = project /\ b.dialog = "page" /\ b.waits = {}
      /\ b.answered = FALSE /\ b.list = {}
  BY DEF Blank
<1>3. mine = [b EXCEPT !.clean = (old = {} /\ \A r \in others : r.kind \in Query),
                       !.next = next, !.moves = moves]
  BY DEF Fetch
<1> HIDE DEF b
<1>4. /\ mine \in Request /\ mine.no = b.no /\ mine.kind = "list" /\ mine.of = project
      /\ mine.dialog = "page" /\ mine.waits = {} /\ mine.answered = FALSE
      /\ mine.list = {} /\ mine.next = next /\ mine.moves = moves
      /\ mine.clean = (old = {} /\ \A r \in others : r.kind \in Query)
  BY <1>1, <1>2, <1>3 DEF Request
<1>5. Sane(mine, t)
  BY <1>4 DEF Sane, DialogOf, Query, Command, Unique
<1> HIDE DEF mine
<1>6. ASSUME NEW r \in old
      PROVE  /\ r \in Request /\ r.kind = "list" /\ r.of = project
             /\ stale(r) \in Request /\ Sane(stale(r), t)
             /\ stale(r).no = r.no /\ stale(r).kind = "list" /\ stale(r).of = project
             /\ stale(r).clean = FALSE /\ stale(r).moves = FALSE
  <2>1. r \in Request /\ Sane(r, t) /\ r.kind = "list" /\ r.of = project
    BY DEF Sensible, Lists
  <2>2. /\ stale(r) \in Request
        /\ stale(r).no = r.no /\ stale(r).kind = "list" /\ stale(r).of = project
        /\ stale(r).clean = FALSE /\ stale(r).moves = FALSE
        /\ stale(r).dialog = r.dialog /\ stale(r).waits = r.waits
        /\ stale(r).answered = r.answered /\ stale(r).ok = r.ok
        /\ stale(r).list = r.list /\ stale(r).action = r.action
    BY <2>1 DEF Request
  <2> HIDE DEF stale
  <2>3. Sane(stale(r), t)
    BY <2>1, <2>2 DEF Sane, Command
  <2> QED BY <2>1, <2>2, <2>3
<1>7. ASSUME NEW r \in old
      PROVE  /\ again(r) \in Request /\ Sane(again(r), t)
             /\ again(r).no = r.no /\ again(r).kind = "list" /\ again(r).of = project
             /\ again(r).clean = r.clean /\ again(r).answered = r.answered
             /\ again(r).list = r.list
             /\ moves => again(r).moves /\ again(r).next = next
  <2>1. r \in Request /\ Sane(r, t) /\ r.kind = "list" /\ r.of = project
    BY DEF Sensible, Lists
  <2>2. /\ again(r) \in Request
        /\ again(r).no = r.no /\ again(r).kind = "list" /\ again(r).of = project
        /\ again(r).clean = r.clean /\ again(r).answered = r.answered
        /\ again(r).dialog = r.dialog /\ again(r).waits = r.waits
        /\ again(r).ok = r.ok /\ again(r).list = r.list /\ again(r).action = r.action
        /\ moves => again(r).moves /\ again(r).next = next
    BY <2>1 DEF Request
  <2> HIDE DEF again
  <2>3. Sane(again(r), t)
    BY <2>1, <2>2 DEF Sane, Command
  <2> QED BY <2>1, <2>2, <2>3
<1>8. P = (others \ old) \cup
            (IF old = {} THEN {mine}
             ELSE IF project \in fetched THEN {mine} \cup {stale(r) : r \in old}
             ELSE {again(r) : r \in old})
  BY DEF ListRefetched, mine
<1> HIDE DEF stale, again
<1>9. /\ others \subseteq Request /\ OwnNumbers(others) /\ \A r \in others : Sane(r, t)
      /\ old \subseteq others /\ \A r \in others : r.no # mine.no
  BY <1>1, <1>4 DEF Sensible, Lists, Unnumbered
<1>10. \A q \in P : \/ q \in others \ old
                    \/ q = mine /\ (old = {} \/ project \in fetched)
                    \/ \E r \in old : q = stale(r) /\ project \in fetched
                    \/ \E r \in old : q = again(r) /\ project \notin fetched
  BY <1>8
<1>a. \A r \in old : /\ stale(r).no = r.no /\ ~stale(r).moves /\ ~stale(r).clean
                     /\ stale(r).kind = "list" /\ stale(r).of = project
  BY <1>6
<1>b. \A r \in old : /\ again(r).no = r.no /\ (moves => again(r).next = next)
                     /\ again(r).kind = "list" /\ again(r).of = project
  BY <1>7
<1>c. \A r \in old : /\ again(r).clean = r.clean /\ again(r).answered = r.answered
                     /\ again(r).list = r.list /\ again(r).of = r.of /\ r.kind = "list"
  BY <1>6, <1>7
<1>11. P \subseteq Request /\ \A r \in P : Sane(r, t)
  BY <1>4, <1>5, <1>6, <1>7, <1>9, <1>10, ZenonT(30)
<1>12. OwnNumbers(P)
  <2> SUFFICES ASSUME NEW q \in P, NEW r \in P, q.no = r.no PROVE q = r
    BY DEF OwnNumbers
  <2>1. \A x, y \in others : x.no = y.no => x = y
    BY <1>9 DEF OwnNumbers
  <2>2. \A x \in old : x \in others /\ x.no # mine.no
    BY <1>9
  <2>3. \A x \in others \ old : x \in others /\ x.no # mine.no
    BY <1>9
  <2>4. CASE project \in fetched
    <3>1. \A x \in P : x \in others \ old \/ x = mine \/ \E y \in old : x = stale(y)
      BY <1>10, <2>4
    <3> QED BY <1>a, <2>1, <2>2, <2>3, <3>1
  <2>5. CASE project \notin fetched
    <3>1. \A x \in P : x \in others \ old \/ (x = mine /\ old = {}) \/ \E y \in old : x = again(y)
      BY <1>10, <2>5
    <3> QED BY <1>b, <2>1, <2>2, <2>3, <3>1
  <2> QED BY <2>4, <2>5
<1>13. Sensible(P, t)
  BY <1>11, <1>12 DEF Sensible
<1>14. mine.no \in Nat /\ \A q \in P : q.no = mine.no \/ \E r \in others : q.no = r.no
  <2>1. mine.no \in Nat
    BY <1>4 DEF Request
  <2> QED BY <1>a, <1>b, <1>9, <1>10, <2>1
<1>15. Refetched(P, others)
  <2>1. others \ old \subseteq P
    BY <1>8
  <2>2. \A q \in P : q \in others \ old \/ q \in Lists(P)
    BY <1>4, <1>a, <1>b, <1>10 DEF Lists
  <2> QED BY <2>1, <2>2 DEF Refetched
<1>16. Commands(P) = Commands(others)
  <2>1. \A q \in P : q.kind \in Command => q \in others
    BY <1>15 DEF Refetched, Lists, Command
  <2>2. \A q \in others : q.kind \in Command => q \in P
    BY <1>15 DEF Refetched, Lists, Command
  <2> QED BY <2>1, <2>2 DEF Commands
<1>17. ASSUME CleanLists(others) PROVE CleanLists(P)
  <2> SUFFICES ASSUME NEW q \in P, q.kind = "list", q.clean
               PROVE  Commands(others) = {} /\ (q.answered => q.list = stored[q.of])
    BY <1>16 DEF CleanLists
  <2>1. CASE q \in others \ old
    BY <1>17, <2>1 DEF CleanLists
  <2>2. CASE q = mine
    BY <1>4, <2>2 DEF Commands, Query, Command
  <2>3. ASSUME NEW r \in old, q = stale(r) PROVE FALSE
    BY <1>6, <2>3
  <2>4. ASSUME NEW r \in old, q = again(r)
        PROVE  Commands(others) = {} /\ (q.answered => q.list = stored[q.of])
    <3>1. r \in others /\ r.clean /\ r.kind = "list"
      BY <1>c, <1>9, <2>4
    <3> QED BY <1>c, <1>17, <2>4, <3>1 DEF CleanLists
  <2> QED BY <1>10, <2>1, <2>2, <2>3, <2>4
<1>18. ASSUME FirstListIsShared(others)
       PROVE  /\ FirstListIsShared(P)
              /\ MovesTo(P, next, moves)
  <2>1. FirstListIsShared(P)
    <3> SUFFICES ASSUME NEW q \in P, NEW r \in P, q.kind = "list", r.kind = "list",
                        q.of = r.of, q.of \notin fetched
                 PROVE  q = r
      BY DEF FirstListIsShared
    <3>1. CASE q.of # project
      <4>1. q \in others /\ r \in others
        BY <3>1, <1>15 DEF Refetched, Lists
      <4> QED BY <4>1, <1>18 DEF FirstListIsShared
    <3>2. CASE q.of = project
      <4>1. q \notin others \ old /\ r \notin others \ old
        BY <3>2 DEF Lists
      <4>2. \A x, y \in old : x = y
        BY <3>2, <1>18 DEF FirstListIsShared, Lists
      <4> QED BY <3>2, <4>1, <4>2, <1>10
    <3> QED BY <3>1, <3>2
  <2>2. ASSUME moves PROVE \A q \in Moving(P) : q.next = next
    <3> SUFFICES ASSUME NEW q \in P, q.kind = "list", q.of = project, q.moves PROVE q.next = next
      BY DEF Moving, Lists
    <3>1. q \notin others \ old
      BY DEF Lists
    <3> QED BY <1>4, <1>a, <1>b, <1>10, <2>2, <3>1, ZenonT(30)
  <2>3. ASSUME moves PROVE Moving(P) # {}
    <3>1. CASE old = {} \/ project \in fetched
      <4>1. mine \in P
        BY <3>1, <1>8
      <4> QED BY <4>1, <1>4, <2>3 DEF Moving, Lists
    <3>2. CASE old # {} /\ project \notin fetched
      <4>1. PICK r \in old : again(r) \in P
        BY <3>2, <1>8
      <4> QED BY <4>1, <1>7, <2>3 DEF Moving, Lists
    <3> QED BY <3>1, <3>2
  <2> QED BY <2>1, <2>2, <2>3 DEF MovesTo
<1> QED BY <1>13, <1>14, <1>15, <1>17, <1>18

Waiting(requests) == {q \in requests : "deleteGroup" \in q.waits}

GroupsAreShared(requests) ==
  \A q, r \in requests : q.kind = "groups" /\ r.kind = "groups" /\ q.of = r.of => q = r

LEMMA SensibleSubset ==
  ASSUME NEW P, NEW Q, Q \subseteq P, NEW t, Sensible(P, t)
  PROVE  Sensible(Q, t)
BY DEF Sensible, OwnNumbers

\* Groups that are fetched again after a change of a group.
LEMMA GroupsRefetchedIs ==
  ASSUME NEW t \in Nat, Sensible(pending, t), NEW r \in pending, project \in Project,
         r.kind \in {"deleteGroup", "saveGroup", "toggleGroup"},
         GroupsAreShared(pending), FirstListIsShared(pending), CleanLists(pending),
         NEW P, P = GroupsRefetched(r)
  PROVE  /\ Sensible(P, t)
         /\ Commands(P) = Commands(pending) \ {r}
         /\ CleanLists(P) /\ FirstListIsShared(P) /\ GroupsAreShared(P)
         /\ project \in loaded /\ r.dialog = "deleteGroup" /\ Waiting(pending) = {} =>
              /\ Waiting(P) # {}
              /\ \A q \in Waiting(P) : q.of = project /\ q.moves = r.moves /\ q.next = r.next
         /\ /\ project \in loaded /\ r.dialog # "deleteGroup"
            /\ \A q \in Waiting(pending) : q.of = project
            => /\ Waiting(P) = {}
               /\ Waiting(pending) = {} => Lists(P) = Lists(pending)
               /\ \A g \in Waiting(pending) :
                    g.moves => Moving(P) # {} /\ \A q \in Moving(P) : q.next = g.next
<1> DEFINE shared == Groups(pending) \ Cancelled
           others == pending \ (shared \cup Cancelled \cup {r})
           mayMove == {g \in Cancelled : "deleteGroup" \in g.waits}
           g0 == CHOOSE g \in mayMove : TRUE
           fetching == IF mayMove = {} THEN others ELSE AfterGroups(g0, others)
           b == Blank("groups", fetching \cup shared)
           mine == [b EXCEPT !.waits = {r.dialog} \cap Dialog, !.next = r.next, !.moves = r.moves]
           merged(g) == [g EXCEPT !.waits = @ \cup mine.waits,
                         !.next = IF r.dialog = "deleteGroup" THEN r.next ELSE @,
                         !.moves = IF r.dialog = "deleteGroup" THEN r.moves ELSE @]
<1>1. P = fetching \cup (IF shared = {} THEN {mine} ELSE {merged(g) : g \in shared})
  BY DEF GroupsRefetched
<1> HIDE DEF mine
<1>2. /\ pending \subseteq Request /\ r \in Request /\ Sane(r, t)
      /\ \A q \in pending : Sane(q, t)
      /\ \A x, y \in pending : x.no = y.no => x = y
  BY DEF Sensible, OwnNumbers
<1>3. /\ Groups(pending) \subseteq pending /\ r \notin Groups(pending)
      /\ \A x \in Groups(pending) : x.kind = "groups" /\ x.of = project
      /\ Cancelled \cup shared = Groups(pending)
      /\ project \in loaded => shared = {} /\ Cancelled = Groups(pending)
      /\ project \notin loaded => Cancelled = {}
      /\ \A x, y \in Groups(pending) : x = y
  BY DEF Groups, Cancelled, GroupsAreShared
<1>4. others = pending \ (Groups(pending) \cup {r}) /\ others \subseteq pending
  BY <1>3
<1> HIDE DEF others, shared
<1>5. Sensible(others, t) /\ Unnumbered(r.no, others)
  <2>1. Sensible(others, t)
    BY <1>4, SensibleSubset
  <2>2. r.no \in 1 .. MaxPending
    BY <1>2 DEF Request
  <2> QED BY <2>1, <2>2, <1>2, <1>4 DEF Unnumbered
<1>6. Commands(others) = Commands(pending) \ {r} /\ Lists(others) = Lists(pending)
  BY <1>3, <1>4 DEF Commands, Lists, Groups, Command
<1>7. CleanLists(others) /\ FirstListIsShared(others) /\ GroupsAreShared(others)
      /\ \A q \in others : ~(q.kind = "groups" /\ q.of = project)
  <2>1. r \in Commands(pending)
    BY DEF Commands, Command
  <2>2. CleanLists(others)
    BY <2>1, <1>4 DEF CleanLists
  <2>3. FirstListIsShared(others) /\ GroupsAreShared(others)
    BY <1>4 DEF FirstListIsShared, GroupsAreShared
  <2>4. \A q \in others : ~(q.kind = "groups" /\ q.of = project)
    BY <1>4 DEF Groups
  <2> QED BY <2>2, <2>3, <2>4
<1>8. mayMove # {} => g0 \in mayMove /\ g0 \in pending /\ g0 \in Groups(pending) /\ shared = {}
                      /\ "deleteGroup" \in g0.waits
  <2> SUFFICES ASSUME mayMove # {}
               PROVE  g0 \in mayMove /\ g0 \in pending /\ g0 \in Groups(pending) /\ shared = {}
                      /\ "deleteGroup" \in g0.waits
    OBVIOUS
  <2>1. g0 \in mayMove
    OBVIOUS
  <2> HIDE DEF g0
  <2> QED BY <2>1, <1>3
<1>9. /\ Sensible(fetching, t)
      /\ \E k \in Nat : \A q \in fetching : q.no = k \/ \E x \in others : q.no = x.no
      /\ Refetched(fetching, others)
      /\ CleanLists(fetching) /\ FirstListIsShared(fetching)
      /\ mayMove # {} => MovesTo(fetching, g0.next, g0.moves)
      /\ mayMove = {} => fetching = others
  <2>1. CASE mayMove = {}
    <3>1. fetching = others
      BY <2>1
    <3>2. \E k \in Nat : \A q \in others : q.no = k \/ \E x \in others : q.no = x.no
      OBVIOUS
    <3>3. Refetched(others, others)
      BY DEF Refetched
    <3> HIDE DEF fetching
    <3> QED BY <1>5, <1>7, <2>1, <3>1, <3>2, <3>3
  <2>2. CASE mayMove # {}
    <3>1. fetching = ListRefetched(others, g0.next, g0.moves)
      BY <1>8, <2>2 DEF AfterGroups
    <3>2. g0.next \in 0 .. MaxId /\ g0.moves \in BOOLEAN
      BY <1>2, <1>8, <2>2 DEF Request
    <3> HIDE DEF fetching, g0
    <3>3. /\ Sensible(fetching, t)
          /\ \E k \in Nat : \A q \in fetching : q.no = k \/ \E x \in others : q.no = x.no
          /\ Refetched(fetching, others)
          /\ CleanLists(others) => CleanLists(fetching)
          /\ FirstListIsShared(others) =>
              /\ FirstListIsShared(fetching)
              /\ MovesTo(fetching, g0.next, g0.moves)
      BY <1>5, <3>1, <3>2, ListRefetchedIs
    <3> QED BY <1>7, <2>2, <3>3
  <2> QED BY <2>1, <2>2
<1>10. \E n : Unnumbered(n, fetching \cup shared)
  <2>1. CASE mayMove = {}
    <3>1. \A q \in shared : q.no # r.no
      BY <1>2, <1>3
    <3> QED BY <1>5, <1>9, <2>1, <3>1 DEF Unnumbered
  <2>2. CASE mayMove # {}
    <3> HIDE DEF g0, fetching
    <3>1. /\ r.no # g0.no /\ g0.no \in 1 .. MaxPending /\ r.no \in 1 .. MaxPending
          /\ \A q \in others : q.no # r.no /\ q.no # g0.no
      BY <1>2, <1>3, <1>4, <1>8, <2>2 DEF Request
    <3>2. PICK k \in Nat : \A q \in fetching : q.no = k \/ \E x \in others : q.no = x.no
      BY <1>9
    <3>3. Unnumbered(r.no, fetching) \/ Unnumbered(g0.no, fetching)
      BY <3>1, <3>2 DEF Unnumbered
    <3> QED BY <3>3, <1>8, <2>2
  <2> QED BY <2>1, <2>2
<1> HIDE DEF fetching, mayMove, g0
<1>11. /\ b \in Request /\ Unnumbered(b.no, fetching \cup shared)
       /\ b.kind = "groups" /\ b.of = project /\ b.dialog = "page" /\ b.waits = {}
       /\ b.answered = FALSE /\ b.list = {} /\ b.clean = FALSE
  <2>1. b \in Request /\ Unnumbered(b.no, fetching \cup shared)
    BY <1>10, BlankIsNew DEF Query
  <2> QED BY <2>1 DEF Blank
<1> HIDE DEF b
<1>12. r.dialog \in Dialog \cup {"page"} /\ r.next \in 0 .. MaxId /\ r.moves \in BOOLEAN
  BY <1>2 DEF Request
<1>13. /\ mine \in Request /\ mine.no = b.no /\ mine.kind = "groups" /\ mine.of = project
       /\ mine.dialog = "page" /\ mine.answered = FALSE /\ mine.list = {}
       /\ mine.waits = {r.dialog} \cap Dialog /\ mine.next = r.next /\ mine.moves = r.moves
  BY <1>11, <1>12 DEF Request, mine
<1>14. Sane(mine, t)
  BY <1>13 DEF Sane, DialogOf, Query, Command, Unique
<1>15. ASSUME NEW g \in shared
       PROVE  /\ merged(g) \in Request /\ Sane(merged(g), t) /\ merged(g).no = g.no
              /\ merged(g).kind = "groups" /\ merged(g).of = project
  <2>1. g \in Request /\ Sane(g, t) /\ g.kind = "groups" /\ g.of = project
    BY <1>2, <1>3
  <2>2. mine.waits \subseteq Dialog /\ r.next \in 0 .. MaxId /\ r.moves \in BOOLEAN
    BY <1>12, <1>13
  <2>3. /\ merged(g) \in Request /\ merged(g).no = g.no /\ merged(g).kind = "groups"
        /\ merged(g).of = project /\ merged(g).dialog = g.dialog
        /\ merged(g).answered = g.answered /\ merged(g).ok = g.ok
        /\ merged(g).list = g.list /\ merged(g).action = g.action
    BY <2>1, <2>2 DEF Request
  <2> HIDE DEF merged
  <2>4. Sane(merged(g), t)
    BY <2>1, <2>3 DEF Sane, Command
  <2> QED BY <2>3, <2>4
<1> HIDE DEF merged
<1>16. \A g \in shared : merged(g).no = g.no /\ merged(g).kind = "groups" /\ merged(g).of = project
  BY <1>15
<1>17. /\ \A q \in P : \/ q \in fetching
                       \/ q = mine /\ shared = {}
                       \/ \E g \in shared : q = merged(g)
       /\ fetching \subseteq P
  BY <1>1
<1>18. /\ \A q \in fetching : q.no # mine.no /\ \A g \in shared : q.no # g.no
       /\ fetching \subseteq Request /\ \A q \in fetching : Sane(q, t)
       /\ \A x, y \in fetching : x.no = y.no => x = y
  <2>1. \A q \in fetching : q.no # mine.no
    BY <1>11, <1>13 DEF Unnumbered
  <2>2. CASE shared = {}
    BY <2>1, <2>2, <1>9 DEF Sensible, OwnNumbers
  <2>3. CASE shared # {}
    <3>1. fetching = others
      BY <2>3, <1>8, <1>9
    <3>2. \A q \in fetching, g \in shared : q.no # g.no
      BY <3>1, <1>2, <1>3, <1>4
    <3> QED BY <2>1, <3>2, <1>9 DEF Sensible, OwnNumbers
  <2> QED BY <2>2, <2>3
<1>19. Sensible(P, t)
  <2>1. P \subseteq Request /\ \A q \in P : Sane(q, t)
    BY <1>13, <1>14, <1>15, <1>17, <1>18
  <2>2. OwnNumbers(P)
    <3>1. \A x, y \in shared : x = y
      BY <1>3
    <3> SUFFICES ASSUME NEW x \in P, NEW y \in P, x.no = y.no PROVE x = y
      BY DEF OwnNumbers
    <3> QED BY <1>16, <1>17, <1>18, <3>1
  <2> QED BY <2>1, <2>2 DEF Sensible
<1>20. /\ \A q \in P : q.kind # "groups" => q \in fetching
       /\ Commands(P) = Commands(fetching) /\ Lists(P) = Lists(fetching)
  <2>1. \A q \in P : q.kind # "groups" => q \in fetching
    BY <1>13, <1>16, <1>17
  <2> QED BY <2>1, <1>17 DEF Commands, Lists, Command
<1>21. Commands(fetching) = Commands(others)
  BY <1>9 DEF Commands, Refetched, Lists, Command
<1>22. Commands(P) = Commands(pending) \ {r}
  BY <1>6, <1>20, <1>21
<1>23. CleanLists(P) /\ FirstListIsShared(P)
  BY <1>9, <1>20 DEF CleanLists, FirstListIsShared
<1>24. \A q \in fetching : q.kind = "groups" => q \in others /\ q.of # project
  BY <1>7, <1>9 DEF Refetched, Lists
<1>25. GroupsAreShared(P)
  <2> SUFFICES ASSUME NEW x \in P, NEW y \in P, x.kind = "groups", y.kind = "groups", x.of = y.of
               PROVE  x = y
    BY DEF GroupsAreShared
  <2>1. CASE x.of = project
    <3>1. x \notin fetching /\ y \notin fetching
      BY <2>1, <1>24
    <3>2. \A g, h \in shared : g = h
      BY <1>3
    <3> QED BY <1>17, <3>1, <3>2
  <2>2. CASE x.of # project
    <3>1. x \in others /\ y \in others
      BY <2>2, <1>13, <1>16, <1>17, <1>24
    <3> QED BY <3>1, <1>7 DEF GroupsAreShared
  <2> QED BY <2>1, <2>2
<1>26. \A q \in P : q.waits # {} => q.kind = "groups"
  BY <1>19 DEF Sensible, Sane
<1>27. \A q \in Waiting(P) : q = mine \/ q \in Waiting(others) \/ project \notin loaded
  <2> SUFFICES ASSUME NEW q \in P, "deleteGroup" \in q.waits, project \in loaded
               PROVE  q = mine \/ q \in others
    BY DEF Waiting
  <2>1. shared = {} /\ q.kind = "groups"
    BY <1>3, <1>26
  <2> QED BY <2>1, <1>17, <1>24
<1>28. Waiting(others) \subseteq Waiting(pending) /\ \A q \in Waiting(others) : q.of # project
  <2>1. \A q \in others : "deleteGroup" \in q.waits => q.kind = "groups"
    BY <1>2, <1>4 DEF Sane
  <2> QED BY <2>1, <1>4, <1>7 DEF Waiting
<1>29. ASSUME project \in loaded, r.dialog = "deleteGroup", Waiting(pending) = {}
       PROVE  /\ Waiting(P) # {}
              /\ \A q \in Waiting(P) : q.of = project /\ q.moves = r.moves /\ q.next = r.next
  <2>1. mine \in P /\ "deleteGroup" \in mine.waits
    BY <1>1, <1>3, <1>13, <1>29 DEF Dialog
  <2>2. \A q \in Waiting(P) : q = mine
    BY <1>27, <1>28, <1>29
  <2> QED BY <2>1, <2>2, <1>13 DEF Waiting
<1>30. ASSUME project \in loaded, r.dialog # "deleteGroup",
              \A q \in Waiting(pending) : q.of = project
       PROVE  /\ Waiting(P) = {}
              /\ Waiting(pending) = {} => Lists(P) = Lists(pending)
              /\ \A g \in Waiting(pending) :
                   g.moves => Moving(P) # {} /\ \A q \in Moving(P) : q.next = g.next
  <2>1. "deleteGroup" \notin mine.waits
    BY <1>13, <1>30
  <2>2. Waiting(P) = {}
    BY <1>27, <1>28, <1>30, <2>1 DEF Waiting
  <2>3. mayMove = Waiting(pending)
    <3>1. \A q \in pending : "deleteGroup" \in q.waits => q.kind = "groups"
      BY <1>2 DEF Sane
    <3> QED BY <3>1, <1>3, <1>30 DEF mayMove, Waiting, Groups
  <2>4. Waiting(pending) = {} => Lists(P) = Lists(pending)
    BY <2>3, <1>6, <1>9, <1>20
  <2>5. ASSUME NEW g \in Waiting(pending), g.moves
        PROVE  Moving(P) # {} /\ \A q \in Moving(P) : q.next = g.next
    <3>1. g0 = g
      BY <2>3, <1>3, <1>8 DEF mayMove
    <3>2. Moving(P) = Moving(fetching)
      BY <1>20 DEF Moving
    <3> QED BY <2>3, <2>5, <3>1, <3>2, <1>9 DEF MovesTo
  <2> QED BY <2>2, <2>4, <2>5
<1> QED BY <1>19, <1>22, <1>23, <1>25, <1>29, <1>30

-----------------------------------------------------------------------------
(* Places in the list.                                                     *)

LEMMA AtIs ==
  ASSUME NEW l \in Seq(Expectation), NEW id \in Ids(l)
  PROVE  At(l, id) \in DOMAIN l /\ l[At(l, id)].id = id
BY DEF At, Ids

LEMMA SelectedIs ==
  ASSUME list \in Seq(Expectation), selected \in Ids(list)
  PROVE  /\ Selected \in Expectation /\ Selected.id = selected
         /\ \E i \in DOMAIN list : Selected = list[i]
<1> DEFINE S == {list[i] : i \in DOMAIN list}
<1>1. \E e \in S : e.id = selected
  BY DEF Ids
<1>2. Selected \in S /\ Selected.id = selected
  BY <1>1 DEF Selected
<1>3. PICK i \in DOMAIN list : Selected = list[i]
  BY <1>2
<1>4. list[i] \in Expectation
  OBVIOUS
<1> QED BY <1>2, <1>3, <1>4

LEMMA IdsAreIds ==
  ASSUME NEW l \in Seq(Expectation)
  PROVE  /\ Ids(l) \subseteq 1 .. MaxId
         /\ \A i \in DOMAIN l : l[i] \in Expectation /\ l[i].id \in Ids(l)
<1>1. \A i \in DOMAIN l : l[i] \in Expectation
  OBVIOUS
<1>2. \A i \in DOMAIN l : l[i].id \in 1 .. MaxId
  BY <1>1 DEF Expectation
<1> QED BY <1>1, <1>2 DEF Ids

\* The effect keeps a selection that is in the list.
LEMMA CorrectedIs ==
  ASSUME NEW l \in Seq(Expectation), NEW id, NEW ready
  PROVE  /\ Corrected(l, id, ready) \in 0 .. MaxId
         /\ ready /\ id \in Ids(l) => Corrected(l, id, ready) = id
<1>1. l # <<>> => 1 \in DOMAIN l
  OBVIOUS
<1>2. Ids(l) \subseteq 1 .. MaxId /\ \A i \in DOMAIN l : l[i].id \in 1 .. MaxId
  BY IdsAreIds
<1>3. Corrected(l, id, ready) \in 0 .. MaxId
  <2>1. CASE l = <<>> \/ ~ready
    BY <2>1, ExpectationPageAssumption DEF Corrected, None
  <2>2. CASE l # <<>> /\ ready
    <3>1. l[1].id \in 1 .. MaxId
      BY <1>1, <1>2, <2>2
    <3> QED BY <2>2, <3>1, <1>2 DEF Corrected
  <2> QED BY <2>1, <2>2
<1>4. ready /\ id \in Ids(l) => l # <<>>
  BY DEF Ids
<1> QED BY <1>3, <1>4 DEF Corrected

LEMMA NeighbourOfIs ==
  ASSUME list \in Seq(Expectation), NEW id
  PROVE  NeighbourOf(id) \in 0 .. MaxId
<1> DEFINE rest == Without(list, {id})
           place == IF id \in Ids(list) THEN At(list, id) ELSE 1
           n == IF place <= Len(rest) THEN place ELSE Len(rest)
<1>1. rest \in Seq(Expectation)
  BY WithoutKeeps DEF Keeps
<1>2. place \in Nat \ {0}
  BY AtIs
<1>3. NeighbourOf(id) = IF rest = <<>> THEN None ELSE rest[n].id
  BY DEF NeighbourOf
<1> HIDE DEF rest, place
<1>4. rest # <<>> => n \in DOMAIN rest
  BY <1>1, <1>2
<1> HIDE DEF n
<1>5. rest # <<>> => rest[n].id \in 1 .. MaxId
  BY <1>1, <1>4, IdsAreIds
<1> QED BY <1>3, <1>5, ExpectationPageAssumption DEF None

LEMMA NeighbourIs ==
  ASSUME list \in Seq(Expectation), selected \in Ids(list), NEW ids
  PROVE  Neighbour(ids) \in 0 .. MaxId
<1> DEFINE rest == Without(list, ids)
           S == {i \in 1 .. At(list, selected) - 1 : list[i].id \notin ids}
           before == Cardinality(S)
           n == IF before + 1 <= Len(rest) THEN before + 1 ELSE Len(rest)
<1>1. rest \in Seq(Expectation)
  BY WithoutKeeps DEF Keeps
<1>2. before \in Nat
  <2>1. At(list, selected) \in Nat
    BY AtIs
  <2>2. S \subseteq Nat /\ \A k \in S : k <= At(list, selected)
    BY <2>1
  <2> HIDE DEF S
  <2>3. IsFiniteSet(S)
    BY <2>1, <2>2, FS_BoundedSetOfNaturals
  <2> QED BY <2>3, FS_CardinalityType
<1>3. Neighbour(ids) = IF rest = <<>> THEN None ELSE rest[n].id
  BY DEF Neighbour
<1> HIDE DEF rest, before
<1>4. rest # <<>> => n \in DOMAIN rest
  BY <1>1, <1>2
<1> HIDE DEF n
<1>5. rest # <<>> => rest[n].id \in 1 .. MaxId
  BY <1>1, <1>4, IdsAreIds
<1> QED BY <1>3, <1>5, ExpectationPageAssumption DEF None

-----------------------------------------------------------------------------
(* What holds of every request and document, however quiet the page is.    *)

RequestsOk ==
  /\ Sensible(pending, lastText)
  /\ GroupsAreShared(pending) /\ FirstListIsShared(pending) /\ CleanLists(pending)

DocumentsOk ==
  /\ \A p \in Project : Unique(stored[p]) /\ \A e \in stored[p] : e.id <= lastId /\ Sound(e, lastText)
  /\ \A i \in DOMAIN list : Sound(list[i], lastText)
  /\ target["action"] <= lastText /\ ("action" \in open => target["action"] # None)

Base == TypeOk /\ RequestsOk /\ DocumentsOk

-----------------------------------------------------------------------------
(* The commands of the page.                                               *)

IsBlank(b, kind) ==
  /\ b \in Request /\ Unnumbered(b.no, pending)
  /\ b.kind = kind /\ b.of = project /\ b.dialog = "page" /\ b.id = None /\ b.index = 0
  /\ b.group = None /\ b.text = 0 /\ b.action = None /\ b.members = {} /\ b.waits = {}
  /\ b.answered = FALSE /\ b.clean = FALSE /\ b.list = {}

LEMMA BlankIs ==
  ASSUME NEW kind \in Query \cup Command, Unused # {}, project \in Project
  PROVE  IsBlank(Blank(kind, pending), kind)
<1> DEFINE b == Blank(kind, pending)
<1>1. \E n : Unnumbered(n, pending)
  BY DEF Unused, Unnumbered
<1>2. b \in Request /\ Unnumbered(b.no, pending)
  BY <1>1, BlankIsNew
<1>3. /\ b.kind = kind /\ b.of = project /\ b.dialog = "page" /\ b.id = None /\ b.index = 0
      /\ b.group = None /\ b.text = 0 /\ b.action = None /\ b.members = {} /\ b.waits = {}
      /\ b.answered = FALSE /\ b.clean = FALSE /\ b.list = {}
  BY DEF Blank
<1> QED BY <1>2, <1>3 DEF IsBlank

\* A command the page sends.
NewCommand(r, kind) ==
  /\ r \in Request /\ Unnumbered(r.no, pending)
  /\ r.kind = kind /\ r.of = project /\ r.dialog \in DialogOf(kind) /\ r.waits = {}
  /\ r.answered = FALSE /\ r.clean = FALSE /\ r.list = {}
  /\ kind \in {"addAction", "saveAction", "deleteAction"} => r.action # None
  /\ Send(r)

Submitted(d) ==
  /\ d \in open \ saving /\ saving' = saving \cup {d}
  /\ UNCHANGED <<host, project, listVars, cacheVars, open, target, made, lost>>

LEMMA CreateSent ==
  ASSUME Base, HandleCreate
  PROVE  \E r : NewCommand(r, "create") /\ r.dialog \in {"add", "clone"} /\ Submitted(r.dialog)
<1>1. PICK d \in {"add", "clone"}, g \in {None} \cup {g.id : g \in cached[project]} :
        Submit(d, [Blank("create", pending) EXCEPT !.group = g, !.text = New, !.action = New])
  BY DEF HandleCreate
<1> DEFINE b == Blank("create", pending)
           r == [[b EXCEPT !.group = g, !.text = New, !.action = New] EXCEPT !.dialog = d]
<1>2. Send(r) /\ Unused # {} /\ {r.text, r.action} \subseteq 0 .. MaxText
  BY <1>1 DEF Submit, Send
<1>3. IsBlank(b, "create")
  BY <1>2, BlankIs DEF Command, Base, TypeOk
<1> HIDE DEF b
<1>4. g \in 0 .. MaxId
  <2>1. cached[project] \subseteq Group
    BY DEF Base, TypeOk
  <2> QED BY <2>1, ExpectationPageAssumption DEF Group, None
<1>5. r.text = New /\ r.action = New
  BY <1>3 DEF IsBlank, Request
<1>6. /\ r \in Request /\ r.no = b.no /\ r.kind = "create" /\ r.of = project /\ r.dialog = d
      /\ r.waits = {} /\ r.answered = FALSE /\ r.clean = FALSE /\ r.list = {}
  BY <1>2, <1>3, <1>4, <1>5 DEF IsBlank, Request, Dialog
<1> HIDE DEF r
<1>7. NewCommand(r, "create")
  BY <1>2, <1>3, <1>6 DEF NewCommand, IsBlank, DialogOf
<1>8. Submitted(r.dialog)
  BY <1>1, <1>6 DEF Submit, Submitted
<1> QED BY <1>6, <1>7, <1>8

LEMMA DeleteSent ==
  ASSUME Base, HandleDeleteExpectation
  PROVE  \E r : NewCommand(r, "delete") /\ Submitted("delete")
<1> DEFINE b == Blank("delete", pending)
           r == [[b EXCEPT !.id = target["delete"], !.next = NeighbourOf(target["delete"]),
                           !.moves = TRUE] EXCEPT !.dialog = "delete"]
<1>2. Send(r) /\ Unused # {} /\ Submitted("delete")
  BY DEF HandleDeleteExpectation, Submit, Send, Submitted
<1>3. IsBlank(b, "delete")
  BY <1>2, BlankIs DEF Command, Base, TypeOk
<1> HIDE DEF b
<1>4. target["delete"] \in 0 .. MaxId /\ NeighbourOf(target["delete"]) \in 0 .. MaxId
  <2>1. target["delete"] \in 0 .. MaxId
    BY ExpectationPageAssumption DEF Base, TypeOk, Dialog
  <2> QED BY <2>1, NeighbourOfIs DEF Base, TypeOk
<1>6. /\ r \in Request /\ r.no = b.no /\ r.kind = "delete" /\ r.of = project
      /\ r.dialog = "delete" /\ r.waits = {} /\ r.answered = FALSE /\ r.clean = FALSE
      /\ r.list = {}
  BY <1>3, <1>4 DEF IsBlank, Request, Dialog
<1> HIDE DEF r
<1>7. NewCommand(r, "delete")
  BY <1>2, <1>3, <1>6 DEF NewCommand, IsBlank, DialogOf
<1> QED BY <1>2, <1>7

LEMMA DeleteGroupSent ==
  ASSUME Base, HandleDeleteGroup
  PROVE  \E r : /\ NewCommand(r, "deleteGroup") /\ Submitted("deleteGroup")
                /\ r.members = {list[i].id : i \in {j \in DOMAIN list : list[j].group = r.id}}
<1> DEFINE b == Blank("deleteGroup", pending)
           group == target["deleteGroup"]
           members == {list[i].id : i \in {j \in DOMAIN list : list[j].group = group}}
           moves == selected \in members
           next == IF moves THEN Neighbour(members) ELSE None
           r == [[b EXCEPT !.id = group, !.members = members, !.moves = moves,
                           !.next = next] EXCEPT !.dialog = "deleteGroup"]
<1>2. Send(r) /\ Unused # {} /\ Submitted("deleteGroup")
  BY DEF HandleDeleteGroup, Submit, Send, Submitted
<1>3. IsBlank(b, "deleteGroup")
  BY <1>2, BlankIs DEF Command, Base, TypeOk
<1> HIDE DEF b
<1>4. /\ group \in 0 .. MaxId /\ members \subseteq 1 .. MaxId /\ next \in 0 .. MaxId
      /\ moves \in BOOLEAN
  <2>1. group \in 0 .. MaxId
    BY ExpectationPageAssumption DEF Base, TypeOk, Dialog
  <2>2. list \in Seq(Expectation)
    BY DEF Base, TypeOk
  <2>3. members \subseteq Ids(list)
    BY DEF Ids
  <2>4. members \subseteq 1 .. MaxId
    BY <2>2, <2>3, IdsAreIds
  <2> HIDE DEF members
  <2>5. selected \in members => Neighbour(members) \in 0 .. MaxId
    BY <2>2, <2>3, NeighbourIs
  <2> QED BY <2>1, <2>4, <2>5, ExpectationPageAssumption DEF None
<1> HIDE DEF next, moves, group
<1>6. /\ r \in Request /\ r.no = b.no /\ r.kind = "deleteGroup" /\ r.of = project
      /\ r.dialog = "deleteGroup" /\ r.waits = {} /\ r.answered = FALSE /\ r.clean = FALSE
      /\ r.list = {} /\ r.members = members /\ r.id = group
  <2> HIDE DEF members
  <2> QED BY <1>3, <1>4 DEF IsBlank, Request, Dialog
<1> HIDE DEF r
<1>7. NewCommand(r, "deleteGroup")
  BY <1>2, <1>3, <1>6 DEF NewCommand, IsBlank, DialogOf
<1> QED BY <1>2, <1>6, <1>7

LEMMA SaveGroupSent ==
  ASSUME Base, HandleSubmitGroup
  PROVE  \E r : NewCommand(r, "saveGroup") /\ Submitted("group")
<1> DEFINE b == Blank("saveGroup", pending)
           r == [[b EXCEPT !.id = target["group"], !.text = New] EXCEPT !.dialog = "group"]
<1>2. Send(r) /\ Unused # {} /\ Submitted("group") /\ {r.text, r.action} \subseteq 0 .. MaxText
  BY DEF HandleSubmitGroup, Submit, Send, Submitted
<1>3. IsBlank(b, "saveGroup")
  BY <1>2, BlankIs DEF Command, Base, TypeOk
<1> HIDE DEF b
<1>4. target["group"] \in 0 .. MaxId
  BY ExpectationPageAssumption DEF Base, TypeOk, Dialog
<1>5. r.text = New
  BY <1>3 DEF IsBlank, Request
<1>6. /\ r \in Request /\ r.no = b.no /\ r.kind = "saveGroup" /\ r.of = project
      /\ r.dialog = "group" /\ r.waits = {} /\ r.answered = FALSE /\ r.clean = FALSE
      /\ r.list = {}
  BY <1>2, <1>3, <1>4, <1>5 DEF IsBlank, Request, Dialog
<1> HIDE DEF r
<1>7. NewCommand(r, "saveGroup")
  BY <1>2, <1>3, <1>6 DEF NewCommand, IsBlank, DialogOf
<1> QED BY <1>2, <1>7

LEMMA EditSent ==
  ASSUME Base, HandleSave
  PROVE  \E r : NewCommand(r, "edit") /\ r.dialog = "edit" /\ Submitted("edit")
<1> DEFINE b == Blank("edit", pending)
           r == [[b EXCEPT !.id = selected, !.text = New] EXCEPT !.dialog = "edit"]
<1>2. Send(r) /\ Unused # {} /\ Submitted("edit") /\ {r.text, r.action} \subseteq 0 .. MaxText
  BY DEF HandleSave, Submit, Send, Submitted
<1>3. IsBlank(b, "edit")
  BY <1>2, BlankIs DEF Command, Base, TypeOk
<1> HIDE DEF b
<1>4. selected \in 0 .. MaxId
  BY DEF Base, TypeOk
<1>5. r.text = New
  BY <1>3 DEF IsBlank, Request
<1>6. /\ r \in Request /\ r.no = b.no /\ r.kind = "edit" /\ r.of = project
      /\ r.dialog = "edit" /\ r.waits = {} /\ r.answered = FALSE /\ r.clean = FALSE
      /\ r.list = {}
  BY <1>2, <1>3, <1>4, <1>5 DEF IsBlank, Request, Dialog
<1> HIDE DEF r
<1>7. NewCommand(r, "edit")
  BY <1>2, <1>3, <1>6 DEF NewCommand, IsBlank, DialogOf
<1> QED BY <1>2, <1>6, <1>7

LEMMA SaveActionSent ==
  ASSUME Base, HandleSaveAction
  PROVE  \E r : /\ NewCommand(r, "saveAction") /\ r.dialog = "action" /\ Submitted("action")
                /\ r.action = target["action"]
<1> DEFINE b == Blank("saveAction", pending)
           r == [[OnSelected("saveAction") EXCEPT !.action = target["action"], !.text = New]
                   EXCEPT !.dialog = "action"]
<1>2. /\ Send(r) /\ Unused # {} /\ Submitted("action") /\ {r.text, r.action} \subseteq 0 .. MaxText
      /\ selected \in Ids(list)
  BY DEF HandleSaveAction, Submit, Send, Submitted
<1>3. IsBlank(b, "saveAction")
  BY <1>2, BlankIs DEF Command, Base, TypeOk
<1> HIDE DEF b
<1>4. selected \in 0 .. MaxId /\ At(list, selected) \in Nat /\ target["action"] # None
  <2>1. "action" \in open
    BY <1>2 DEF Submitted
  <2> QED BY <1>2, <2>1, AtIs DEF Base, TypeOk, DocumentsOk
<1>5. r = [[[b EXCEPT !.id = selected, !.index = At(list, selected)]
              EXCEPT !.action = target["action"], !.text = New] EXCEPT !.dialog = "action"]
  BY DEF OnSelected, b
<1> HIDE DEF r
<1>6. r.text = New /\ r.action = target["action"]
  BY <1>3, <1>5 DEF IsBlank, Request
<1>7. /\ r \in Request /\ r.no = b.no /\ r.kind = "saveAction" /\ r.of = project
      /\ r.dialog = "action" /\ r.waits = {} /\ r.answered = FALSE /\ r.clean = FALSE
      /\ r.list = {}
  BY <1>2, <1>3, <1>4, <1>5, <1>6 DEF IsBlank, Request, Dialog
<1>8. NewCommand(r, "saveAction")
  BY <1>2, <1>3, <1>4, <1>6, <1>7 DEF NewCommand, IsBlank, DialogOf
<1> QED BY <1>2, <1>6, <1>7, <1>8

\* A command from the page itself.
FromPage == UNCHANGED <<host, project, listVars, cacheVars, dialogVars>>

LEMMA DeleteActionSent ==
  ASSUME Base, HandleDeleteAction
  PROVE  \E r : /\ NewCommand(r, "deleteAction") /\ FromPage
                /\ \E i \in DOMAIN list : r.action = list[i].action.id
<1> DEFINE b == Blank("deleteAction", pending)
           r == [OnSelected("deleteAction") EXCEPT !.action = Selected.action.id]
<1>2. /\ Send(r) /\ Unused # {} /\ FromPage /\ {r.text, r.action} \subseteq 0 .. MaxText
      /\ selected \in Ids(list) /\ Selected.action # NoAction
  BY DEF HandleDeleteAction, Send, FromPage
<1>3. IsBlank(b, "deleteAction")
  BY <1>2, BlankIs DEF Command, Base, TypeOk
<1> HIDE DEF b
<1>4. selected \in 0 .. MaxId /\ At(list, selected) \in Nat
  BY <1>2, AtIs DEF Base, TypeOk
<1>a. PICK i \in DOMAIN list : Selected = list[i]
  BY <1>2, SelectedIs DEF Base, TypeOk
<1>b. Selected.action.id # None
  BY <1>2, <1>a DEF Base, DocumentsOk, Sound
<1>5. r = [[b EXCEPT !.id = selected, !.index = At(list, selected)]
              EXCEPT !.action = Selected.action.id]
  BY DEF OnSelected, b
<1> HIDE DEF r
<1>6. r.action = Selected.action.id
  BY <1>3, <1>5 DEF IsBlank, Request
<1>7. /\ r \in Request /\ r.no = b.no /\ r.kind = "deleteAction" /\ r.of = project
      /\ r.dialog = "page" /\ r.waits = {} /\ r.answered = FALSE /\ r.clean = FALSE
      /\ r.list = {}
  BY <1>2, <1>3, <1>4, <1>5, <1>6 DEF IsBlank, Request, Dialog
<1>8. NewCommand(r, "deleteAction")
  BY <1>2, <1>3, <1>b, <1>6, <1>7 DEF NewCommand, IsBlank, DialogOf
<1> QED BY <1>2, <1>a, <1>6, <1>8

LEMMA AddActionSent ==
  ASSUME Base, HandleAddAction
  PROVE  \E r : /\ NewCommand(r, "addAction") /\ FromPage
                /\ r.action = New /\ r.id = selected
                /\ selected \in Ids(list) /\ Selected.action = NoAction
<1> DEFINE b == Blank("addAction", pending)
           r == [OnSelected("addAction") EXCEPT !.action = New]
<1>2. /\ Send(r) /\ Unused # {} /\ FromPage /\ {r.text, r.action} \subseteq 0 .. MaxText
      /\ selected \in Ids(list) /\ Selected.action = NoAction
  BY DEF HandleAddAction, Send, FromPage
<1>3. IsBlank(b, "addAction")
  BY <1>2, BlankIs DEF Command, Base, TypeOk
<1> HIDE DEF b
<1>4. selected \in 0 .. MaxId /\ At(list, selected) \in Nat /\ New # None
  BY <1>2, AtIs DEF Base, TypeOk, New, None
<1>5. r = [[b EXCEPT !.id = selected, !.index = At(list, selected)] EXCEPT !.action = New]
  BY DEF OnSelected, b
<1> HIDE DEF r
<1>6. r.action = New /\ r.id = selected
  BY <1>3, <1>5 DEF IsBlank, Request
<1>7. /\ r \in Request /\ r.no = b.no /\ r.kind = "addAction" /\ r.of = project
      /\ r.dialog = "page" /\ r.waits = {} /\ r.answered = FALSE /\ r.clean = FALSE
      /\ r.list = {}
  BY <1>2, <1>3, <1>4, <1>5, <1>6 DEF IsBlank, Request, Dialog
<1>8. NewCommand(r, "addAction")
  BY <1>2, <1>3, <1>4, <1>6, <1>7 DEF NewCommand, IsBlank, DialogOf
<1> QED BY <1>2, <1>6, <1>8

LEMMA ToggleSent ==
  ASSUME Base, HandleToggleActive
  PROVE  \E r : /\ NewCommand(r, "toggle") /\ r.dialog = "page"
                /\ "switch" \notin saving /\ saving' = saving \cup {"switch"}
                /\ selected \in Ids(list) /\ r.id = selected /\ r.active = ~Selected.active
                /\ list' = Updated(list, r)
                /\ UNCHANGED <<host, project, selected, trusted, aim, cacheVars, open, target, made, lost>>
<1> DEFINE b == Blank("toggle", pending)
           active == ~Selected.active
           r == [b EXCEPT !.id = selected, !.active = active]
<1>2. /\ Send(r) /\ Unused # {} /\ selected \in Ids(list)
      /\ "switch" \notin saving /\ saving' = saving \cup {"switch"}
      /\ list' = Updated(list, r)
      /\ UNCHANGED <<host, project, selected, trusted, aim, cacheVars, open, target, made, lost>>
  BY DEF HandleToggleActive, Send
<1>3. IsBlank(b, "toggle")
  BY <1>2, BlankIs DEF Command, Base, TypeOk
<1> HIDE DEF b
<1>4. selected \in 0 .. MaxId /\ active \in BOOLEAN
  BY DEF Base, TypeOk
<1> HIDE DEF active
<1>6. /\ r \in Request /\ r.no = b.no /\ r.kind = "toggle" /\ r.of = project
      /\ r.dialog = "page" /\ r.waits = {} /\ r.answered = FALSE /\ r.clean = FALSE
      /\ r.list = {} /\ r.id = selected /\ r.active = active
  BY <1>3, <1>4 DEF IsBlank, Request, Dialog
<1> HIDE DEF r
<1>7. NewCommand(r, "toggle")
  BY <1>2, <1>3, <1>6 DEF NewCommand, IsBlank, DialogOf
<1> QED BY <1>2, <1>6, <1>7 DEF active

LEMMA ToggleGroupSent ==
  ASSUME Base, HandleToggleGroupActive
  PROVE  \E r : NewCommand(r, "toggleGroup") /\ FromPage
<1>1. PICK g \in cached[project] :
        Send([Blank("toggleGroup", pending) EXCEPT !.id = g.id, !.active = ~g.active])
  BY DEF HandleToggleGroupActive
<1> DEFINE b == Blank("toggleGroup", pending)
           active == ~g.active
           r == [b EXCEPT !.id = g.id, !.active = active]
<1>2. Send(r) /\ Unused # {} /\ FromPage
  BY <1>1 DEF HandleToggleGroupActive, Send, FromPage
<1>3. IsBlank(b, "toggleGroup")
  BY <1>2, BlankIs DEF Command, Base, TypeOk
<1> HIDE DEF b
<1>4. g.id \in 0 .. MaxId /\ active \in BOOLEAN
  BY DEF Base, TypeOk, Group
<1> HIDE DEF active
<1>6. /\ r \in Request /\ r.no = b.no /\ r.kind = "toggleGroup" /\ r.of = project
      /\ r.dialog = "page" /\ r.waits = {} /\ r.answered = FALSE /\ r.clean = FALSE
      /\ r.list = {}
  BY <1>3, <1>4 DEF IsBlank, Request, Dialog
<1> HIDE DEF r
<1>7. NewCommand(r, "toggleGroup")
  BY <1>2, <1>3, <1>6 DEF NewCommand, IsBlank, DialogOf
<1> QED BY <1>2, <1>7

\* The queries under way are the same, but for how quiet they are and for answers.
SameQuery(q, x) ==
  q.kind = x.kind /\ q.of = x.of /\ q.waits = x.waits /\ q.next = x.next /\ q.moves = x.moves

SameQueries(P, Q) ==
  /\ \A q \in P : q.kind \in Query => \E x \in Q : SameQuery(q, x)
  /\ \A x \in Q : x.kind \in Query => \E q \in P : SameQuery(q, x)

LEMMA MaxOfThree ==
  ASSUME NEW a \in Nat, NEW b \in Nat, NEW c \in Nat
  PROVE  Max({a, b, c}) \in {a, b, c} /\ \A x \in {a, b, c} : x <= Max({a, b, c})
<1>1. \E m \in {a, b, c} : \A x \in {a, b, c} : x <= m
  <2>1. CASE b <= a /\ c <= a
    BY <2>1
  <2>2. CASE a <= b /\ c <= b
    BY <2>2
  <2>3. CASE a <= c /\ b <= c
    BY <2>3
  <2> QED BY <2>1, <2>2, <2>3
<1> QED BY <1>1 DEF Max

LEMMA SaneLater ==
  ASSUME NEW r \in Request, NEW t \in Nat, NEW u \in Nat, t <= u, Sane(r, t)
  PROVE  Sane(r, u)
<1>1. \A e \in r.list : e.action.id \in Nat
  BY DEF Request, Expectation, Action
<1>2. r.action \in Nat
  BY DEF Request
<1> QED BY <1>1, <1>2 DEF Sane, Sound

LEMMA SendIs ==
  ASSUME Base, NEW kind \in Command, NEW r, NewCommand(r, kind)
  PROVE  /\ lastText' \in 0 .. MaxText /\ lastText <= lastText' /\ r.action <= lastText'
         /\ Sensible(pending', lastText') /\ GroupsAreShared(pending')
         /\ FirstListIsShared(pending') /\ CleanLists(pending')
         /\ Commands(pending') = Commands(pending) \cup {r}
         /\ SameQueries(pending', pending)
         /\ UNCHANGED <<stored, groups, lastId>>
<1> DEFINE spoilt(q) == [q EXCEPT !.clean = FALSE]
<1>1. /\ r \in Request /\ Unnumbered(r.no, pending)
      /\ r.kind = kind /\ r.of = project /\ r.dialog \in DialogOf(kind) /\ r.waits = {}
      /\ r.answered = FALSE /\ r.clean = FALSE /\ r.list = {}
      /\ kind \in {"addAction", "saveAction", "deleteAction"} => r.action # None
  BY DEF NewCommand
<1>2. /\ lastText' = Max({lastText, r.text, r.action})
      /\ pending' = {spoilt(q) : q \in pending} \cup {r}
      /\ UNCHANGED <<stored, groups, lastId>>
  BY DEF NewCommand, Send, Spoilt
<1>3. lastText' \in 0 .. MaxText /\ lastText <= lastText' /\ r.action <= lastText'
  <2>1. lastText \in 0 .. MaxText /\ r.text \in 0 .. MaxText /\ r.action \in 0 .. MaxText
    BY <1>1 DEF Base, TypeOk, Request
  <2>2. lastText' \in {lastText, r.text, r.action} /\ \A x \in {lastText, r.text, r.action} : x <= lastText'
    BY <2>1, <1>2, MaxOfThree
  <2> QED BY <2>1, <2>2
<1>4. /\ pending \subseteq Request /\ \A q \in pending : Sane(q, lastText)
      /\ \A x, y \in pending : x.no = y.no => x = y
      /\ lastText \in Nat /\ lastText' \in Nat
  BY <1>3 DEF Base, TypeOk, RequestsOk, Sensible, OwnNumbers
<1>5. ASSUME NEW q \in pending
      PROVE  /\ spoilt(q) \in Request /\ Sane(spoilt(q), lastText')
             /\ spoilt(q).no = q.no /\ spoilt(q).clean = FALSE /\ SameQuery(spoilt(q), q)
             /\ q.kind \in Command => spoilt(q) = q
  <2>1. q \in Request /\ Sane(q, lastText')
    BY <1>3, <1>4, SaneLater
  <2>2. /\ spoilt(q) \in Request /\ spoilt(q).no = q.no /\ spoilt(q).clean = FALSE
        /\ spoilt(q).kind = q.kind /\ spoilt(q).dialog = q.dialog /\ spoilt(q).waits = q.waits
        /\ spoilt(q).answered = q.answered /\ spoilt(q).ok = q.ok /\ spoilt(q).list = q.list
        /\ spoilt(q).action = q.action /\ SameQuery(spoilt(q), q)
    BY <2>1 DEF Request, SameQuery
  <2>3. q.kind \in Command => q.clean = FALSE
    BY <2>1 DEF Sane, Request
  <2>4. q.clean = FALSE => spoilt(q) = q
    BY <2>1 DEF Request
  <2> HIDE DEF spoilt
  <2>5. Sane(spoilt(q), lastText')
    BY <2>1, <2>2 DEF Sane
  <2> QED BY <2>2, <2>3, <2>4, <2>5
<1> HIDE DEF spoilt
<1>6. Sane(r, lastText')
  BY <1>1, <1>3 DEF Sane, Unique, Query, Command
<1>7. \A q \in pending : /\ spoilt(q).no = q.no /\ spoilt(q).clean = FALSE
                         /\ spoilt(q).kind = q.kind /\ spoilt(q).of = q.of
                         /\ spoilt(q).no # r.no
  BY <1>1, <1>5 DEF SameQuery, Unnumbered
<1>8. Sensible(pending', lastText')
  <2>1. pending' \subseteq Request /\ \A q \in pending' : Sane(q, lastText')
    BY <1>1, <1>2, <1>5, <1>6
  <2>2. OwnNumbers(pending')
    BY <1>2, <1>4, <1>7 DEF OwnNumbers
  <2> QED BY <2>1, <2>2 DEF Sensible
<1>9. GroupsAreShared(pending') /\ FirstListIsShared(pending')
  <2>1. GroupsAreShared(pending) /\ FirstListIsShared(pending)
    BY DEF Base, RequestsOk
  <2>2. r.kind \notin {"list", "groups"}
    BY <1>1 DEF Command
  <2>3. \A x \in pending' : x.kind \in {"list", "groups"} => \E q \in pending : x = spoilt(q)
    BY <1>2, <2>2
  <2> QED BY <1>7, <2>1, <2>3 DEF GroupsAreShared, FirstListIsShared
<1>10. CleanLists(pending')
  BY <1>1, <1>2, <1>7 DEF CleanLists
<1>11. Commands(pending') = Commands(pending) \cup {r}
  <2>1. \A q \in pending : q.kind \in Command => spoilt(q) = q
    BY <1>5
  <2> QED BY <1>1, <1>2, <1>7, <2>1 DEF Commands
<1>12. SameQueries(pending', pending)
  <2>1. \A q \in pending : SameQuery(spoilt(q), q) /\ spoilt(q) \in pending'
    BY <1>2, <1>5
  <2>2. r.kind \notin Query
    BY <1>1 DEF Command, Query
  <2>3. \A x \in pending' : x = r \/ \E q \in pending : x = spoilt(q)
    BY <1>2
  <2> QED BY <2>1, <2>2, <2>3 DEF SameQueries
<1> QED BY <1>2, <1>3, <1>8, <1>9, <1>10, <1>11, <1>12

-----------------------------------------------------------------------------
(* The server.                                                             *)

Update == {"edit", "toggle", "addAction", "saveAction", "deleteAction"}

\* What an update makes of an expectation.
LEMMA UpdatedIs ==
  ASSUME NEW e \in Expectation, NEW r \in Request, r.kind \in Update,
         NEW u, u = UpdatedExpectation(r, e)
  PROVE  /\ u \in Expectation /\ u.id = e.id /\ u.group = e.group
         /\ u.text = IF r.kind = "edit" THEN r.text ELSE e.text
         /\ u.active = IF r.kind = "toggle" THEN r.active ELSE e.active
         /\ u.action = CASE r.kind = "addAction" -> [id |-> r.action, text |-> r.action]
                         [] r.kind = "saveAction" -> [id |-> e.action.id, text |-> r.text]
                         [] r.kind = "deleteAction" /\ e.action.id = r.action -> NoAction
                         [] OTHER -> e.action
<1>1. r.text \in 0 .. MaxText /\ r.active \in BOOLEAN /\ r.action \in 0 .. MaxText
  BY DEF Request
<1>2. e.action \in Action /\ NoAction \in Action
  BY ExpectationPageAssumption DEF Expectation, Action, NoAction, None
<1>3. CASE r.kind = "edit"
  <2>1. u = [e EXCEPT !.text = r.text]
    BY <1>3 DEF UpdatedExpectation
  <2> QED BY <1>1, <1>3, <2>1 DEF Expectation
<1>4. CASE r.kind = "toggle"
  <2>1. u = [e EXCEPT !.active = r.active]
    BY <1>4 DEF UpdatedExpectation
  <2> QED BY <1>1, <1>4, <2>1 DEF Expectation
<1>5. CASE r.kind = "addAction"
  <2>1. u = [e EXCEPT !.action = [id |-> r.action, text |-> r.action]]
    BY <1>5 DEF UpdatedExpectation
  <2>2. [id |-> r.action, text |-> r.action] \in Action
    BY <1>1 DEF Action
  <2> QED BY <1>5, <2>1, <2>2 DEF Expectation
<1>6. CASE r.kind = "saveAction"
  <2>1. u = [e EXCEPT !.action.text = r.text]
    BY <1>6 DEF UpdatedExpectation
  <2>2. u = [e EXCEPT !.action = [e.action EXCEPT !.text = r.text]]
    BY <2>1 DEF Expectation
  <2>3. [e.action EXCEPT !.text = r.text] = [id |-> e.action.id, text |-> r.text]
        /\ [id |-> e.action.id, text |-> r.text] \in Action
    BY <1>1, <1>2 DEF Action
  <2> QED BY <1>6, <2>2, <2>3 DEF Expectation
<1>7. CASE r.kind = "deleteAction" /\ e.action.id = r.action
  <2>1. u = [e EXCEPT !.action = NoAction]
    BY <1>7 DEF UpdatedExpectation
  <2> QED BY <1>2, <1>7, <2>1 DEF Expectation
<1>8. CASE r.kind = "deleteAction" /\ e.action.id # r.action
  <2>1. u = e
    BY <1>8 DEF UpdatedExpectation
  <2> QED BY <1>8, <2>1
<1> QED BY <1>3, <1>4, <1>5, <1>6, <1>7, <1>8 DEF Update

LEMMA UpdatedIsSound ==
  ASSUME NEW e \in Expectation, NEW r \in Request, r.kind \in Update,
         NEW t \in Nat, Sane(r, t), Sound(e, t),
         r.kind = "saveAction" => e.action.id = r.action
  PROVE  Sound(UpdatedExpectation(r, e), t)
<1> DEFINE u == UpdatedExpectation(r, e)
<1>1. u.action = CASE r.kind = "addAction" -> [id |-> r.action, text |-> r.action]
                    [] r.kind = "saveAction" -> [id |-> e.action.id, text |-> r.text]
                    [] r.kind = "deleteAction" /\ e.action.id = r.action -> NoAction
                    [] OTHER -> e.action
  BY UpdatedIs
<1> HIDE DEF u
<1>2. r.kind = "addAction" => r.action # None /\ r.action <= t
  BY DEF Sane, Command
<1>3. r.kind = "saveAction" => r.action # None /\ r.action <= t
  BY DEF Sane, Command
<1>4. Sound(u, t)
  BY <1>1, <1>2, <1>3 DEF Sound, NoAction, None
<1> QED BY <1>4 DEF u

\* A request once it is answered.
Answers(s, r) ==
  /\ s \in Request /\ s.no = r.no /\ s.kind = r.kind /\ s.of = r.of /\ s.dialog = r.dialog
  /\ s.id = r.id /\ s.index = r.index /\ s.text = r.text /\ s.action = r.action
  /\ s.active = r.active /\ s.members = r.members /\ s.waits = r.waits /\ s.moves = r.moves
  /\ s.clean = r.clean /\ s.answered /\ s.list = stored[r.of]
  /\ r.kind # "create" => s.next = r.next

AnswersWith(r, ok) ==
  \E s : Answers(s, r) /\ s.ok = ok /\ pending' = (pending \ {r}) \cup {s}

LEMMA AnswerIs ==
  ASSUME TypeOk, NEW r \in Request, NEW q, q = r \/ \E n \in 0 .. MaxId : q = [r EXCEPT !.next = n],
         q # r => r.kind = "create", NEW ok \in BOOLEAN, Answer(q, pending \ {r}, ok)
  PROVE  AnswersWith(r, ok)
<1> DEFINE s == [q EXCEPT !.answered = TRUE, !.ok = ok, !.list = stored[q.of],
                          !.groups = groups[q.of]]
<1>1. /\ q \in Request /\ q.no = r.no /\ q.kind = r.kind /\ q.of = r.of /\ q.dialog = r.dialog
      /\ q.id = r.id /\ q.index = r.index /\ q.text = r.text /\ q.action = r.action
      /\ q.active = r.active /\ q.members = r.members /\ q.waits = r.waits /\ q.moves = r.moves
      /\ q.clean = r.clean /\ (r.kind # "create" => q.next = r.next)
  BY DEF Request
<1>2. r.of \in Project /\ stored[r.of] \in SUBSET Expectation /\ groups[r.of] \in SUBSET Group
  BY DEF Request, TypeOk
<1>3. /\ s \in Request /\ s.no = q.no /\ s.kind = q.kind /\ s.of = q.of /\ s.dialog = q.dialog
      /\ s.id = q.id /\ s.index = q.index /\ s.text = q.text /\ s.action = q.action
      /\ s.active = q.active /\ s.members = q.members /\ s.waits = q.waits /\ s.moves = q.moves
      /\ s.clean = q.clean /\ s.next = q.next /\ s.answered = TRUE /\ s.ok = ok
      /\ s.list = stored[q.of]
  BY <1>1, <1>2 DEF Request
<1>4. pending' = (pending \ {r}) \cup {s}
  BY DEF Answer
<1> HIDE DEF s
<1>5. Answers(s, r)
  BY <1>1, <1>3 DEF Answers
<1> QED BY <1>3, <1>4, <1>5 DEF AnswersWith

ServedQuery(r) == r.kind \in Query /\ AnswersWith(r, TRUE) /\ UNCHANGED serverVars

ServedCreate(r) ==
  /\ r.kind = "create" /\ AnswersWith(r, TRUE)
  /\ lastId < MaxId /\ lastId' = lastId + 1
  /\ \E e \in Expectation :
       /\ e.id = lastId + 1 /\ Sound(e, lastText)
       /\ stored' = [stored EXCEPT ![r.of] = @ \cup {e}]
  /\ UNCHANGED <<groups, lastText>>

AfterUpdate(S, r) == {IF d.id = r.id THEN UpdatedExpectation(r, d) ELSE d : d \in S}

ServedUpdate(r) ==
  /\ r.kind \in Update /\ AnswersWith(r, TRUE)
  /\ \E e \in stored[r.of] : e.id = r.id /\ (r.kind = "saveAction" => e.action.id = r.action)
  /\ stored' = [stored EXCEPT ![r.of] = AfterUpdate(@, r)]
  /\ UNCHANGED <<groups, lastId, lastText>>

ServedDelete(r) ==
  /\ r.kind = "delete" /\ AnswersWith(r, TRUE)
  /\ stored' = [stored EXCEPT ![r.of] = {e \in @ : e.id # r.id}]
  /\ UNCHANGED <<groups, lastId, lastText>>

ServedGroup(r) ==
  /\ r.kind \in {"saveGroup", "toggleGroup"} /\ AnswersWith(r, TRUE)
  /\ groups' \in [Project -> SUBSET Group] /\ lastId' \in 0 .. MaxId /\ lastId <= lastId'
  /\ UNCHANGED <<stored, lastText>>

ServedDeleteGroup(r) ==
  /\ r.kind = "deleteGroup" /\ AnswersWith(r, TRUE)
  /\ stored' = [stored EXCEPT ![r.of] = {e \in @ : e.group # r.id}]
  /\ groups' \in [Project -> SUBSET Group]
  /\ UNCHANGED <<lastId, lastText>>

RefusedByServer(r) ==
  /\ r.kind \in Command \ {"create"} /\ AnswersWith(r, FALSE) /\ UNCHANGED serverVars
  /\ r.kind \in Update \ {"saveAction"} => \A e \in stored[r.of] : e.id # r.id

Served(r) ==
  \/ ServedQuery(r) \/ ServedCreate(r) \/ ServedUpdate(r) \/ ServedDelete(r)
  \/ ServedGroup(r) \/ ServedDeleteGroup(r) \/ RefusedByServer(r)

LEMMA ServeIs ==
  ASSUME Base, NEW r \in pending, Serve(r)
  PROVE  Served(r)
<1>1. TypeOk /\ r \in Request /\ r.of \in Project
  BY DEF Base, TypeOk, Request
<1>2. \A ok \in BOOLEAN : Answer(r, pending \ {r}, ok) => AnswersWith(r, ok)
  BY <1>1, AnswerIs
<1>3. r.kind \in Command \ {"create"} /\ Refuse(r) => AnswersWith(r, FALSE) /\ UNCHANGED serverVars
  BY <1>2 DEF Refuse
<1>4. CASE r.kind \in Query
  BY <1>2, <1>4 DEF Serve, ServeQuery, Served, ServedQuery
<1>5. CASE r.kind \in Command
  <2>1. ServeCommand(r)
    BY <1>5 DEF Serve, Query, Command
  <2>2. CASE r.kind = "create"
    <3>1. ServeCreate(r)
      BY <2>1, <2>2 DEF ServeCommand
    <3> DEFINE e == [id |-> lastId + 1, group |-> r.group, text |-> r.text, active |-> TRUE,
                     action |-> [id |-> r.action, text |-> r.action]]
    <3>2. lastId + 1 \in 1 .. MaxId
      BY <1>1, <3>1, ExpectationPageAssumption DEF ServeCreate, TypeOk
    <3>3. e \in Expectation /\ e.id = lastId + 1
      BY <1>1, <3>2 DEF Expectation, Action, Request
    <3>4. Sound(e, lastText)
      <4>1. r.action <= lastText
        BY <2>2 DEF Base, RequestsOk, Sensible, Sane, Command
      <4> QED BY <4>1 DEF Sound, NoAction, None
    <3>5. AnswersWith(r, TRUE)
      <4>1. Answer([r EXCEPT !.next = lastId + 1], pending \ {r}, TRUE)
        BY <3>1 DEF ServeCreate
      <4>2. lastId + 1 \in 0 .. MaxId
        BY <3>2
      <4> QED BY <1>1, <2>2, <4>1, <4>2, AnswerIs
    <3>6. stored' = [stored EXCEPT ![r.of] = @ \cup {e}]
      BY <3>1 DEF ServeCreate
    <3> HIDE DEF e
    <3>7. ServedCreate(r)
      BY <2>2, <3>1, <3>3, <3>4, <3>5, <3>6 DEF ServeCreate, ServedCreate
    <3> QED BY <3>7 DEF Served
  <2>3. CASE r.kind \in Update
    <3>1. ServeUpdate(r)
      BY <2>1, <2>3 DEF ServeCommand, Update
    <3>2. CASE \E e \in Find(stored[r.of], r.id) :
                 r.kind = "saveAction" => e.action.id = r.action /\ r.action # None
      <4>1. Answer(r, pending \ {r}, TRUE) /\ UNCHANGED <<groups, lastId, lastText>>
            /\ stored' = [stored EXCEPT ![r.of] = AfterUpdate(@, r)]
        BY <3>1, <3>2 DEF ServeUpdate, Changed, AfterUpdate
      <4>2. \E e \in stored[r.of] : e.id = r.id /\ (r.kind = "saveAction" => e.action.id = r.action)
        BY <3>2 DEF Find
      <4> QED BY <1>2, <2>3, <4>1, <4>2 DEF Served, ServedUpdate
    <3>3. CASE ~\E e \in Find(stored[r.of], r.id) :
                 r.kind = "saveAction" => e.action.id = r.action /\ r.action # None
      <4>1. Refuse(r)
        BY <3>1, <3>3 DEF ServeUpdate
      <4>2. r.kind \in Update \ {"saveAction"} => \A e \in stored[r.of] : e.id # r.id
        BY <3>3 DEF Find
      <4> QED BY <1>3, <1>5, <2>3, <4>1, <4>2 DEF Served, RefusedByServer, Update
    <3> QED BY <3>2, <3>3
  <2>4. CASE r.kind = "delete"
    <3>1. ServeDelete(r)
      BY <2>1, <2>4 DEF ServeCommand
    <3>2. CASE Refuse(r)
      BY <1>3, <1>5, <2>4, <3>2 DEF Served, RefusedByServer, Update
    <3>3. CASE ~Refuse(r)
      <4>1. Answer(r, pending \ {r}, TRUE) /\ UNCHANGED <<groups, lastId, lastText>>
            /\ stored' = [stored EXCEPT ![r.of] = @ \ Find(@, r.id)]
        BY <3>1, <3>3 DEF ServeDelete
      <4>2. stored[r.of] \ Find(stored[r.of], r.id) = {e \in stored[r.of] : e.id # r.id}
        BY DEF Find
      <4>3. stored' = [stored EXCEPT ![r.of] = {e \in @ : e.id # r.id}]
        BY <4>1, <4>2
      <4> QED BY <1>2, <2>4, <4>1, <4>3 DEF Served, ServedDelete
    <3> QED BY <3>2, <3>3
  <2>5. CASE r.kind \in {"saveGroup", "toggleGroup"}
    <3>1. ServeSaveGroup(r)
      BY <2>1, <2>5 DEF ServeCommand
    <3>2. CASE Refuse(r)
      BY <1>3, <1>5, <2>5, <3>2 DEF Served, RefusedByServer, Update
    <3>3. CASE ~Refuse(r) /\ r.id = None
      <4>1. /\ Answer(r, pending \ {r}, TRUE) /\ UNCHANGED <<stored, lastText>>
            /\ lastId < MaxId /\ lastId' = lastId + 1
            /\ groups' = [groups EXCEPT ![r.of] =
                 @ \cup {[id |-> lastId + 1, text |-> r.text, active |-> TRUE]}]
        BY <3>1, <3>3 DEF ServeSaveGroup
      <4>2. lastId + 1 \in 1 .. MaxId
        BY <1>1, <4>1, ExpectationPageAssumption DEF TypeOk
      <4>3. [id |-> lastId + 1, text |-> r.text, active |-> TRUE] \in Group
        BY <1>1, <4>2 DEF Group, Request
      <4>4. groups' \in [Project -> SUBSET Group]
        BY <1>1, <4>1, <4>3 DEF TypeOk
      <4>5. lastId' \in 0 .. MaxId /\ lastId <= lastId'
        BY <1>1, <4>1, <4>2 DEF TypeOk
      <4> QED BY <1>2, <2>5, <4>1, <4>4, <4>5 DEF Served, ServedGroup
    <3>4. CASE ~Refuse(r) /\ r.id # None
      <4> DEFINE new(g) == IF r.kind = "saveGroup" THEN [g EXCEPT !.text = r.text]
                                                   ELSE [g EXCEPT !.active = r.active]
      <4>1. /\ Answer(r, pending \ {r}, TRUE) /\ UNCHANGED <<stored, lastId, lastText>>
            /\ groups' = [groups EXCEPT ![r.of] = {IF g.id = r.id THEN new(g) ELSE g : g \in @}]
        BY <3>1, <3>4 DEF ServeSaveGroup, Changed
      <4>2. \A g \in Group : new(g) \in Group
        BY <1>1 DEF Group, Request
      <4> HIDE DEF new
      <4>3. groups' \in [Project -> SUBSET Group]
        BY <1>1, <4>1, <4>2 DEF TypeOk
      <4>4. lastId' \in 0 .. MaxId /\ lastId <= lastId'
        BY <1>1, <4>1, ExpectationPageAssumption DEF TypeOk
      <4> QED BY <1>2, <2>5, <4>1, <4>3, <4>4 DEF Served, ServedGroup
    <3> QED BY <3>2, <3>3, <3>4
  <2>6. CASE r.kind = "deleteGroup"
    <3>1. ServeDeleteGroup(r)
      BY <2>1, <2>6 DEF ServeCommand
    <3>2. CASE Refuse(r)
      BY <1>3, <1>5, <2>6, <3>2 DEF Served, RefusedByServer, Update
    <3>3. CASE ~Refuse(r)
      <4>1. /\ Answer(r, pending \ {r}, TRUE) /\ UNCHANGED <<lastId, lastText>>
            /\ stored' = [stored EXCEPT ![r.of] = {e \in @ : e.group # r.id}]
            /\ groups' = [groups EXCEPT ![r.of] = @ \ Find(@, r.id)]
        BY <3>1, <3>3 DEF ServeDeleteGroup
      <4>2. groups' \in [Project -> SUBSET Group]
        BY <1>1, <4>1 DEF TypeOk
      <4> QED BY <1>2, <2>6, <4>1, <4>2 DEF Served, ServedDeleteGroup
    <3> QED BY <3>2, <3>3
  <2> QED BY <1>5, <2>2, <2>3, <2>4, <2>5, <2>6 DEF Command, Update
<1> QED BY <1>1, <1>4, <1>5 DEF Request

\* A new document cannot be mistaken for an earlier one.
LEMMA ServedDocuments ==
  ASSUME Base, NEW r \in pending, Served(r)
  PROVE  /\ stored' \in [Project -> SUBSET Expectation]
         /\ groups' \in [Project -> SUBSET Group]
         /\ lastId' \in 0 .. MaxId /\ lastText' = lastText
         /\ \A p \in Project : /\ Unique(stored'[p])
                               /\ \A e \in stored'[p] : e.id <= lastId' /\ Sound(e, lastText)
<1> USE DEF serverVars
<1>1. /\ stored \in [Project -> SUBSET Expectation] /\ groups \in [Project -> SUBSET Group]
      /\ lastId \in 0 .. MaxId /\ lastText \in Nat /\ r \in Request /\ r.of \in Project
      /\ Sane(r, lastText) /\ MaxId \in Nat
  <2>1. /\ stored \in [Project -> SUBSET Expectation] /\ groups \in [Project -> SUBSET Group]
        /\ lastId \in 0 .. MaxId /\ lastText \in 0 .. MaxText /\ pending \subseteq Request
    BY DEF Base, TypeOk
  <2>2. lastText \in Nat /\ MaxId \in Nat
    BY <2>1, ExpectationPageAssumption
  <2>3. r \in Request /\ r.of \in Project
    BY <2>1 DEF Request
  <2>4. Sane(r, lastText)
    BY DEF Base, RequestsOk, Sensible
  <2> QED BY <2>1, <2>2, <2>3, <2>4
<1>2. \A p \in Project : Unique(stored[p]) /\ \A e \in stored[p] : e.id <= lastId /\ Sound(e, lastText)
  BY DEF Base, DocumentsOk
<1>3. CASE UNCHANGED serverVars
  BY <1>1, <1>2, <1>3
<1>4. CASE ServedCreate(r)
  <2>1. /\ lastId < MaxId /\ lastId' = lastId + 1 /\ groups' = groups /\ lastText' = lastText
    BY <1>4 DEF ServedCreate
  <2>2. PICK e \in Expectation : /\ e.id = lastId + 1 /\ Sound(e, lastText)
                                 /\ stored' = [stored EXCEPT ![r.of] = @ \cup {e}]
    BY <1>4 DEF ServedCreate
  <2>3. stored' \in [Project -> SUBSET Expectation]
    BY <1>1, <2>2
  <2>4. lastId' \in 0 .. MaxId
    BY <1>1, <2>1
  <2>5. ASSUME NEW p \in Project
        PROVE  Unique(stored'[p]) /\ \A d \in stored'[p] : d.id <= lastId' /\ Sound(d, lastText)
    <3>1. \A d \in stored[p] : d.id \in Nat /\ d.id <= lastId /\ d.id # e.id
      BY <1>1, <1>2, <2>2 DEF Expectation
    <3>2. stored'[p] = IF p = r.of THEN stored[p] \cup {e} ELSE stored[p]
      BY <1>1, <2>2
    <3>3. Unique(stored'[p])
      BY <1>2, <3>1, <3>2 DEF Unique
    <3>4. \A d \in stored'[p] : d.id <= lastId'
      BY <1>1, <2>1, <2>2, <3>1, <3>2
    <3>5. \A d \in stored'[p] : Sound(d, lastText)
      BY <1>2, <2>2, <3>2
    <3> QED BY <3>3, <3>4, <3>5
  <2> QED BY <1>1, <2>1, <2>3, <2>4, <2>5
<1>5. CASE ServedUpdate(r)
  <2>1. /\ groups' = groups /\ lastId' = lastId /\ lastText' = lastText /\ r.kind \in Update
        /\ stored' = [stored EXCEPT ![r.of] = AfterUpdate(@, r)]
    BY <1>5 DEF ServedUpdate
  <2>2. \A e \in Expectation : /\ UpdatedExpectation(r, e) \in Expectation
                               /\ UpdatedExpectation(r, e).id = e.id
    <3> SUFFICES ASSUME NEW e \in Expectation
                 PROVE  /\ UpdatedExpectation(r, e) \in Expectation
                        /\ UpdatedExpectation(r, e).id = e.id
      OBVIOUS
    <3>1. r \in Request /\ r.kind \in Update
      BY <1>1, <2>1
    <3>2. PICK u : u = UpdatedExpectation(r, e)
      OBVIOUS
    <3>3. u \in Expectation /\ u.id = e.id
      BY <3>1, <3>2, UpdatedIs
    <3> QED BY <3>2, <3>3
  <2>3. stored[r.of] \subseteq Expectation
    BY <1>1
  <2>4. \A d \in stored[r.of] : d.id = r.id => Sound(UpdatedExpectation(r, d), lastText)
    <3> SUFFICES ASSUME NEW d \in stored[r.of], d.id = r.id
                 PROVE  Sound(UpdatedExpectation(r, d), lastText)
      OBVIOUS
    <3>1. r.kind = "saveAction" => d.action.id = r.action
      BY <1>1, <1>2, <1>5 DEF ServedUpdate, Unique
    <3>2. d \in Expectation /\ Sound(d, lastText)
      BY <1>1, <1>2, <2>3
    <3> QED BY <1>1, <2>1, <3>1, <3>2, UpdatedIsSound
  <2>5. AfterUpdate(stored[r.of], r) \subseteq Expectation
    BY <2>2, <2>3 DEF AfterUpdate
  <2>6. stored' \in [Project -> SUBSET Expectation]
    BY <1>1, <2>1, <2>5
  <2>7. ASSUME NEW p \in Project
        PROVE  Unique(stored'[p]) /\ \A d \in stored'[p] : d.id <= lastId /\ Sound(d, lastText)
    <3>1. CASE p # r.of
      BY <1>1, <1>2, <2>1, <3>1
    <3>2. CASE p = r.of
      <4>1. stored'[p] = AfterUpdate(stored[r.of], r)
        BY <1>1, <2>1, <3>2
      <4>2. \A x \in stored'[p] : \E d \in stored[r.of] :
              x = (IF d.id = r.id THEN UpdatedExpectation(r, d) ELSE d) /\ x.id = d.id
        BY <2>2, <2>3, <4>1 DEF AfterUpdate
      <4>3. Unique(stored'[p])
        <5> SUFFICES ASSUME NEW x \in stored'[p], NEW y \in stored'[p], x.id = y.id PROVE x = y
          BY DEF Unique
        <5>1. PICK c \in stored[r.of] :
                x = (IF c.id = r.id THEN UpdatedExpectation(r, c) ELSE c) /\ x.id = c.id
          BY <4>2
        <5>2. PICK d \in stored[r.of] :
                y = (IF d.id = r.id THEN UpdatedExpectation(r, d) ELSE d) /\ y.id = d.id
          BY <4>2
        <5>3. c = d
          BY <1>1, <1>2, <5>1, <5>2 DEF Unique
        <5> QED BY <5>1, <5>2, <5>3
      <4>4. \A x \in stored'[p] : x.id <= lastId /\ Sound(x, lastText)
        BY <1>1, <1>2, <2>4, <4>2
      <4> QED BY <4>3, <4>4
    <3> QED BY <3>1, <3>2
  <2> QED BY <1>1, <2>1, <2>6, <2>7
<1>6. CASE ServedDelete(r) \/ ServedDeleteGroup(r)
  <2>1. /\ groups' \in [Project -> SUBSET Group] /\ lastId' = lastId /\ lastText' = lastText
        /\ \/ stored' = [stored EXCEPT ![r.of] = {e \in @ : e.id # r.id}]
           \/ stored' = [stored EXCEPT ![r.of] = {e \in @ : e.group # r.id}]
    BY <1>1, <1>6 DEF ServedDelete, ServedDeleteGroup
  <2>2. stored' \in [Project -> SUBSET Expectation] /\ \A p \in Project : stored'[p] \subseteq stored[p]
    BY <1>1, <2>1
  <2>3. \A p \in Project : Unique(stored'[p])
    BY <1>2, <2>2 DEF Unique
  <2> QED BY <1>1, <1>2, <2>1, <2>2, <2>3
<1>7. CASE ServedGroup(r)
  <2>1. /\ stored' = stored /\ lastText' = lastText /\ groups' \in [Project -> SUBSET Group]
        /\ lastId' \in 0 .. MaxId /\ lastId <= lastId'
    BY <1>7 DEF ServedGroup
  <2>2. \A p \in Project : \A e \in stored[p] : e.id \in Nat
    BY <1>1 DEF Expectation
  <2>3. \A p \in Project : \A e \in stored[p] : e.id <= lastId'
    BY <1>1, <1>2, <2>1, <2>2
  <2> QED BY <1>1, <1>2, <2>1, <2>3
<1> QED BY <1>3, <1>4, <1>5, <1>6, <1>7 DEF Served, ServedQuery, RefusedByServer

LEMMA ServedRequests ==
  ASSUME Base, NEW r \in pending, Served(r),
         NEW s, Answers(s, r), pending' = (pending \ {r}) \cup {s},
         r.kind \in Query \cup {"create"} => s.ok
  PROVE  /\ Sensible(pending', lastText) /\ GroupsAreShared(pending')
         /\ FirstListIsShared(pending')
         /\ Commands(pending') = (Commands(pending) \ {r}) \cup (IF r.kind \in Command THEN {s} ELSE {})
         /\ r.kind \in Query => stored' = stored
         /\ r.kind \in Query /\ CleanLists(pending) => CleanLists(pending')
         /\ r.kind \in Command => \A q \in pending' : ~(q.kind = "list" /\ q.clean)
         /\ SameQueries(pending', pending)
<1> USE DEF serverVars
<1>1. /\ pending \subseteq Request /\ \A q \in pending : Sane(q, lastText)
      /\ \A x, y \in pending : x.no = y.no => x = y
      /\ GroupsAreShared(pending) /\ FirstListIsShared(pending) /\ CleanLists(pending)
      /\ r \in Request /\ Sane(r, lastText) /\ r.of \in Project
  BY DEF Base, RequestsOk, Sensible, OwnNumbers, Request
<1>2. /\ s \in Request /\ s.no = r.no /\ s.kind = r.kind /\ s.of = r.of /\ s.dialog = r.dialog
      /\ s.action = r.action /\ s.waits = r.waits /\ s.moves = r.moves
      /\ s.clean = r.clean /\ s.list = stored[r.of]
      /\ r.kind # "create" => s.next = r.next
  BY DEF Answers
<1>3. Unique(s.list) /\ \A e \in s.list : Sound(e, lastText)
  BY <1>1, <1>2 DEF Base, DocumentsOk
<1>4. Sane(s, lastText)
  BY <1>1, <1>2, <1>3 DEF Sane
<1>5. Sensible(pending', lastText)
  <2>1. pending' \subseteq Request /\ \A q \in pending' : Sane(q, lastText)
    BY <1>1, <1>2, <1>4
  <2>2. OwnNumbers(pending')
    BY <1>1, <1>2 DEF OwnNumbers
  <2> QED BY <2>1, <2>2 DEF Sensible
<1>6. GroupsAreShared(pending') /\ FirstListIsShared(pending')
  BY <1>1, <1>2 DEF GroupsAreShared, FirstListIsShared
<1>7. Commands(pending') = (Commands(pending) \ {r}) \cup (IF r.kind \in Command THEN {s} ELSE {})
  BY <1>2 DEF Commands
<1>8. r.kind \in Query => stored' = stored
  BY DEF Served, ServedQuery, ServedCreate, ServedUpdate, ServedDelete, ServedGroup,
         ServedDeleteGroup, RefusedByServer, Query, Command, Update
<1>9. r.kind \in Query => CleanLists(pending')
  <2> SUFFICES ASSUME r.kind \in Query, NEW q \in pending', q.kind = "list", q.clean
               PROVE  Commands(pending') = {} /\ (q.answered => q.list = stored[q.of])
    BY DEF CleanLists
  <2>1. Commands(pending') \subseteq Commands(pending)
    BY <1>7 DEF Query, Command
  <2>2. CASE q = s
    <3>1. r.clean /\ r.kind = "list"
      BY <1>2, <2>2
    <3> QED BY <1>1, <1>2, <2>1, <2>2, <3>1 DEF CleanLists
  <2>3. CASE q # s
    BY <1>1, <2>1, <2>3 DEF CleanLists
  <2> QED BY <2>2, <2>3
<1>10. r.kind \in Command => \A q \in pending' : ~(q.kind = "list" /\ q.clean)
  <2> SUFFICES ASSUME r.kind \in Command, NEW q \in pending', q.kind = "list", q.clean PROVE FALSE
    OBVIOUS
  <2>1. r \in Commands(pending)
    BY DEF Commands
  <2>2. q \in pending
    BY <1>2 DEF Command
  <2> QED BY <1>1, <2>1, <2>2 DEF CleanLists
<1>11. SameQueries(pending', pending)
  <2>1. r.kind \in Query => SameQuery(s, r)
    BY <1>2 DEF SameQuery, Query
  <2>2. \A q \in pending : SameQuery(q, q)
    BY DEF SameQuery
  <2> QED BY <1>2, <2>1, <2>2 DEF SameQueries
<1> QED BY <1>5, <1>6, <1>7, <1>8, <1>9, <1>10, <1>11

-----------------------------------------------------------------------------
(* The parts of the base that a step of the page touches.                  *)

KeepsRequests(P) ==
  Sensible(P, lastText) /\ GroupsAreShared(P) /\ FirstListIsShared(P) /\ CleanLists(P)

ListOk == list \in Seq(Expectation) /\ \A i \in DOMAIN list : Sound(list[i], lastText)

SelectionOk == selected \in 0 .. MaxId /\ trusted \in BOOLEAN /\ aim \in 0 .. MaxId

CacheOk ==
  cached \in [Project -> SUBSET Group] /\ loaded \subseteq Project /\ fetched \subseteq Project

DialogsOk ==
  /\ open \subseteq Dialog /\ saving \subseteq Dialog \cup {"switch"}
  /\ target \in [Dialog -> Nat] /\ target["action"] <= MaxText /\ target["action"] <= lastText
  /\ \A d \in Dialog \ {"action"} : target[d] <= MaxId
  /\ "action" \in open => target["action"] # None
  /\ made \in [Dialog -> Nat] /\ lost \in [Dialog -> Nat]

LEMMA BaseHas ==
  ASSUME Base
  PROVE  /\ ListOk /\ SelectionOk /\ CacheOk /\ DialogsOk /\ KeepsRequests(pending)
         /\ project \in Project /\ lastText \in 0 .. MaxText /\ lastId \in 0 .. MaxId
BY DEF Base, TypeOk, RequestsOk, DocumentsOk, ListOk, SelectionOk, CacheOk, DialogsOk,
       KeepsRequests

\* A step that leaves the server alone.
LEMMA PageKeepsBase ==
  ASSUME Base, UNCHANGED <<host, serverVars>>, project' \in Project, fetched \subseteq fetched',
         ListOk', SelectionOk', CacheOk', DialogsOk', KeepsRequests(pending')
  PROVE  Base'
<1>1. /\ stored' = stored /\ groups' = groups /\ lastId' = lastId /\ lastText' = lastText
      /\ host' = host
  BY DEF serverVars
<1>2. RequestsOk'
  <2>1. FirstListIsShared(pending)' /\ CleanLists(pending)'
    BY <1>1 DEF KeepsRequests, FirstListIsShared, CleanLists
  <2> QED BY <1>1, <2>1 DEF KeepsRequests, RequestsOk
<1>3. TypeOk'
  <2>1. pending' \subseteq Request
    BY DEF KeepsRequests, Sensible
  <2> QED BY <1>1, <2>1 DEF Base, TypeOk, ListOk, SelectionOk, CacheOk, DialogsOk
<1>4. DocumentsOk'
  BY <1>1 DEF Base, DocumentsOk, ListOk, DialogsOk
<1> QED BY <1>2, <1>3, <1>4 DEF Base

LEMMA RestIsFine ==
  ASSUME Base, NEW P, P \subseteq pending
  PROVE  KeepsRequests(P)
<1>1. Sensible(P, lastText)
  BY SensibleSubset DEF Base, RequestsOk
<1>2. CleanLists(P)
  BY DEF Base, RequestsOk, CleanLists, Commands
<1> QED BY <1>1, <1>2 DEF Base, RequestsOk, GroupsAreShared, FirstListIsShared, KeepsRequests

\* The list is fetched again when a request has ended.
LEMMA RefetchedIsFine ==
  ASSUME Base, NEW r \in pending, NEW others, others = pending \ {r},
         NEW next \in 0 .. MaxId, NEW moves \in BOOLEAN,
         NEW P, P = ListRefetched(others, next, moves)
  PROVE  /\ KeepsRequests(P)
         /\ Commands(P) = Commands(others)
         /\ Waiting(P) = Waiting(others)
         /\ \A q \in P : q.kind # "list" \/ q.of # project => q \in others
         /\ MovesTo(P, next, moves)
<1>1. KeepsRequests(others) /\ lastText \in Nat /\ project \in Project
  BY RestIsFine, BaseHas
<1>2. Unnumbered(r.no, others)
  BY DEF Base, TypeOk, RequestsOk, Sensible, OwnNumbers, Request, Unnumbered
<1>3. /\ Sensible(others, lastText) /\ GroupsAreShared(others) /\ FirstListIsShared(others)
      /\ CleanLists(others)
  BY <1>1 DEF KeepsRequests
<1>4. P = ListRefetched(others, next, moves) /\ lastText \in Nat /\ project \in Project
  BY <1>1
<1>a. PICK n : Unnumbered(n, others)
  BY <1>2
<1>5. /\ Sensible(P, lastText) /\ Refetched(P, others) /\ CleanLists(P) /\ FirstListIsShared(P)
      /\ MovesTo(P, next, moves)
  <2>1. Sensible(P, lastText) /\ Refetched(P, others)
    BY <1>3, <1>4, <1>a, ListRefetchedIs
  <2>2. CleanLists(P)
    BY <1>3, <1>4, <1>a, ListRefetchedIs
  <2>3. FirstListIsShared(P)
    BY <1>3, <1>4, <1>a, ListRefetchedIs
  <2>4. MovesTo(P, next, moves)
    BY <1>3, <1>4, <1>a, ListRefetchedIs
  <2> QED BY <2>1, <2>2, <2>3, <2>4
<1>6. \A q : q.kind # "list" \/ q.of # project => (q \in P <=> q \in others)
  BY <1>5 DEF Refetched, Lists
<1>7. \A q \in P \cup others : "deleteGroup" \in q.waits => q.kind = "groups"
  BY <1>3, <1>5 DEF Sensible, Sane
<1>8. GroupsAreShared(P)
  BY <1>3, <1>6 DEF GroupsAreShared
<1>9. Commands(P) = Commands(others)
  BY <1>6 DEF Commands, Command
<1>10. Waiting(P) = Waiting(others)
  BY <1>6, <1>7 DEF Waiting
<1> QED BY <1>5, <1>6, <1>8, <1>9, <1>10 DEF KeepsRequests

\* An update in place leaves the other rows and the numbers of all alone.
LEMMA UpdatedListIs ==
  ASSUME NEW l \in Seq(Expectation), NEW r \in Request, r.kind \in Update,
         NEW w, w = Updated(l, r)
  PROVE  /\ w \in Seq(Expectation) /\ DOMAIN w = DOMAIN l /\ Ids(w) = Ids(l)
         /\ \A i \in DOMAIN l : /\ w[i].id = l[i].id
                                /\ w[i] = IF l[i].id = r.id THEN UpdatedExpectation(r, l[i]) ELSE l[i]
<1>1. /\ DOMAIN w = DOMAIN l /\ DOMAIN l = 1 .. Len(l) /\ Len(l) \in Nat
      /\ \A i \in DOMAIN l : w[i] = IF l[i].id = r.id THEN UpdatedExpectation(r, l[i]) ELSE l[i]
  BY DEF Updated
<1>2. ASSUME NEW i \in DOMAIN l PROVE w[i] \in Expectation /\ w[i].id = l[i].id
  <2>1. PICK e \in Expectation : e = l[i]
    OBVIOUS
  <2>2. PICK u : u = UpdatedExpectation(r, e)
    OBVIOUS
  <2>3. u \in Expectation /\ u.id = e.id
    BY <2>2, UpdatedIs, ZenonT(30)
  <2> QED BY <1>1, <2>1, <2>2, <2>3
<1>3. w \in [1 .. Len(l) -> Expectation]
  <2>1. w = [i \in 1 .. Len(l) |-> w[i]]
    BY DEF Updated
  <2>2. \A i \in 1 .. Len(l) : w[i] \in Expectation
    BY <1>1, <1>2
  <2> QED BY <2>1, <2>2
<1>4. w \in Seq(Expectation)
  BY <1>1, <1>3
<1>5. \A i \in DOMAIN l : w[i].id = l[i].id
  BY <1>2
<1>6. Ids(w) = Ids(l)
  BY <1>1, <1>5 DEF Ids
<1> QED BY <1>1, <1>4, <1>5, <1>6

LEMMA UpdatedListIsSound ==
  ASSUME NEW l \in Seq(Expectation), NEW r \in Request, r.kind \in {"edit", "toggle"},
         NEW t \in Nat, \A i \in DOMAIN l : Sound(l[i], t), Sane(r, t),
         NEW w, w = Updated(l, r)
  PROVE  /\ w \in Seq(Expectation) /\ DOMAIN w = DOMAIN l /\ Ids(w) = Ids(l)
         /\ \A i \in DOMAIN w : Sound(w[i], t)
<1>1. /\ w \in Seq(Expectation) /\ DOMAIN w = DOMAIN l /\ Ids(w) = Ids(l)
      /\ \A i \in DOMAIN l : w[i] = IF l[i].id = r.id THEN UpdatedExpectation(r, l[i]) ELSE l[i]
  BY UpdatedListIs DEF Update
<1>2. ASSUME NEW i \in DOMAIN l PROVE Sound(w[i], t)
  <2>1. l[i] \in Expectation /\ Sound(l[i], t)
    OBVIOUS
  <2>2. Sound(UpdatedExpectation(r, l[i]), t)
    BY <2>1, UpdatedIsSound DEF Update
  <2> QED BY <1>1, <2>1, <2>2
<1> QED BY <1>1, <1>2

\* The row has no action to change, or has one already.
Misses(r, e) ==
  IF r.kind = "addAction" THEN e.action # NoAction ELSE e.action.id # r.action

LEMMA ActionChangedIs ==
  ASSUME NEW l \in Seq(Expectation), NEW r \in Request,
         r.kind \in {"addAction", "saveAction", "deleteAction"},
         NEW t \in Nat, \A i \in DOMAIN l : Sound(l[i], t), Sane(r, t),
         NEW w, w = ActionChanged(l, r)
  PROVE  /\ w \in Seq(Expectation) /\ DOMAIN w = DOMAIN l /\ Ids(w) = Ids(l)
         /\ \A i \in DOMAIN w : Sound(w[i], t)
         /\ \A i \in DOMAIN l \ {r.index} : w[i] = l[i]
         /\ r.index \in DOMAIN l =>
              w[r.index] = IF Misses(r, l[r.index]) THEN l[r.index]
                           ELSE UpdatedExpectation(r, l[r.index])
<1>1. CASE r.index \notin DOMAIN l
  BY <1>1 DEF ActionChanged
<1>2. CASE r.index \in DOMAIN l
  <2> DEFINE k == r.index
             e == l[k]
             v == IF Misses(r, e) THEN e ELSE UpdatedExpectation(r, e)
  <2>1. w = [l EXCEPT ![k] = v]
    BY <1>2 DEF ActionChanged, Misses
  <2>2. e \in Expectation /\ Sound(e, t)
    BY <1>2
  <2>3. PICK u : u = UpdatedExpectation(r, e)
    OBVIOUS
  <2>4. u \in Expectation /\ u.id = e.id
    <3> HIDE DEF e
    <3> QED BY <2>2, <2>3, UpdatedIs, ZenonT(30) DEF Update
  <2>5. (r.kind = "saveAction" => e.action.id = r.action) => Sound(u, t)
    <3> HIDE DEF e
    <3> QED BY <2>2, <2>3, UpdatedIsSound DEF Update
  <2>6. v = IF Misses(r, e) THEN e ELSE u
    BY <2>3
  <2>7. v \in Expectation /\ v.id = e.id /\ Sound(v, t)
    <3> HIDE DEF v, e
    <3> QED BY <2>2, <2>4, <2>5, <2>6 DEF Misses
  <2> HIDE DEF v
  <2>8. w \in Seq(Expectation) /\ DOMAIN w = DOMAIN l
    BY <2>1, <2>7, <1>2
  <2>9. w[k] = v /\ \A i \in DOMAIN l \ {k} : w[i] = l[i]
    BY <2>1, <1>2
  <2>10. Ids(w) = Ids(l)
    <3>1. \A i \in DOMAIN l : w[i].id = l[i].id
      BY <2>7, <2>9
    <3> QED BY <2>8, <3>1 DEF Ids
  <2>11. \A i \in DOMAIN w : Sound(w[i], t)
    BY <2>7, <2>8, <2>9
  <2> QED BY <1>2, <2>8, <2>9, <2>10, <2>11 DEF v
<1> QED BY <1>1, <1>2

-----------------------------------------------------------------------------
(* The base holds whatever the page, the server and the network do.        *)

LEMMA RequestHas ==
  ASSUME Base, NEW r \in pending
  PROVE  /\ r \in Request /\ Sane(r, lastText) /\ r.next \in 0 .. MaxId /\ r.moves \in BOOLEAN
         /\ r.of \in Project /\ r.list \subseteq Expectation /\ r.groups \subseteq Group
BY DEF Base, TypeOk, RequestsOk, Sensible, Request

LEMMA ServeKeepsBase ==
  ASSUME Base, NEW r \in pending, Serve(r)
  PROVE  Base'
<1>1. Served(r)
  BY ServeIs
<1>2. PICK ok \in BOOLEAN : AnswersWith(r, ok) /\ (r.kind \in Query \cup {"create"} => ok)
  BY <1>1 DEF Served, ServedQuery, ServedCreate, ServedUpdate, ServedDelete, ServedGroup,
              ServedDeleteGroup, RefusedByServer, Query, Command
<1>3. PICK s : Answers(s, r) /\ s.ok = ok /\ pending' = (pending \ {r}) \cup {s}
  BY <1>2 DEF AnswersWith
<1>4. /\ stored' \in [Project -> SUBSET Expectation]
      /\ groups' \in [Project -> SUBSET Group]
      /\ lastId' \in 0 .. MaxId /\ lastText' = lastText
      /\ \A p \in Project : /\ Unique(stored'[p])
                            /\ \A e \in stored'[p] : e.id <= lastId' /\ Sound(e, lastText)
  BY <1>1, ServedDocuments
<1>5. r.kind \in Query \cup {"create"} => s.ok
  BY <1>2, <1>3
<1>6. Sensible(pending', lastText) /\ GroupsAreShared(pending') /\ FirstListIsShared(pending')
  BY <1>1, <1>3, <1>5, ServedRequests
<1>7. UNCHANGED <<host, project, listVars, cacheVars, open, target, saving, lost>>
  BY DEF Serve
<1>m. made' \in [Dialog -> Nat]
  <2>1. made \in [Dialog -> Nat]
    BY DEF Base, TypeOk
  <2>2. CASE r.kind = "create"
    <3>1. r.dialog \in Dialog
      BY <2>2, RequestHas DEF Sane, DialogOf, Dialog
    <3>2. made' = [made EXCEPT ![r.dialog] = @ + 1]
      BY <2>2 DEF Serve, Count
    <3> QED BY <2>1, <3>1, <3>2
  <2>3. CASE r.kind # "create"
    BY <2>1, <2>3 DEF Serve, Count
  <2> QED BY <2>2, <2>3
<1>8. CleanLists(pending)'
  <2>1. CASE r.kind \in Query
    <3>1. stored' = stored
      BY <1>1, <1>3, <1>5, <2>1, ServedRequests
    <3>2. CleanLists(pending)
      BY DEF Base, RequestsOk
    <3>3. CleanLists(pending')
      BY <1>1, <1>3, <1>5, <2>1, <3>2, ServedRequests
    <3> QED BY <3>1, <3>3 DEF CleanLists
  <2>2. CASE r.kind \in Command
    <3>1. \A q \in pending' : ~(q.kind = "list" /\ q.clean)
      BY <1>1, <1>3, <1>5, <2>2, ServedRequests
    <3> QED BY <3>1 DEF CleanLists
  <2> QED BY <2>1, <2>2 DEF Base, TypeOk, Request
<1>9. RequestsOk'
  BY <1>4, <1>6, <1>7, <1>8 DEF RequestsOk, FirstListIsShared, cacheVars
<1>10. TypeOk'
  BY <1>4, <1>6, <1>7, <1>m DEF Base, TypeOk, Sensible, listVars, cacheVars
<1>11. DocumentsOk'
  BY <1>4, <1>7 DEF Base, DocumentsOk, listVars
<1> QED BY <1>9, <1>10, <1>11 DEF Base

\* What a step that sends a command leaves alone.
PageWaits(kind, r) ==
  /\ UNCHANGED <<host, project, selected, trusted, aim, cacheVars, open, target, made, lost>>
  /\ \/ kind \in {"deleteAction", "addAction", "toggleGroup"} /\ UNCHANGED <<saving, list>>
     \/ /\ kind \notin {"deleteAction", "addAction", "toggleGroup", "toggle"}
        /\ UNCHANGED list /\ r.dialog \in open \ saving /\ saving' = saving \cup {r.dialog}
     \/ /\ kind = "toggle" /\ list' = Updated(list, r)
        /\ "switch" \notin saving /\ saving' = saving \cup {"switch"}

LEMMA SendKeepsBase ==
  ASSUME Base, NEW kind \in Command, NEW r, NewCommand(r, kind), PageWaits(kind, r)
  PROVE  Base'
<1>1. lastText' \in 0 .. MaxText /\ lastText <= lastText' /\ UNCHANGED <<stored, groups, lastId>>
  BY SendIs
<1>2. /\ Sensible(pending', lastText') /\ GroupsAreShared(pending')
      /\ FirstListIsShared(pending') /\ CleanLists(pending')
  BY SendIs
<1>3. /\ UNCHANGED <<host, project, selected, trusted, aim, cacheVars, open, target, made, lost>>
      /\ saving' \subseteq saving \cup Dialog \cup {"switch"}
  <2>1. open \subseteq Dialog
    BY DEF Base, TypeOk
  <2> QED BY <2>1 DEF PageWaits
<1>4. /\ ListOk /\ r \in Request /\ r.kind = kind /\ r.list = {} /\ r.answered = FALSE
      /\ lastText \in Nat /\ lastText' \in Nat
  BY <1>1, BaseHas DEF NewCommand
<1>5. list' \in Seq(Expectation) /\ \A i \in DOMAIN list' : Sound(list'[i], lastText)
  <2>1. CASE list' = list
    BY <1>4, <2>1 DEF ListOk
  <2>2. CASE kind = "toggle" /\ list' = Updated(list, r)
    <3>1. /\ list' \in Seq(Expectation) /\ DOMAIN list' = DOMAIN list
          /\ \A i \in DOMAIN list : list'[i] = IF list[i].id = r.id
                 THEN UpdatedExpectation(r, list[i]) ELSE list[i]
      BY <1>4, <2>2, UpdatedListIs DEF ListOk, Update
    <3>2. ASSUME NEW i \in DOMAIN list PROVE Sound(list'[i], lastText)
      <4>1. PICK e \in Expectation : e = list[i]
        BY <1>4 DEF ListOk
      <4>2. PICK u : u = UpdatedExpectation(r, e)
        OBVIOUS
      <4>3. u.action = e.action
        BY <1>4, <2>2, <4>2 DEF UpdatedExpectation, Expectation
      <4>4. Sound(e, lastText)
        BY <1>4, <4>1 DEF ListOk
      <4>5. Sound(u, lastText)
        BY <4>3, <4>4 DEF Sound
      <4> QED BY <3>1, <4>1, <4>2, <4>4, <4>5
    <3> QED BY <3>1, <3>2
  <2> QED BY <2>1, <2>2 DEF PageWaits
<1>6. TypeOk'
  BY <1>1, <1>2, <1>3, <1>5 DEF Base, TypeOk, Sensible, cacheVars
<1>7. RequestsOk'
  <2>1. FirstListIsShared(pending)' /\ CleanLists(pending)'
    BY <1>1, <1>2, <1>3 DEF FirstListIsShared, CleanLists, cacheVars
  <2> QED BY <1>2, <2>1 DEF RequestsOk
<1>8. \A e \in Expectation : Sound(e, lastText) => Sound(e, lastText')
  <2>1. \A e \in Expectation : e.action.id \in Nat
    BY DEF Expectation, Action
  <2> QED BY <1>1, <1>4, <2>1 DEF Sound
<1>9. DocumentsOk'
  <2>1. ASSUME NEW p \in Project
        PROVE  Unique(stored'[p]) /\ \A e \in stored'[p] : e.id <= lastId' /\ Sound(e, lastText')
    BY <1>1, <1>8 DEF Base, TypeOk, DocumentsOk
  <2>2. \A i \in DOMAIN list' : Sound(list'[i], lastText')
    BY <1>5, <1>8
  <2>3. target' = target /\ target["action"] \in Nat /\ target["action"] <= lastText /\ open' = open
    BY <1>3 DEF Base, TypeOk, DocumentsOk, Dialog
  <2>4. target'["action"] <= lastText' /\ ("action" \in open' => target'["action"] # None)
    BY <1>1, <1>4, <2>3 DEF Base, DocumentsOk
  <2> QED BY <2>1, <2>2, <2>4 DEF DocumentsOk
<1> QED BY <1>6, <1>7, <1>9 DEF Base

\* What a command says of the list, the selection and the dialogs of the page.
Means(kind, r) ==
  /\ kind = "deleteGroup" =>
       r.members = {list[i].id : i \in {j \in DOMAIN list : list[j].group = r.id}}
  /\ kind = "saveAction" => r.action = target["action"]
  /\ kind = "deleteAction" => \E i \in DOMAIN list : r.action = list[i].action.id
  /\ kind = "addAction" =>
       r.action = New /\ r.id = selected /\ selected \in Ids(list) /\ Selected.action = NoAction
  /\ kind = "toggle" => r.id = selected /\ selected \in Ids(list) /\ r.active = ~Selected.active

PageCommand ==
  \/ HandleCreate \/ HandleDeleteExpectation \/ HandleDeleteGroup \/ HandleSubmitGroup
  \/ HandleToggleGroupActive \/ HandleSave \/ HandleSaveAction \/ HandleDeleteAction
  \/ HandleAddAction \/ HandleToggleActive

LEMMA CommandSent ==
  ASSUME Base, PageCommand
  PROVE  \E kind \in Command : \E r : NewCommand(r, kind) /\ PageWaits(kind, r) /\ Means(kind, r)
<1> USE DEF listVars, dialogVars
<1>1. ASSUME NEW kind \in Command, NEW r, NewCommand(r, kind), Submitted(r.dialog),
             kind \notin {"deleteAction", "addAction", "toggleGroup", "toggle"}
      PROVE  PageWaits(kind, r)
  BY <1>1 DEF PageWaits, Submitted
<1>2. ASSUME NEW kind \in {"deleteAction", "addAction", "toggleGroup"}, NEW r, FromPage
      PROVE  PageWaits(kind, r)
  BY <1>2 DEF PageWaits, FromPage
<1>3. CASE HandleCreate
  <2>1. PICK r : NewCommand(r, "create") /\ Submitted(r.dialog)
    BY <1>3, CreateSent
  <2> QED BY <2>1, <1>1 DEF Means, Command
<1>4. CASE HandleDeleteExpectation
  <2>1. PICK r : NewCommand(r, "delete") /\ Submitted("delete")
    BY <1>4, DeleteSent
  <2>2. r.dialog = "delete"
    BY <2>1 DEF NewCommand, DialogOf
  <2> QED BY <2>1, <2>2, <1>1 DEF Means, Command
<1>5. CASE HandleDeleteGroup
  <2>1. PICK r : /\ NewCommand(r, "deleteGroup") /\ Submitted("deleteGroup")
                 /\ r.members = {list[i].id : i \in {j \in DOMAIN list : list[j].group = r.id}}
    BY <1>5, DeleteGroupSent
  <2>2. r.dialog = "deleteGroup"
    BY <2>1 DEF NewCommand, DialogOf
  <2> QED BY <2>1, <2>2, <1>1 DEF Means, Command
<1>6. CASE HandleSubmitGroup
  <2>1. PICK r : NewCommand(r, "saveGroup") /\ Submitted("group")
    BY <1>6, SaveGroupSent
  <2>2. r.dialog = "group"
    BY <2>1 DEF NewCommand, DialogOf
  <2> QED BY <2>1, <2>2, <1>1 DEF Means, Command
<1>7. CASE HandleToggleGroupActive
  <2>1. PICK r : NewCommand(r, "toggleGroup") /\ FromPage
    BY <1>7, ToggleGroupSent
  <2> QED BY <2>1, <1>2 DEF Means, Command
<1>8. CASE HandleSave
  <2>1. PICK r : NewCommand(r, "edit") /\ r.dialog = "edit" /\ Submitted("edit")
    BY <1>8, EditSent
  <2> QED BY <2>1, <1>1 DEF Means, Command
<1>9. CASE HandleSaveAction
  <2>1. PICK r : /\ NewCommand(r, "saveAction") /\ r.dialog = "action" /\ Submitted("action")
                 /\ r.action = target["action"]
    BY <1>9, SaveActionSent
  <2> QED BY <2>1, <1>1 DEF Means, Command
<1>10. CASE HandleDeleteAction
  <2>1. PICK r : /\ NewCommand(r, "deleteAction") /\ FromPage
                 /\ \E i \in DOMAIN list : r.action = list[i].action.id
    BY <1>10, DeleteActionSent
  <2> QED BY <2>1, <1>2 DEF Means, Command
<1>11. CASE HandleAddAction
  <2>1. PICK r : /\ NewCommand(r, "addAction") /\ FromPage
                 /\ r.action = New /\ r.id = selected
                 /\ selected \in Ids(list) /\ Selected.action = NoAction
    BY <1>11, AddActionSent
  <2> QED BY <2>1, <1>2 DEF Means, Command
<1>12. CASE HandleToggleActive
  <2>1. PICK r : /\ NewCommand(r, "toggle")
                 /\ "switch" \notin saving /\ saving' = saving \cup {"switch"}
                 /\ selected \in Ids(list) /\ r.id = selected /\ r.active = ~Selected.active
                 /\ list' = Updated(list, r)
                 /\ UNCHANGED <<host, project, selected, trusted, aim, cacheVars, open, target, made, lost>>
    BY <1>12, ToggleSent
  <2>2. PageWaits("toggle", r)
    BY <2>1 DEF PageWaits
  <2> QED BY <2>1, <2>2 DEF Means, Command
<1> QED BY <1>3, <1>4, <1>5, <1>6, <1>7, <1>8, <1>9, <1>10, <1>11, <1>12 DEF PageCommand

PageDialog == OpenAdd \/ OpenOnSelected \/ OpenGroup \/ OpenDeleteGroup \/ HandleEditAction

\* A dialog is opened on nothing, on a document, or on an action.
LEMMA DialogOpened ==
  ASSUME Base, PageDialog
  PROVE  \E d \in Dialog, about \in Nat :
           /\ OpenDialog(d, about)
           /\ d # "action" => about <= MaxId
           /\ d = "action" => about # None /\ about <= MaxText /\ about <= lastText
                                /\ \E i \in DOMAIN list : about = list[i].action.id
<1>1. /\ selected \in 0 .. MaxId /\ cached[project] \subseteq Group /\ list \in Seq(Expectation)
      /\ MaxId \in Nat /\ \A i \in DOMAIN list : Sound(list[i], lastText)
  BY ExpectationPageAssumption DEF Base, TypeOk, DocumentsOk
<1>2. CASE OpenAdd
  BY <1>1, <1>2 DEF OpenAdd, Dialog, None
<1>3. CASE OpenOnSelected
  BY <1>1, <1>3 DEF OpenOnSelected, Dialog
<1>4. CASE OpenGroup \/ OpenDeleteGroup
  <2>1. \A g \in cached[project] : g.id \in Nat /\ g.id <= MaxId
    BY <1>1 DEF Group
  <2>2. \E d \in {"group", "deleteGroup"}, g \in {None} \cup {g.id : g \in cached[project]} :
          OpenDialog(d, g)
    BY <1>4 DEF OpenGroup, OpenDeleteGroup
  <2>3. PICK d \in {"group", "deleteGroup"}, g \in Nat : OpenDialog(d, g) /\ g <= MaxId
    BY <1>1, <2>1, <2>2 DEF None
  <2> QED BY <2>3 DEF Dialog
<1>5. CASE HandleEditAction
  <2>1. /\ selected \in Ids(list) /\ Selected.action # NoAction
        /\ OpenDialog("action", Selected.action.id)
    BY <1>5 DEF HandleEditAction
  <2>2. PICK i \in DOMAIN list : Selected = list[i]
    BY <1>1, <2>1, SelectedIs
  <2>3. list[i] \in Expectation /\ Sound(list[i], lastText)
    BY <1>1
  <2>4. list[i].action.id \in 0 .. MaxText
    BY <2>3 DEF Expectation, Action
  <2>5. list[i].action.id # None /\ list[i].action.id <= lastText
    BY <2>1, <2>2, <2>3 DEF Sound
  <2>6. list[i].action.id \in Nat /\ list[i].action.id <= MaxText
    BY <2>4, ExpectationPageAssumption
  <2> QED BY <2>1, <2>2, <2>5, <2>6 DEF Dialog
<1> QED BY <1>2, <1>3, <1>4, <1>5 DEF PageDialog

LEMMA DialogsKeepBase ==
  ASSUME Base, PageDialog \/ Close \/ SelectRow
  PROVE  Base'
<1>1. /\ ListOk /\ SelectionOk /\ CacheOk /\ DialogsOk /\ KeepsRequests(pending)
      /\ project \in Project /\ lastText \in 0 .. MaxText
  BY BaseHas
<1>2. CASE PageDialog
  <2>1. PICK d \in Dialog, about \in Nat :
           /\ OpenDialog(d, about)
           /\ d # "action" => about <= MaxId
           /\ d = "action" => about # None /\ about <= MaxText /\ about <= lastText
    BY <1>2, DialogOpened
  <2>2. /\ UNCHANGED <<host, serverVars, project, listVars, cacheVars, saving, pending>>
        /\ open' = {d} /\ target' = [target EXCEPT ![d] = about]
        /\ made' = [made EXCEPT ![d] = 0] /\ lost' = [lost EXCEPT ![d] = 0]
    BY <2>1 DEF OpenDialog
  <2>3. DialogsOk'
    <3>1. lastText' = lastText
      BY <2>2 DEF serverVars
    <3> QED BY <1>1, <2>1, <2>2, <3>1 DEF DialogsOk, Dialog
  <2>4. ListOk' /\ SelectionOk' /\ CacheOk'
    BY <1>1, <2>2 DEF ListOk, SelectionOk, CacheOk, serverVars, listVars, cacheVars
  <2>5. KeepsRequests(pending')
    BY <1>1, <2>2
  <2> QED BY <1>1, <2>2, <2>3, <2>4, <2>5, PageKeepsBase DEF cacheVars
<1>3. CASE Close
  <2>1. /\ UNCHANGED <<host, serverVars, project, listVars, cacheVars, target, saving, made, lost,
                       pending>>
        /\ open' \subseteq open
    BY <1>3 DEF Close
  <2>2. DialogsOk'
    BY <1>1, <2>1 DEF DialogsOk, serverVars
  <2>3. ListOk' /\ SelectionOk' /\ CacheOk'
    BY <1>1, <2>1 DEF ListOk, SelectionOk, CacheOk, serverVars, listVars, cacheVars
  <2>4. KeepsRequests(pending')
    BY <1>1, <2>1
  <2> QED BY <1>1, <2>1, <2>2, <2>3, <2>4, PageKeepsBase DEF cacheVars
<1>4. CASE SelectRow
  <2>1. /\ UNCHANGED <<host, serverVars, project, list, trusted, cacheVars, dialogVars, pending>>
        /\ selected' \in Ids(list) /\ aim' = None
    BY <1>4 DEF SelectRow
  <2>2. Ids(list) \subseteq 1 .. MaxId
    BY <1>1, IdsAreIds DEF ListOk
  <2>3. SelectionOk'
    BY <1>1, <2>1, <2>2, ExpectationPageAssumption DEF SelectionOk, None
  <2>4. ListOk' /\ DialogsOk' /\ CacheOk'
    BY <1>1, <2>1 DEF ListOk, DialogsOk, CacheOk, serverVars, dialogVars, cacheVars
  <2>5. KeepsRequests(pending')
    BY <1>1, <2>1
  <2> QED BY <1>1, <2>1, <2>3, <2>4, <2>5, PageKeepsBase DEF cacheVars
<1> QED BY <1>2, <1>3, <1>4

\* A query that starts if none of its kind is under way.
Started(kind, p, P) ==
  IF \E r \in P : r.kind = kind /\ r.of = p THEN P
  ELSE P \cup {[Blank(kind, P) EXCEPT !.of = p, !.clean = \A r \in P : r.kind \in Query]}

LEMMA StartedIs ==
  ASSUME project \in Project, NEW p \in Project, NEW kind \in Query, NEW P, KeepsRequests(P),
         lastText \in Nat, NEW n, Unnumbered(n, P), NEW w, w = Started(kind, p, P)
  PROVE  /\ KeepsRequests(w) /\ Commands(w) = Commands(P)
         /\ w = P \/ \E x \in Request : w = P \cup {x}
         /\ Waiting(w) = Waiting(P)
<1>1. CASE \E r \in P : r.kind = kind /\ r.of = p
  BY <1>1 DEF Started
<1>2. CASE ~\E r \in P : r.kind = kind /\ r.of = p
  <2> DEFINE b == Blank(kind, P)
             quiet == \A r \in P : r.kind \in Query
             x == [b EXCEPT !.of = p, !.clean = quiet]
  <2>1. b \in Request /\ Unnumbered(b.no, P)
    BY BlankIsNew
  <2>2. b.kind = kind /\ b.dialog = "page" /\ b.waits = {} /\ b.answered = FALSE /\ b.list = {}
    BY DEF Blank
  <2>3. w = P \cup {x}
    BY <1>2 DEF Started
  <2>4. quiet \in BOOLEAN
    OBVIOUS
  <2>5. quiet => Commands(P) = {}
    BY DEF Commands, Query, Command
  <2> HIDE DEF b, quiet
  <2>6. /\ x \in Request /\ x.no = b.no /\ x.kind = kind /\ x.of = p /\ x.dialog = "page"
        /\ x.waits = {} /\ x.answered = FALSE /\ x.list = {} /\ x.clean = quiet
    BY <2>1, <2>2, <2>4 DEF Request
  <2> HIDE DEF x
  <2>7. Sane(x, lastText)
    BY <2>6 DEF Sane, DialogOf, Query, Command, Unique
  <2>8. /\ P \subseteq Request /\ \A q \in P : Sane(q, lastText)
        /\ \A q, r \in P : q.no = r.no => q = r
        /\ GroupsAreShared(P) /\ FirstListIsShared(P) /\ CleanLists(P)
    BY DEF KeepsRequests, Sensible, OwnNumbers
  <2>9. \A q \in P : q.no # x.no /\ ~(q.kind = kind /\ q.of = p)
    BY <1>2, <2>1, <2>6 DEF Unnumbered
  <2>10. Sensible(w, lastText)
    <3>1. w \subseteq Request /\ \A q \in w : Sane(q, lastText)
      BY <2>3, <2>6, <2>7, <2>8
    <3>2. OwnNumbers(w)
      BY <2>3, <2>8, <2>9 DEF OwnNumbers
    <3> QED BY <3>1, <3>2 DEF Sensible
  <2>11. GroupsAreShared(w) /\ FirstListIsShared(w)
    BY <2>3, <2>6, <2>8, <2>9 DEF GroupsAreShared, FirstListIsShared
  <2>12. Commands(w) = Commands(P) /\ Waiting(w) = Waiting(P)
    BY <2>3, <2>6 DEF Commands, Waiting, Query, Command
  <2>13. CleanLists(w)
    BY <2>3, <2>5, <2>6, <2>8, <2>12 DEF CleanLists
  <2> QED BY <2>3, <2>6, <2>10, <2>11, <2>12, <2>13 DEF KeepsRequests
<1> QED BY <1>1, <1>2

LEMMA TwoNumbers ==
  ASSUME Cardinality(Unused) >= 2
  PROVE  \E a, b : a # b /\ Unnumbered(a, pending) /\ Unnumbered(b, pending)
<1>1. Unused \subseteq 1 .. MaxPending /\ IsFiniteSet(1 .. MaxPending)
  BY FS_Interval, ExpectationPageAssumption DEF Unused
<1>2. IsFiniteSet(Unused) /\ Cardinality(Unused) \in Nat
  BY <1>1, FS_Subset, FS_CardinalityType
<1>3. Unused # {}
  BY <1>2, FS_EmptySet
<1>4. PICK a : a \in Unused
  BY <1>3
<1>5. Unused # {a}
  <2>1. Cardinality({a}) = 1
    BY FS_Singleton
  <2> QED BY <2>1
<1>6. PICK b : b \in Unused /\ b # a
  BY <1>4, <1>5
<1> QED BY <1>4, <1>6 DEF Unused, Unnumbered

LEMMA SwitchIs ==
  ASSUME Base, NEW p \in Project, SwitchProject(p)
  PROVE  /\ KeepsRequests(pending') /\ Commands(pending') = Commands(pending)
         /\ Waiting(pending') = Waiting(pending)
         /\ project' = p /\ trusted' = FALSE /\ aim' = None
         /\ selected' \in 0 .. MaxId /\ open' \subseteq open
         /\ UNCHANGED <<host, serverVars, list, cacheVars, target, saving, made, lost>>
<1> DEFINE F == Started("groups", p, pending)
<1>1. /\ pending' = Started("list", p, F) /\ Cardinality(Unused) >= 2
      /\ project' = p /\ trusted' = FALSE /\ aim' = None
      /\ selected' = Corrected(list, None, p \in loaded) /\ open' \subseteq open
      /\ UNCHANGED <<host, serverVars, list, cacheVars, target, saving, made, lost>>
  BY DEF SwitchProject, Started
<1>2. KeepsRequests(pending) /\ ListOk /\ project \in Project /\ lastText \in Nat
  BY BaseHas
<1>3. selected' \in 0 .. MaxId
  BY <1>1, <1>2, CorrectedIs DEF ListOk
<1>4. PICK a, b : a # b /\ Unnumbered(a, pending) /\ Unnumbered(b, pending)
  BY <1>1, TwoNumbers
<1>5. F = Started("groups", p, pending) /\ "groups" \in Query /\ "list" \in Query
  BY DEF Query
<1> HIDE DEF F
<1>6. KeepsRequests(F) /\ Commands(F) = Commands(pending) /\ Waiting(F) = Waiting(pending)
  BY <1>2, <1>4, <1>5, StartedIs
<1>7. F = pending \/ \E x \in Request : F = pending \cup {x}
  BY <1>2, <1>4, <1>5, StartedIs
<1>8. PICK n : Unnumbered(n, F)
  <2>1. CASE F = pending
    BY <1>4, <2>1
  <2>2. CASE \E x \in Request : F = pending \cup {x}
    <3>1. PICK x \in Request : F = pending \cup {x}
      BY <2>2
    <3>2. CASE x.no # a
      BY <1>4, <3>1, <3>2 DEF Unnumbered
    <3>3. CASE x.no = a
      BY <1>4, <3>1, <3>3 DEF Unnumbered
    <3> QED BY <3>2, <3>3
  <2> QED BY <1>7, <2>1, <2>2
<1>9. PICK w : w = Started("list", p, F)
  OBVIOUS
<1>10. KeepsRequests(w) /\ Commands(w) = Commands(F) /\ Waiting(w) = Waiting(F)
  BY <1>2, <1>5, <1>6, <1>8, <1>9, StartedIs
<1> QED BY <1>1, <1>3, <1>6, <1>9, <1>10

LEMMA SwitchKeepsBase ==
  ASSUME Base, NEW p \in Project, SwitchProject(p)
  PROVE  Base'
<1>1. /\ KeepsRequests(pending') /\ project' = p /\ trusted' = FALSE /\ aim' = None
      /\ selected' \in 0 .. MaxId /\ open' \subseteq open
      /\ UNCHANGED <<host, serverVars, list, cacheVars, target, saving, made, lost>>
  BY SwitchIs
<1>2. ListOk /\ CacheOk /\ DialogsOk
  BY BaseHas
<1>3. ListOk' /\ CacheOk' /\ DialogsOk'
  BY <1>1, <1>2 DEF ListOk, CacheOk, DialogsOk, serverVars, cacheVars
<1>4. SelectionOk'
  <2>1. None \in 0 .. MaxId
    BY ExpectationPageAssumption DEF None
  <2> QED BY <1>1, <2>1 DEF SelectionOk
<1> QED BY <1>1, <1>3, <1>4, PageKeepsBase DEF cacheVars

LEMMA AimIs ==
  ASSUME Base, NEW r \in pending
  PROVE  Aim(r) \in 0 .. MaxId
<1>1. None \in 0 .. MaxId
  BY ExpectationPageAssumption DEF None
<1> QED BY <1>1, RequestHas DEF Aim

\* The switch is thrown back in place.
LEMMA ThrownBackIs ==
  ASSUME Base, NEW r \in pending, NEW w, w = ThrownBack(r)
  PROVE  /\ w \in Seq(Expectation) /\ DOMAIN w = DOMAIN list /\ Ids(w) = Ids(list)
         /\ \A i \in DOMAIN w : Sound(w[i], lastText)
<1>1. r \in Request /\ Sane(r, lastText) /\ ListOk /\ lastText \in Nat
  BY RequestHas, BaseHas
<1>2. CASE r.kind # "toggle"
  BY <1>1, <1>2 DEF ThrownBack, ListOk
<1>3. CASE r.kind = "toggle"
  <2> DEFINE back == ~r.active
             q == [r EXCEPT !.active = back]
  <2>1. w = Updated(list, q)
    BY <1>3 DEF ThrownBack
  <2>2. back \in BOOLEAN
    OBVIOUS
  <2> HIDE DEF back
  <2>3. /\ q \in Request /\ q.kind = "toggle" /\ q.dialog = r.dialog /\ q.waits = r.waits
        /\ q.answered = r.answered /\ q.ok = r.ok /\ q.clean = r.clean /\ q.action = r.action
        /\ q.list = r.list
    BY <1>1, <1>3, <2>2 DEF Request
  <2> HIDE DEF q
  <2>4. Sane(q, lastText)
    BY <1>1, <1>3, <2>3 DEF Sane
  <2>5. q.kind \in {"edit", "toggle"} /\ list \in Seq(Expectation) /\ \A i \in DOMAIN list : Sound(list[i], lastText)
    BY <1>1, <2>3 DEF ListOk
  <2> QED BY <1>1, <2>1, <2>3, <2>4, <2>5, UpdatedListIsSound
<1> QED BY <1>2, <1>3

LEMMA WithoutIsFine ==
  ASSUME ListOk, NEW ids, NEW w, w = Without(list, ids)
  PROVE  w \in Seq(Expectation) /\ \A i \in DOMAIN w : Sound(w[i], lastText)
BY WithoutKeeps DEF ListOk, Keeps

LEMMA CreateAnsweredIs ==
  ASSUME Base, NEW r \in pending, CreateAnswered(r)
  PROVE  /\ KeepsRequests(pending') /\ Commands(pending') = Commands(pending) \ {r}
         /\ Base'
<1>1. /\ ListOk /\ SelectionOk /\ CacheOk /\ DialogsOk /\ project \in Project
      /\ r \in Request /\ r.next \in 0 .. MaxId
  BY BaseHas, RequestHas
<1>2. PICK others : others = pending \ {r}
  OBVIOUS
<1>3. /\ pending' = ListRefetched(others, r.next, TRUE)
      /\ list' = list /\ selected' = Corrected(list, Continued(others, selected), project \in loaded)
      /\ saving' = saving \ {r.dialog} /\ open' \subseteq open
      /\ trusted' = FALSE /\ aim' = Aim(r)
      /\ UNCHANGED <<host, serverVars, project, cacheVars, target, made, lost>>
  BY <1>2 DEF CreateAnswered, Created, Show, Finish, CloseAfter
<1>4. PICK P : P = pending'
  OBVIOUS
<1>5. KeepsRequests(P) /\ Commands(P) = Commands(others)
  <2>1. PICK next \in 0 .. MaxId : next = r.next
    BY <1>1
  <2>2. P = ListRefetched(others, next, TRUE)
    BY <1>3, <1>4, <2>1
  <2>3. KeepsRequests(P)
    BY <1>2, <2>2, RefetchedIsFine
  <2>4. Commands(P) = Commands(others)
    BY <1>2, <2>2, RefetchedIsFine
  <2> QED BY <2>3, <2>4
<1>6. Commands(others) = Commands(pending) \ {r}
  BY <1>2 DEF Commands
<1>7. SelectionOk'
  BY <1>1, <1>3, CorrectedIs, AimIs DEF SelectionOk, ListOk
<1>8. DialogsOk'
  <2>1. lastText' = lastText
    BY <1>3 DEF serverVars
  <2> QED BY <1>1, <1>3, <2>1 DEF DialogsOk
<1>9. ListOk' /\ CacheOk'
  BY <1>1, <1>3 DEF ListOk, CacheOk, serverVars, cacheVars
<1>10. Base'
  BY <1>1, <1>3, <1>4, <1>5, <1>7, <1>8, <1>9, PageKeepsBase DEF cacheVars
<1> QED BY <1>4, <1>5, <1>6, <1>10

LEMMA DeleteAnsweredIs ==
  ASSUME Base, NEW r \in pending, DeleteAnswered(r)
  PROVE  /\ KeepsRequests(pending') /\ Commands(pending') = Commands(pending) \ {r}
         /\ Base'
<1>1. /\ ListOk /\ SelectionOk /\ CacheOk /\ DialogsOk /\ project \in Project
      /\ r \in Request /\ r.next \in 0 .. MaxId
  BY BaseHas, RequestHas
<1>2. PICK others : others = pending \ {r}
  OBVIOUS
<1>3. /\ pending' = ListRefetched(others, r.next, TRUE)
      /\ list' = Without(list, {r.id})
      /\ \E id : selected' = Corrected(list', id, project \in loaded)
      /\ saving' = saving \ {"delete"} /\ open' \subseteq open /\ aim' = Aim(r)
      /\ UNCHANGED <<host, serverVars, project, trusted, cacheVars, target, made, lost>>
  BY <1>2 DEF DeleteAnswered, Show, Finish, CloseAfter, RefetchedAfterDelete
<1>4. PICK P : P = pending'
  OBVIOUS
<1>5. KeepsRequests(P) /\ Commands(P) = Commands(others)
  <2>1. PICK next \in 0 .. MaxId : next = r.next
    BY <1>1
  <2>2. P = ListRefetched(others, next, TRUE)
    BY <1>3, <1>4, <2>1
  <2>3. KeepsRequests(P)
    BY <1>2, <2>2, RefetchedIsFine
  <2>4. Commands(P) = Commands(others)
    BY <1>2, <2>2, RefetchedIsFine
  <2> QED BY <2>3, <2>4
<1>6. Commands(others) = Commands(pending) \ {r}
  BY <1>2 DEF Commands
<1>7. list' \in Seq(Expectation) /\ \A i \in DOMAIN list' : Sound(list'[i], lastText)
  BY <1>1, <1>3, WithoutIsFine
<1>8. SelectionOk'
  BY <1>1, <1>3, <1>7, CorrectedIs, AimIs DEF SelectionOk
<1>9. ListOk' /\ CacheOk' /\ DialogsOk'
  BY <1>1, <1>3, <1>7 DEF ListOk, CacheOk, DialogsOk, serverVars, cacheVars
<1>10. Base'
  BY <1>1, <1>3, <1>4, <1>5, <1>8, <1>9, PageKeepsBase DEF cacheVars
<1> QED BY <1>4, <1>5, <1>6, <1>10

LEMMA GroupsRefetchedIsFine ==
  ASSUME Base, NEW r \in pending, r.kind \in {"deleteGroup", "saveGroup", "toggleGroup"},
         NEW P, P = GroupsRefetched(r)
  PROVE  KeepsRequests(P) /\ Commands(P) = Commands(pending) \ {r}
<1>1. /\ Sensible(pending, lastText) /\ GroupsAreShared(pending) /\ FirstListIsShared(pending)
      /\ CleanLists(pending) /\ project \in Project /\ lastText \in Nat
  BY BaseHas DEF KeepsRequests
<1>2. Sensible(P, lastText)
  BY <1>1, GroupsRefetchedIs
<1>3. Commands(P) = Commands(pending) \ {r}
  BY <1>1, GroupsRefetchedIs
<1>4. CleanLists(P) /\ FirstListIsShared(P) /\ GroupsAreShared(P)
  BY <1>1, GroupsRefetchedIs
<1> QED BY <1>2, <1>3, <1>4 DEF KeepsRequests

LEMMA DeleteGroupAnsweredIs ==
  ASSUME Base, NEW r \in pending, DeleteGroupAnswered(r)
  PROVE  Commands(pending') = Commands(pending) \ {r} /\ Base'
<1>1. /\ ListOk /\ SelectionOk /\ CacheOk /\ DialogsOk /\ project \in Project
  BY BaseHas
<1>2. /\ pending' = GroupsRefetched(r) /\ r.kind = "deleteGroup"
      /\ list' = Without(list, r.members)
      /\ \E id : selected' = Corrected(list', id, project \in loaded)
      /\ saving' \subseteq saving /\ open' \subseteq open
      /\ aim' = IF r.moves THEN Aim(r) ELSE None
      /\ UNCHANGED <<host, serverVars, project, trusted, cacheVars, target, made, lost>>
  BY DEF DeleteGroupAnswered, Show, CloseAfter, Answered, Remaining
<1>3. PICK P : P = pending'
  OBVIOUS
<1>4. KeepsRequests(P) /\ Commands(P) = Commands(pending) \ {r}
  BY <1>2, <1>3, GroupsRefetchedIsFine
<1>5. list' \in Seq(Expectation) /\ \A i \in DOMAIN list' : Sound(list'[i], lastText)
  BY <1>1, <1>2, WithoutIsFine
<1>6. aim' \in 0 .. MaxId
  <2>1. None \in 0 .. MaxId
    BY ExpectationPageAssumption DEF None
  <2> QED BY <1>2, <2>1, AimIs
<1>7. SelectionOk'
  BY <1>1, <1>2, <1>5, <1>6, CorrectedIs DEF SelectionOk
<1>8. ListOk' /\ CacheOk' /\ DialogsOk'
  BY <1>1, <1>2, <1>5 DEF ListOk, CacheOk, DialogsOk, serverVars, cacheVars
<1>9. Base'
  BY <1>1, <1>2, <1>3, <1>4, <1>7, <1>8, PageKeepsBase DEF cacheVars
<1> QED BY <1>3, <1>4, <1>9

LEMMA GroupAnsweredIs ==
  ASSUME Base, NEW r \in pending, GroupAnswered(r)
  PROVE  Commands(pending') = Commands(pending) \ {r} /\ Base'
<1>1. /\ ListOk /\ SelectionOk /\ CacheOk /\ DialogsOk /\ project \in Project
  BY BaseHas
<1>2. /\ pending' = GroupsRefetched(r) /\ r.kind \in {"saveGroup", "toggleGroup"}
      /\ saving' \subseteq saving /\ open' \subseteq open
      /\ UNCHANGED <<host, serverVars, project, listVars, cacheVars, target, made, lost>>
  BY DEF GroupAnswered, Answered
<1>3. PICK P : P = pending'
  OBVIOUS
<1>4. KeepsRequests(P) /\ Commands(P) = Commands(pending) \ {r}
  BY <1>2, <1>3, GroupsRefetchedIsFine
<1>5. SelectionOk' /\ ListOk' /\ CacheOk' /\ DialogsOk'
  BY <1>1, <1>2 DEF SelectionOk, ListOk, CacheOk, DialogsOk, serverVars, cacheVars, listVars
<1>6. Base'
  BY <1>1, <1>2, <1>3, <1>4, <1>5, PageKeepsBase DEF cacheVars
<1> QED BY <1>3, <1>4, <1>6

LEMMA EndedIsFine ==
  ASSUME Base, NEW r \in pending
  PROVE  KeepsRequests(pending \ {r}) /\ Commands(pending \ {r}) = Commands(pending) \ {r}
BY RestIsFine DEF Commands

LEMMA EditAnsweredIs ==
  ASSUME Base, NEW r \in pending, EditAnswered(r)
  PROVE  Commands(pending') = Commands(pending) \ {r} /\ Base'
<1>1. /\ ListOk /\ SelectionOk /\ CacheOk /\ DialogsOk /\ project \in Project
      /\ r \in Request /\ Sane(r, lastText) /\ lastText \in Nat
  BY BaseHas, RequestHas
<1>2. /\ pending' = pending \ {r} /\ r.kind = "edit" /\ list' = Updated(list, r)
      /\ saving' \subseteq saving /\ open' \subseteq open
      /\ UNCHANGED <<host, serverVars, project, selected, trusted, aim, cacheVars, target, made, lost>>
  BY DEF EditAnswered, Answered, Finish
<1>3. list' \in Seq(Expectation) /\ \A i \in DOMAIN list' : Sound(list'[i], lastText)
  BY <1>1, <1>2, UpdatedListIsSound DEF ListOk
<1>4. SelectionOk' /\ ListOk' /\ CacheOk' /\ DialogsOk'
  BY <1>1, <1>2, <1>3 DEF SelectionOk, ListOk, CacheOk, DialogsOk, serverVars, cacheVars
<1>5. KeepsRequests(pending') /\ Commands(pending') = Commands(pending) \ {r}
  BY <1>2, EndedIsFine
<1> QED BY <1>1, <1>2, <1>4, <1>5, PageKeepsBase DEF cacheVars

LEMMA ActionAnsweredIs ==
  ASSUME Base, NEW r \in pending, ActionAnswered(r)
  PROVE  Commands(pending') = Commands(pending) \ {r} /\ Base'
<1>1. /\ ListOk /\ SelectionOk /\ CacheOk /\ DialogsOk /\ project \in Project
      /\ r \in Request /\ Sane(r, lastText) /\ lastText \in Nat
  BY BaseHas, RequestHas
<1>2. /\ pending' = pending \ {r} /\ r.kind \in {"saveAction", "addAction", "deleteAction"}
      /\ list' = ActionChanged(list, r)
      /\ saving' \subseteq saving
      /\ \/ open' \subseteq open /\ target' = target
         \/ /\ r.kind = "addAction" /\ open' = open \cup {"action"}
            /\ target' = [target EXCEPT !["action"] = r.action]
      /\ UNCHANGED <<host, serverVars, project, selected, aim, cacheVars, made, lost>>
  BY DEF ActionAnswered, Answered, Finish
<1>a. trusted' \in BOOLEAN
  <2> DEFINE still == trusted /\ InPlace(r)
                   /\ (r.kind = "addAction" => list[r.index].action = NoAction /\ Alone(r))
  <2>1. trusted' = still
    BY DEF ActionAnswered
  <2> QED BY <2>1
<1>3. list' \in Seq(Expectation) /\ \A i \in DOMAIN list' : Sound(list'[i], lastText)
  BY <1>1, <1>2, ActionChangedIs DEF ListOk
<1>4. DialogsOk'
  <2>1. lastText' = lastText
    BY <1>2 DEF serverVars
  <2>2. CASE open' \subseteq open /\ target' = target
    BY <1>1, <1>2, <2>1, <2>2 DEF DialogsOk
  <2>3. CASE /\ r.kind = "addAction" /\ open' = open \cup {"action"}
             /\ target' = [target EXCEPT !["action"] = r.action]
    <3>1. r.action \in Nat /\ r.action <= MaxText /\ r.action <= lastText /\ r.action # None
      BY <1>1, <2>3 DEF Sane, Command, Request
    <3>2. "action" \in Dialog
      BY DEF Dialog
    <3> QED BY <1>1, <1>2, <2>1, <2>3, <3>1, <3>2 DEF DialogsOk
  <2> QED BY <1>2, <2>2, <2>3
<1>5. SelectionOk' /\ ListOk' /\ CacheOk'
  BY <1>1, <1>2, <1>3, <1>a DEF SelectionOk, ListOk, CacheOk, serverVars, cacheVars
<1>6. KeepsRequests(pending') /\ Commands(pending') = Commands(pending) \ {r}
  BY <1>2, EndedIsFine
<1> QED BY <1>1, <1>2, <1>4, <1>5, <1>6, PageKeepsBase DEF cacheVars

LEMMA ToggleAnsweredIs ==
  ASSUME Base, NEW r \in pending, ToggleAnswered(r)
  PROVE  Commands(pending') = Commands(pending) \ {r} /\ Base'
<1>1. ListOk /\ SelectionOk /\ CacheOk /\ DialogsOk /\ project \in Project
  BY BaseHas
<1>2. /\ pending' = pending \ {r} /\ saving' \subseteq saving
      /\ UNCHANGED <<host, serverVars, project, listVars, cacheVars, open, target, made, lost>>
  BY DEF ToggleAnswered, Finish
<1>3. SelectionOk' /\ ListOk' /\ CacheOk' /\ DialogsOk'
  BY <1>1, <1>2 DEF SelectionOk, ListOk, CacheOk, DialogsOk, serverVars, cacheVars, listVars
<1>4. KeepsRequests(pending') /\ Commands(pending') = Commands(pending) \ {r}
  BY <1>2, EndedIsFine
<1> QED BY <1>1, <1>2, <1>3, <1>4, PageKeepsBase DEF cacheVars

LEMMA RefusedIs ==
  ASSUME Base, NEW r \in pending, Refused(r)
  PROVE  Commands(pending') = Commands(pending) \ {r} /\ Base'
<1>1. ListOk /\ SelectionOk /\ CacheOk /\ DialogsOk /\ project \in Project
  BY BaseHas
<1>2. /\ pending' = pending \ {r} /\ saving' \subseteq saving /\ list' = ThrownBack(r)
      /\ UNCHANGED <<host, serverVars, project, selected, trusted, aim, cacheVars, open, target,
                     made, lost>>
  BY DEF Refused, Reset
<1>3. list' \in Seq(Expectation) /\ \A i \in DOMAIN list' : Sound(list'[i], lastText)
  BY <1>2, ThrownBackIs
<1>4. SelectionOk' /\ ListOk' /\ CacheOk' /\ DialogsOk'
  BY <1>1, <1>2, <1>3 DEF SelectionOk, ListOk, CacheOk, DialogsOk, serverVars, cacheVars
<1>5. KeepsRequests(pending') /\ Commands(pending') = Commands(pending) \ {r}
  BY <1>2, EndedIsFine
<1> QED BY <1>1, <1>2, <1>4, <1>5, PageKeepsBase DEF cacheVars

LEMMA ListArrivesIs ==
  ASSUME Base, NEW r \in pending, ListArrives(r)
  PROVE  Commands(pending') = Commands(pending) /\ Base'
<1>1. /\ ListOk /\ SelectionOk /\ CacheOk /\ DialogsOk /\ project \in Project
      /\ r \in Request /\ Sane(r, lastText) /\ r.of \in Project /\ r.list \subseteq Expectation
      /\ r.clean \in BOOLEAN
  BY BaseHas, RequestHas DEF Request
<1>2. /\ pending' = pending \ {r} /\ r.kind = "list"
      /\ list' = IF r.of = project THEN Newest(r.list) ELSE list
      /\ \E id : selected' = Corrected(list', id, project \in loaded)
      /\ fetched' = fetched \cup {r.of}
      /\ trusted' = IF r.of = project THEN r.clean ELSE trusted
      /\ aim' = None \/ aim' = aim
      /\ UNCHANGED <<host, serverVars, project, cached, loaded, dialogVars>>
  BY DEF ListArrives, Answered, Show
<1>3. list' \in Seq(Expectation) /\ \A i \in DOMAIN list' : Sound(list'[i], lastText)
  <2>1. Shows(Newest(r.list), r.list)
    BY <1>1, NewestShows DEF Sane
  <2>2. \A e \in r.list : Sound(e, lastText)
    BY <1>1 DEF Sane
  <2> QED BY <1>1, <1>2, <2>1, <2>2 DEF Shows, ListOk
<1>4. SelectionOk'
  <2>1. None \in 0 .. MaxId
    BY ExpectationPageAssumption DEF None
  <2>2. selected' \in 0 .. MaxId
    BY <1>2, <1>3, CorrectedIs
  <2> QED BY <1>1, <1>2, <2>1, <2>2 DEF SelectionOk
<1>5. ListOk' /\ CacheOk' /\ DialogsOk'
  BY <1>1, <1>2, <1>3 DEF ListOk, CacheOk, DialogsOk, serverVars, dialogVars
<1>6. KeepsRequests(pending') /\ Commands(pending') = Commands(pending)
  <2>1. Commands(pending) \ {r} = Commands(pending)
    BY <1>2 DEF Commands, Command
  <2> QED BY <1>2, <2>1, EndedIsFine
<1> QED BY <1>1, <1>2, <1>4, <1>5, <1>6, PageKeepsBase

LEMMA AfterGroupsIsFine ==
  ASSUME Base, NEW r \in pending, r.kind = "groups",
         NEW P, P = AfterGroups(r, pending \ {r})
  PROVE  KeepsRequests(P) /\ Commands(P) = Commands(pending)
<1>1. PICK others : others = pending \ {r}
  OBVIOUS
<1>2. Commands(others) = Commands(pending)
  BY <1>1 DEF Commands, Command
<1>3. CASE "deleteGroup" \in r.waits
  <2>1. PICK next \in 0 .. MaxId, moves \in BOOLEAN : next = r.next /\ moves = r.moves
    BY RequestHas
  <2>2. P = ListRefetched(others, next, moves)
    BY <1>1, <1>3, <2>1 DEF AfterGroups
  <2>3. KeepsRequests(P)
    BY <1>1, <2>2, RefetchedIsFine
  <2>4. Commands(P) = Commands(others)
    BY <1>1, <2>2, RefetchedIsFine
  <2> QED BY <1>2, <2>3, <2>4
<1>4. CASE "deleteGroup" \notin r.waits
  <2>1. P = others
    BY <1>1, <1>4 DEF AfterGroups
  <2>2. KeepsRequests(others)
    BY <1>1, EndedIsFine
  <2> QED BY <1>2, <2>1, <2>2
<1> QED BY <1>3, <1>4

LEMMA GroupsArriveIs ==
  ASSUME Base, NEW r \in pending, GroupsArrive(r)
  PROVE  Commands(pending') = Commands(pending) /\ Base'
<1>1. /\ ListOk /\ SelectionOk /\ CacheOk /\ DialogsOk /\ project \in Project
      /\ r \in Request /\ r.of \in Project /\ r.groups \subseteq Group
  BY BaseHas, RequestHas
<1>2. /\ pending' = AfterGroups(r, pending \ {r}) /\ r.kind = "groups"
      /\ cached' = [cached EXCEPT ![r.of] = r.groups] /\ loaded' = loaded \cup {r.of}
      /\ list' = list /\ saving' \subseteq saving
      /\ \E id : selected' = Corrected(list, id, project \in loaded')
      /\ UNCHANGED <<host, serverVars, project, trusted, aim, fetched, open, target, made, lost>>
  BY DEF GroupsArrive, Answered, Reset
<1>3. SelectionOk'
  BY <1>1, <1>2, CorrectedIs DEF SelectionOk, ListOk
<1>4. ListOk' /\ CacheOk' /\ DialogsOk'
  BY <1>1, <1>2 DEF ListOk, CacheOk, DialogsOk, serverVars
<1>5. PICK P : P = pending'
  OBVIOUS
<1>6. KeepsRequests(P) /\ Commands(P) = Commands(pending)
  BY <1>2, <1>5, AfterGroupsIsFine
<1> QED BY <1>1, <1>2, <1>3, <1>4, <1>5, <1>6, PageKeepsBase

LEMMA FailsIs ==
  ASSUME Base, NEW r \in pending, Fails(r)
  PROVE  Commands(pending') = Commands(pending) \ {r} /\ Base'
<1>1. ListOk /\ SelectionOk /\ CacheOk /\ DialogsOk /\ project \in Project
  BY BaseHas
<1>2. /\ pending' = IF r.kind = "groups" THEN AfterGroups(r, pending \ {r}) ELSE pending \ {r}
      /\ saving' \subseteq saving /\ list' = ThrownBack(r)
      /\ \E id : selected' = Corrected(list', id, project \in loaded)
      /\ aim' = None \/ aim' = aim
      /\ UNCHANGED <<host, serverVars, project, cacheVars, open, target, made>>
  BY DEF Fails, Reset, Show
<1>l. lost' \in [Dialog -> Nat]
  <2>1. lost \in [Dialog -> Nat]
    BY <1>1 DEF DialogsOk
  <2>2. CASE lost' = lost
    BY <2>1, <2>2
  <2>3. CASE lost' # lost
    <3>1. r.kind = "create" /\ lost' = [lost EXCEPT ![r.dialog] = @ + 1]
      BY <2>3 DEF Fails
    <3>2. r.dialog \in Dialog
      BY <3>1, RequestHas DEF Sane, DialogOf, Dialog
    <3> QED BY <2>1, <3>1, <3>2
  <2> QED BY <2>2, <2>3
<1>3. list' \in Seq(Expectation) /\ \A i \in DOMAIN list' : Sound(list'[i], lastText)
  BY <1>2, ThrownBackIs
<1>4. trusted' \in BOOLEAN
  <2> DEFINE still == trusted /\ (r.kind \in Query \/ ~r.answered)
  <2>1. trusted' = still
    BY DEF Fails
  <2> QED BY <2>1
<1>5. SelectionOk'
  <2>1. None \in 0 .. MaxId
    BY ExpectationPageAssumption DEF None
  <2>2. selected' \in 0 .. MaxId
    BY <1>2, <1>3, CorrectedIs
  <2> QED BY <1>1, <1>2, <1>4, <2>1, <2>2 DEF SelectionOk
<1>6. ListOk' /\ CacheOk' /\ DialogsOk'
  BY <1>1, <1>2, <1>3, <1>l DEF ListOk, CacheOk, DialogsOk, serverVars, cacheVars
<1>7. PICK P : P = pending'
  OBVIOUS
<1>8. KeepsRequests(P) /\ Commands(P) = Commands(pending) \ {r}
  <2>1. CASE r.kind = "groups"
    <3>1. r \notin Commands(pending)
      BY <2>1 DEF Commands, Command
    <3> QED BY <1>2, <1>7, <2>1, <3>1, AfterGroupsIsFine
  <2>2. CASE r.kind # "groups"
    BY <1>2, <1>7, <2>2, EndedIsFine
  <2> QED BY <2>1, <2>2
<1> QED BY <1>1, <1>2, <1>5, <1>6, <1>7, <1>8, PageKeepsBase DEF cacheVars

-----------------------------------------------------------------------------
(* The steps of both builds.                                               *)

\* The copy of the page has the same handlers, and the main process answers
\* as the back end does.
PageStep ==
  \/ PageCommand \/ PageDialog \/ Close \/ SelectRow
  \/ \E p \in Project : SwitchProject(p)
  \/ \E r \in pending : Serve(r) \/ Arrives(r) \/ Fails(r)

LEMMA IpcServes ==
  ASSUME NEW r, IpcHandle(r)
  PROVE  Serve(r)
<1>1. CASE r.kind \in Query
  <2>1. ServeQuery(r)
    BY <1>1 DEF IpcHandle, IpcQuery, IpcCreateExpectation, IpcUpdateExpectation,
       IpcDeleteExpectation, IpcAction, IpcSaveGroup, IpcDeleteGroup, Query
  <2> QED BY <1>1, <2>1 DEF IpcHandle, Serve
<1>2. CASE r.kind \notin Query
  <2>1. ServeCommand(r)
    BY <1>2 DEF IpcHandle, IpcQuery, IpcCreateExpectation, IpcUpdateExpectation,
       IpcDeleteExpectation, IpcAction, IpcSaveGroup, IpcDeleteGroup, ServeCommand
  <2> QED BY <1>2, <2>1 DEF IpcHandle, Serve
<1> QED BY <1>1, <1>2

LEMMA NextIs ==
  ASSUME Next
  PROVE  PageStep
<1>1. CASE \E kind \in Kind \ {"fail"} :
             Spend(kind) /\ IF host = "web" THEN Web(kind) ELSE Desktop(kind)
  <2>1. PICK kind \in Kind \ {"fail"} : IF host = "web" THEN Web(kind) ELSE Desktop(kind)
    BY <1>1
  <2>2. Web(kind) => PageStep
    BY DEF Web, PageStep, PageCommand
  <2>3. Desktop(kind) => Web(kind)
    BY DEF Desktop, Web, DesktopHandleCreate, DesktopHandleDeleteExpectation,
       DesktopHandleDeleteGroup, DesktopHandleSubmitGroup, DesktopHandleToggleGroupActive,
       DesktopHandleSave, DesktopHandleSaveAction, DesktopHandleDeleteAction,
       DesktopHandleAddAction, DesktopHandleToggleActive, DesktopSelectRow, DesktopSwitchProject
  <2> QED BY <2>1, <2>2, <2>3
<1>2. CASE \E r \in pending : Fails(r)
  BY <1>2 DEF PageStep
<1>3. CASE Dialogs
  BY <1>3 DEF Dialogs, DesktopDialogs, DesktopHandleEditAction, PageStep, PageDialog
<1>4. CASE \E r \in pending : Ends(r)
  <2>1. PICK r \in pending : Ends(r)
    BY <1>4
  <2>2. DesktopArrives(r) => Arrives(r)
    BY DEF DesktopArrives, Arrives, DesktopCreateAnswered, DesktopDeleteAnswered,
       DesktopDeleteGroupAnswered, DesktopGroupAnswered, DesktopEditAnswered,
       DesktopActionAnswered, DesktopToggleAnswered, DesktopListArrives, DesktopGroupsArrive
  <2>3. Serve(r) \/ Arrives(r)
    BY <2>1, <2>2, IpcServes DEF Ends
  <2> QED BY <2>3 DEF PageStep
<1> QED BY <1>1, <1>2, <1>3, <1>4 DEF Next

\* What becomes of the commands under way when an answer has arrived.
LEMMA ArrivalIs ==
  ASSUME Base, NEW r \in pending, Arrives(r) \/ Fails(r)
  PROVE  Commands(pending') = Commands(pending) \ {r} /\ Base'
<1>1. r.kind \in Query => Commands(pending) \ {r} = Commands(pending)
  BY DEF Commands, Query, Command
<1>2. CASE CreateAnswered(r)
  BY <1>2, CreateAnsweredIs
<1>3. CASE DeleteAnswered(r)
  BY <1>3, DeleteAnsweredIs
<1>4. CASE DeleteGroupAnswered(r)
  BY <1>4, DeleteGroupAnsweredIs
<1>5. CASE GroupAnswered(r)
  BY <1>5, GroupAnsweredIs
<1>6. CASE EditAnswered(r)
  BY <1>6, EditAnsweredIs
<1>7. CASE ActionAnswered(r)
  BY <1>7, ActionAnsweredIs
<1>8. CASE ToggleAnswered(r)
  BY <1>8, ToggleAnsweredIs
<1>9. CASE Refused(r)
  BY <1>9, RefusedIs
<1>10. CASE ListArrives(r)
  <2>1. r.kind \in Query
    BY <1>10 DEF ListArrives, Answered, Query
  <2> QED BY <1>1, <1>10, <2>1, ListArrivesIs
<1>11. CASE GroupsArrive(r)
  <2>1. r.kind \in Query
    BY <1>11 DEF GroupsArrive, Answered, Query
  <2> QED BY <1>1, <1>11, <2>1, GroupsArriveIs
<1>12. CASE Fails(r)
  BY <1>12, FailsIs
<1> QED BY <1>2, <1>3, <1>4, <1>5, <1>6, <1>7, <1>8, <1>9, <1>10, <1>11, <1>12 DEF Arrives

LEMMA StepKeepsBase ==
  ASSUME Base, PageStep
  PROVE  Base'
<1>1. CASE PageCommand
  <2>1. PICK kind \in Command : \E r : NewCommand(r, kind) /\ PageWaits(kind, r)
    BY <1>1, CommandSent
  <2> QED BY <2>1, SendKeepsBase
<1>2. CASE PageDialog \/ Close \/ SelectRow
  BY <1>2, DialogsKeepBase
<1>3. CASE \E p \in Project : SwitchProject(p)
  BY <1>3, SwitchKeepsBase
<1>4. CASE \E r \in pending : Serve(r)
  BY <1>4, ServeKeepsBase
<1>5. CASE \E r \in pending : Arrives(r) \/ Fails(r)
  BY <1>5, ArrivalIs
<1> QED BY <1>1, <1>2, <1>3, <1>4, <1>5 DEF PageStep

LEMMA StutterKeepsBase ==
  ASSUME Base, UNCHANGED vars
  PROVE  Base'
<1>1. /\ UNCHANGED <<host, serverVars, project, listVars, cacheVars, dialogVars, pending>>
  BY DEF vars
<1>2. /\ ListOk /\ SelectionOk /\ CacheOk /\ DialogsOk /\ KeepsRequests(pending)
      /\ project \in Project
  BY BaseHas
<1>3. ListOk' /\ SelectionOk' /\ CacheOk' /\ DialogsOk'
  BY <1>1, <1>2 DEF ListOk, SelectionOk, CacheOk, DialogsOk, serverVars, listVars, cacheVars,
     dialogVars
<1> QED BY <1>1, <1>2, <1>3, PageKeepsBase DEF cacheVars

\* The two queries of a page that was just opened.
LEMMA FirstQueries ==
  ASSUME Init
  PROVE  \E x, y \in Request :
           /\ pending = {x, y} /\ x.no = 1 /\ y.no = 2 /\ x.kind = "list" /\ y.kind = "groups"
           /\ \A r \in {x, y} : /\ r.of = project /\ r.dialog = "page" /\ r.waits = {}
                                /\ r.answered = FALSE /\ r.list = {}
<1> DEFINE b == Blank("list", {})
           g == Blank("groups", {})
           x == [b EXCEPT !.clean = TRUE]
           y == [g EXCEPT !.no = 2]
<1>1. pending = {x, y} /\ project \in Project /\ 1 \in 1 .. MaxPending /\ 2 \in 1 .. MaxPending
  BY ExpectationPageAssumption DEF Init
<1>2. Unnumbered(1, {})
  BY <1>1 DEF Unnumbered
<1>3. b \in Request /\ b.no = 1
  <2>1. b \in Request
    BY <1>1, <1>2, BlankIsNew DEF Query
  <2>2. b.no <= 1
    BY <1>1, <1>2, BlankIsNew DEF Query
  <2>3. b.no \in 1 .. MaxPending
    BY <2>1 DEF Request
  <2> QED BY <2>1, <2>2, <2>3
<1>4. g \in Request
  BY <1>1, <1>2, BlankIsNew DEF Query
<1>5. /\ b.kind = "list" /\ b.of = project /\ b.dialog = "page" /\ b.waits = {}
      /\ b.answered = FALSE /\ b.list = {}
      /\ g.kind = "groups" /\ g.of = project /\ g.dialog = "page" /\ g.waits = {}
      /\ g.answered = FALSE /\ g.list = {}
  BY DEF Blank
<1> HIDE DEF b, g
<1>6. /\ x \in Request /\ x.no = 1 /\ x.kind = "list" /\ x.of = project /\ x.dialog = "page"
      /\ x.waits = {} /\ x.answered = FALSE /\ x.list = {}
  BY <1>3, <1>5 DEF Request
<1>7. /\ y \in Request /\ y.no = 2 /\ y.kind = "groups" /\ y.of = project /\ y.dialog = "page"
      /\ y.waits = {} /\ y.answered = FALSE /\ y.list = {}
  BY <1>1, <1>4, <1>5 DEF Request
<1> HIDE DEF x, y
<1> QED BY <1>1, <1>6, <1>7

LEMMA InitHasBase ==
  ASSUME Init
  PROVE  Base
<1>1. PICK x \in Request, y \in Request :
        /\ pending = {x, y} /\ x.no = 1 /\ y.no = 2 /\ x.kind = "list" /\ y.kind = "groups"
        /\ \A r \in {x, y} : /\ r.of = project /\ r.dialog = "page" /\ r.waits = {}
                             /\ r.answered = FALSE /\ r.list = {}
  BY FirstQueries
<1>2. /\ host \in {"web", "desktop"} /\ project = First /\ First \in Project
      /\ lastId = 4 /\ lastText = 0 /\ list = <<>> /\ selected = None
      /\ cached = [p \in Project |-> {}] /\ loaded = {} /\ fetched = {}
      /\ open = {} /\ saving = {}
      /\ target = [d \in Dialog |-> None] /\ made = [d \in Dialog |-> 0]
      /\ lost = [d \in Dialog |-> 0]
      /\ trusted = FALSE /\ aim = None
      /\ groups = [p \in Project |->
           IF p = project THEN {[id |-> 1, text |-> 0, active |-> TRUE]} ELSE {}]
  BY ExpectationPageAssumption DEF Init
<1>3. PICK group \in {None, 1} :
        stored = [p \in Project |-> IF p = project THEN {Document(2, 1), Document(3, group)}
                                    ELSE {Document(4, None)}]
  BY DEF Init
<1>4. \A id \in 1 .. 4, g \in {None, 1} :
        /\ Document(id, g) \in Expectation /\ Document(id, g).id = id
        /\ Sound(Document(id, g), lastText)
  <2>1. /\ NoAction \in Action /\ 0 \in 0 .. MaxText /\ NoAction.id = 0
        /\ \A id \in 1 .. 4 : id \in 1 .. MaxId
        /\ \A g \in {None, 1} : g \in 0 .. MaxId
    BY ExpectationPageAssumption DEF NoAction, Action, None
  <2> SUFFICES ASSUME NEW id \in 1 .. 4, NEW g \in {None, 1}
               PROVE  /\ Document(id, g) \in Expectation /\ Document(id, g).id = id
                      /\ Sound(Document(id, g), lastText)
    OBVIOUS
  <2>2. Document(id, g) = [id |-> id, group |-> g, text |-> 0, active |-> TRUE,
                           action |-> NoAction]
    BY DEF Document
  <2>3. Document(id, g) \in Expectation
    BY <2>1, <2>2 DEF Expectation
  <2>4. Document(id, g).id = id /\ Document(id, g).action = NoAction
    BY <2>2
  <2> QED BY <2>1, <2>3, <2>4, <1>2 DEF Sound, None
<1>5. ASSUME NEW p \in Project
      PROVE  /\ stored[p] \subseteq Expectation /\ Unique(stored[p])
             /\ \A e \in stored[p] : e.id <= lastId /\ Sound(e, lastText)
  <2>1. \A e \in stored[p] : \E id \in 1 .. 4, g \in {None, 1} : e = Document(id, g)
    BY <1>3 DEF None
  <2>2. Unique(stored[p])
    <3>1. CASE p = project
      <4>1. stored[p] = {Document(2, 1), Document(3, group)}
        BY <1>3, <3>1
      <4>2. Document(2, 1).id = 2 /\ Document(3, group).id = 3
        BY <1>4
      <4> QED BY <4>1, <4>2 DEF Unique
    <3>2. CASE p # project
      BY <1>3, <3>2 DEF Unique
    <3> QED BY <3>1, <3>2
  <2> QED BY <1>2, <1>4, <2>1, <2>2
<1>6. stored \in [Project -> SUBSET Expectation]
  BY <1>3, <1>5
<1>7. groups \in [Project -> SUBSET Group]
  <2>1. [id |-> 1, text |-> 0, active |-> TRUE] \in Group
    BY ExpectationPageAssumption DEF Group
  <2> QED BY <1>2, <2>1
<1>8. TypeOk
  <2>1. /\ 0 \in 0 .. MaxId /\ 4 \in 0 .. MaxId /\ 0 \in 0 .. MaxText
        /\ 0 <= MaxId /\ 0 <= MaxText /\ pending \subseteq Request
    BY <1>1, ExpectationPageAssumption
  <2>2. /\ target \in [Dialog -> Nat] /\ made \in [Dialog -> Nat] /\ lost \in [Dialog -> Nat]
        /\ \A d \in Dialog : target[d] = 0
    BY <1>2 DEF None
  <2>3. "action" \in Dialog
    BY DEF Dialog
  <2>4. list \in Seq(Expectation)
    BY <1>2
  <2>5. cached \in [Project -> SUBSET Group] /\ loaded \subseteq Project /\ fetched \subseteq Project
    BY <1>2
  <2>6. /\ open \subseteq Dialog /\ saving \subseteq Dialog \cup {"switch"} /\ project \in Project
        /\ host \in {"web", "desktop"} /\ trusted \in BOOLEAN
    BY <1>2
  <2>7. lastId \in 0 .. MaxId /\ lastText \in 0 .. MaxText /\ selected \in 0 .. MaxId /\ aim \in 0 .. MaxId
    BY <1>2, <2>1 DEF None
  <2>8. target["action"] <= MaxText /\ \A d \in Dialog \ {"action"} : target[d] <= MaxId
    BY <2>1, <2>2, <2>3
  <2> QED BY <1>6, <1>7, <2>1, <2>2, <2>4, <2>5, <2>6, <2>7, <2>8 DEF TypeOk
<1>9. RequestsOk
  <2>1. \A r \in pending : Sane(r, lastText)
    BY <1>1 DEF Sane, DialogOf, Command, Unique
  <2>2. Sensible(pending, lastText)
    BY <1>1, <2>1 DEF Sensible, OwnNumbers
  <2>3. Commands(pending) = {}
    BY <1>1 DEF Commands, Command
  <2>4. GroupsAreShared(pending) /\ FirstListIsShared(pending) /\ CleanLists(pending)
    BY <1>1, <2>3 DEF GroupsAreShared, FirstListIsShared, CleanLists
  <2> QED BY <2>2, <2>4 DEF RequestsOk
<1>10. DocumentsOk
  <2>1. target["action"] = 0 /\ DOMAIN list = {}
    BY <1>2 DEF Dialog, None
  <2> QED BY <1>2, <1>5, <2>1 DEF DocumentsOk
<1> QED BY <1>8, <1>9, <1>10 DEF Base

\* The page, the server and what is under way between them have their types,
\* whatever is done on the page and however its requests end.
THEOREM ExpectationPageTypeCorrect == Spec => []TypeOk
<1>1. PageInit => Base
  BY InitHasBase DEF PageInit
<1>2. Base /\ [Next]_pageVars => Base'
  BY NextIs, StepKeepsBase, StutterKeepsBase DEF pageVars
<1>3. Base => TypeOk
  BY DEF Base
<1> QED BY <1>1, <1>2, <1>3, PTL DEF Spec

-----------------------------------------------------------------------------
(* Who waits for a command, and what has been created.                     *)

\* What is disabled until a command ends.
Busy(r) ==
  CASE r.kind = "toggle" -> {"switch"}
    [] r.kind \in {"create", "edit", "saveAction"} -> {r.dialog}
    [] OTHER -> {}

BusyOk ==
  /\ \A r \in Commands(pending) : Busy(r) \subseteq saving
  /\ \A q, r \in Commands(pending) : Busy(q) \cap Busy(r) # {} => q = r

\* A creation of a dialog that was handled, and one that was not.
Handled(d) ==
  \E r \in Commands(pending) : r.kind = "create" /\ r.dialog = d /\ r.answered /\ r.ok
Unhandled(d) ==
  \E r \in Commands(pending) : r.kind = "create" /\ r.dialog = d /\ ~r.answered

\* What was stored for a dialog closed it, its answer will, or that answer was
\* lost; nothing else is under way there.
CreateOk ==
  \A d \in Dialog :
    /\ made[d] <= 1 + lost[d]
    /\ made[d] > lost[d] => d \in {"add", "clone"} /\ (d \notin open \/ Handled(d))
    /\ Unhandled(d) => made[d] <= lost[d]

OnceInv == Base /\ BusyOk /\ CreateOk

Quick == {"delete", "deleteGroup", "group", "page"}

LEMMA BusyIs ==
  ASSUME Base, NEW r \in Commands(pending)
  PROVE  /\ r \in pending /\ Busy(r) \cap Quick = {}
         /\ r.dialog \in {"add", "clone"} => r.kind = "create" /\ Busy(r) = {r.dialog}
         /\ r.dialog \in Busy(r) \cup Quick
<1>1. r \in pending /\ r.kind \in Command /\ r.dialog \in DialogOf(r.kind)
  BY RequestHas DEF Commands, Sane
<1> QED BY <1>1 DEF DialogOf, Busy, Quick, Command

\* A dialog has one creation under way.
LEMMA CreatesAlone ==
  ASSUME Base, BusyOk, NEW q \in Commands(pending), NEW r \in Commands(pending),
         q.kind = "create", r.kind = "create", q.dialog = r.dialog
  PROVE  q = r
<1>1. Busy(q) = {q.dialog} /\ Busy(r) = {r.dialog}
  BY DEF Busy
<1> QED BY <1>1 DEF BusyOk

LEMMA ArrivalFrees ==
  ASSUME Base, NEW r \in pending, Arrives(r) \/ Fails(r)
  PROVE  saving \ saving' \subseteq Busy(r) \cup Quick
<1>1. Waited({r}) \subseteq Quick /\ Waited(Cancelled) \subseteq Quick
  BY DEF Waited, Quick
<1>2. r.dialog \in DialogOf(r.kind)
  BY RequestHas DEF Sane
<1>3. ASSUME Reset(r) PROVE saving \ saving' \subseteq Busy(r) \cup Quick
  <2>1. CASE r.kind \in Query
    BY <1>1, <1>3, <2>1 DEF Reset, Query
  <2>2. CASE r.kind \in Command
    <3>1. r.dialog \in Busy(r) \cup Quick
      BY <2>2, BusyIs DEF Commands
    <3>2. r.kind = "toggle" => Busy(r) = {"switch"}
      BY DEF Busy
    <3> QED BY <1>3, <2>2, <3>1, <3>2 DEF Reset, Query, Command
  <2> QED BY <2>1, <2>2, RequestHas DEF Request
<1>4. CASE CreateAnswered(r)
  BY <1>4 DEF CreateAnswered, Created, Finish, Answered, Busy
<1>5. CASE DeleteAnswered(r)
  BY <1>5 DEF DeleteAnswered, Finish, Quick
<1>6. CASE DeleteGroupAnswered(r) \/ GroupAnswered(r)
  BY <1>1, <1>6 DEF DeleteGroupAnswered, GroupAnswered, Quick
<1>7. CASE EditAnswered(r)
  BY <1>2, <1>7 DEF EditAnswered, Finish, Answered, Busy, DialogOf
<1>8. CASE ActionAnswered(r)
  <2>1. saving' # saving => r.kind = "saveAction" /\ saving' = saving \ {"action"}
    BY <1>8 DEF ActionAnswered, Finish, Answered
  <2> QED BY <1>2, <2>1 DEF Busy, DialogOf
<1>9. CASE ToggleAnswered(r)
  BY <1>9 DEF ToggleAnswered, Finish, Answered, Busy
<1>10. CASE Refused(r) \/ GroupsArrive(r) \/ Fails(r)
  BY <1>3, <1>10 DEF Refused, GroupsArrive, Fails
<1>11. CASE ListArrives(r)
  BY <1>11 DEF ListArrives, dialogVars
<1> QED BY <1>4, <1>5, <1>6, <1>7, <1>8, <1>9, <1>10, <1>11 DEF Arrives

LEMMA ArrivalOpens ==
  ASSUME NEW r \in pending, Arrives(r) \/ Fails(r), ~CreateAnswered(r)
  PROVE  /\ made' = made /\ open' \subseteq open \cup {"action"}
         /\ lost' = lost \/ Fails(r)
<1>1. CASE DeleteAnswered(r)
  BY <1>1 DEF DeleteAnswered, CloseAfter
<1>2. CASE DeleteGroupAnswered(r)
  BY <1>2 DEF DeleteGroupAnswered, CloseAfter
<1>3. CASE GroupAnswered(r) \/ EditAnswered(r) \/ ToggleAnswered(r)
  BY <1>3 DEF GroupAnswered, EditAnswered, ToggleAnswered
<1>4. CASE ActionAnswered(r)
  BY <1>4 DEF ActionAnswered
<1>5. CASE Refused(r) \/ ListArrives(r) \/ GroupsArrive(r) \/ Fails(r)
  BY <1>5 DEF Refused, ListArrives, GroupsArrive, Fails, dialogVars
<1> QED BY <1>1, <1>2, <1>3, <1>4, <1>5 DEF Arrives

\* What the server makes of a command under way.
LEMMA ServedCommands ==
  ASSUME Base, NEW r \in pending, Serve(r)
  PROVE  \E s : /\ Answers(s, r) /\ pending' = (pending \ {r}) \cup {s}
                /\ AnswersWith(r, s.ok) /\ (r.kind = "create" => s.ok)
                /\ Commands(pending') = (Commands(pending) \ {r}) \cup
                     (IF r.kind \in Command THEN {s} ELSE {})
                /\ SameQueries(pending', pending)
<1>1. Served(r)
  BY ServeIs
<1>2. PICK ok \in BOOLEAN : AnswersWith(r, ok) /\ (r.kind \in Query \cup {"create"} => ok)
  BY <1>1 DEF Served, ServedQuery, ServedCreate, ServedUpdate, ServedDelete, ServedGroup,
              ServedDeleteGroup, RefusedByServer, Query, Command
<1>3. PICK s : Answers(s, r) /\ s.ok = ok /\ pending' = (pending \ {r}) \cup {s}
  BY <1>2 DEF AnswersWith
<1>4. r.kind \in Query \cup {"create"} => s.ok
  BY <1>2, <1>3
<1>5. Commands(pending') = (Commands(pending) \ {r}) \cup (IF r.kind \in Command THEN {s} ELSE {})
  BY <1>1, <1>3, <1>4, ServedRequests
<1>6. SameQueries(pending', pending)
  BY <1>1, <1>3, <1>4, ServedRequests
<1> QED BY <1>2, <1>3, <1>4, <1>5, <1>6

LEMMA StepKeepsOnce ==
  ASSUME OnceInv, PageStep
  PROVE  OnceInv'
<1>1. Base /\ BusyOk /\ CreateOk /\ Base'
  BY StepKeepsBase DEF OnceInv
<1>2. CASE PageCommand
  <2>1. PICK kind \in Command : \E r : NewCommand(r, kind) /\ PageWaits(kind, r)
    BY <1>1, <1>2, CommandSent
  <2>2. PICK r : NewCommand(r, kind) /\ PageWaits(kind, r)
    BY <2>1
  <2>3. Commands(pending') = Commands(pending) \cup {r}
    BY <1>1, <2>2, SendIs
  <2>4. /\ r.kind = kind /\ r.dialog \in DialogOf(kind) /\ open' = open
        /\ made' = made /\ lost' = lost
    BY <2>2 DEF NewCommand, PageWaits
  <2>5. saving \subseteq saving' /\ Busy(r) \subseteq saving' \ saving
    BY <2>2, <2>4 DEF PageWaits, Busy
  <2>6. BusyOk'
    BY <1>1, <2>3, <2>5 DEF BusyOk
  <2>8. CreateOk'
    <3> SUFFICES ASSUME NEW d \in Dialog
                 PROVE  /\ made[d] <= 1 + lost[d]
                        /\ made[d] > lost[d] =>
                             d \in {"add", "clone"} /\ (d \notin open \/ Handled(d)')
                        /\ Unhandled(d)' => made[d] <= lost[d]
      BY <2>4 DEF CreateOk
    <3>1. Handled(d) => Handled(d)'
      BY <2>3 DEF Handled
    <3>2. Unhandled(d)' => Unhandled(d) \/ (r.kind = "create" /\ r.dialog = d)
      BY <2>3 DEF Unhandled
    <3>3. ASSUME r.kind = "create", r.dialog = d PROVE made[d] <= lost[d]
      <4>1. d \in open /\ d \notin saving
        BY <2>2, <2>4, <2>5, <3>3 DEF PageWaits, Busy
      <4>2. ~Handled(d)
        BY <1>1, <4>1 DEF Handled, BusyOk, Busy
      <4>3. made[d] \in Nat /\ lost[d] \in Nat
        BY <1>1 DEF Base, TypeOk
      <4> QED BY <1>1, <4>1, <4>2, <4>3 DEF CreateOk
    <3> QED BY <1>1, <3>1, <3>2, <3>3 DEF CreateOk
  <2> QED BY <1>1, <2>6, <2>8 DEF OnceInv
<1>3. CASE PageDialog
  <2>1. PICK d \in Dialog, about \in Nat : OpenDialog(d, about)
    BY <1>1, <1>3, DialogOpened
  <2>2. /\ open' = {d} /\ saving' = saving /\ pending' = pending
        /\ made' = [made EXCEPT ![d] = 0] /\ lost' = [lost EXCEPT ![d] = 0]
    BY <2>1 DEF OpenDialog
  <2>3. BusyOk'
    BY <1>1, <2>2 DEF BusyOk
  <2>4. \A x \in Dialog : /\ made'[x] = IF x = d THEN 0 ELSE made[x]
                          /\ lost'[x] = IF x = d THEN 0 ELSE lost[x]
    BY <1>1, <2>2 DEF Base, TypeOk
  <2>5. CreateOk'
    <3>1. \A x \in Dialog : (Handled(x) <=> Handled(x)') /\ (Unhandled(x) <=> Unhandled(x)')
      BY <2>2 DEF Handled, Unhandled
    <3>2. \A x \in Dialog : x # d => x \notin open'
      BY <2>2
    <3> QED BY <1>1, <2>4, <3>1, <3>2 DEF CreateOk
  <2> QED BY <1>1, <2>3, <2>5 DEF OnceInv
<1>4. CASE Close \/ SelectRow \/ \E p \in Project : SwitchProject(p)
  <2>1. Commands(pending') = Commands(pending)
    BY <1>1, <1>4, SwitchIs DEF Close, SelectRow
  <2>2. open' \subseteq open /\ saving' = saving /\ made' = made /\ lost' = lost
    BY <1>4 DEF Close, SelectRow, SwitchProject, dialogVars
  <2>3. BusyOk'
    BY <1>1, <2>1, <2>2 DEF BusyOk
  <2>4. CreateOk'
    <3>1. \A x \in Dialog : (Handled(x) <=> Handled(x)') /\ (Unhandled(x) <=> Unhandled(x)')
      BY <2>1 DEF Handled, Unhandled
    <3> QED BY <1>1, <2>2, <3>1 DEF CreateOk
  <2> QED BY <1>1, <2>3, <2>4 DEF OnceInv
<1>5. CASE \E r \in pending : Serve(r)
  <2>1. PICK r \in pending : Serve(r)
    BY <1>5
  <2>2. PICK s : /\ Answers(s, r) /\ (r.kind = "create" => s.ok)
                 /\ Commands(pending') = (Commands(pending) \ {r}) \cup
                      (IF r.kind \in Command THEN {s} ELSE {})
    BY <1>1, <2>1, ServedCommands
  <2>3. s.kind = r.kind /\ s.dialog = r.dialog /\ Busy(s) = Busy(r) /\ s.answered
    BY <2>2 DEF Answers, Busy
  <2>4. /\ saving' = saving /\ lost' = lost /\ open' = open /\ ~r.answered
        /\ made' = IF r.kind = "create" THEN [made EXCEPT ![r.dialog] = @ + 1] ELSE made
    BY <2>1 DEF Serve, Count
  <2>5. r.kind \in Command => r \in Commands(pending)
    BY DEF Commands
  <2>6. BusyOk'
    BY <1>1, <2>2, <2>3, <2>4, <2>5 DEF BusyOk
  <2>7. CreateOk'
    <3> SUFFICES ASSUME NEW d \in Dialog
                 PROVE  /\ made'[d] <= 1 + lost[d]
                        /\ made'[d] > lost[d] =>
                             d \in {"add", "clone"} /\ (d \notin open \/ Handled(d)')
                        /\ Unhandled(d)' => made'[d] <= lost[d]
      BY <2>4 DEF CreateOk
    <3>1. made \in [Dialog -> Nat] /\ made[d] \in Nat /\ lost[d] \in Nat
      BY <1>1 DEF Base, TypeOk
    <3>2. Handled(d) => Handled(d)'
      BY <2>2, <2>4 DEF Handled
    <3>3. CASE r.kind = "create" /\ r.dialog = d
      <4>1. r \in Commands(pending) /\ r.dialog \in {"add", "clone"}
        BY <1>1, <2>5, <3>3, RequestHas DEF Sane, DialogOf, Command
      <4>2. made'[d] = made[d] + 1 /\ made[d] <= lost[d]
        <5>1. Unhandled(d)
          BY <2>4, <3>3, <4>1 DEF Unhandled
        <5> QED BY <1>1, <2>4, <3>1, <3>3, <5>1 DEF CreateOk
      <4>3. Handled(d)'
        BY <2>2, <2>3, <3>3 DEF Handled, Command
      <4>4. ~Unhandled(d)'
        <5> SUFFICES ASSUME NEW q \in Commands(pending'), q.kind = "create", q.dialog = d,
                            ~q.answered
                     PROVE  FALSE
          BY DEF Unhandled
        <5>1. q \in Commands(pending) \ {r}
          BY <2>2, <2>3
        <5> QED BY <1>1, <3>3, <4>1, <5>1, CreatesAlone
      <4> QED BY <3>1, <3>3, <4>1, <4>2, <4>3, <4>4
    <3>4. CASE ~(r.kind = "create" /\ r.dialog = d)
      <4>1. made'[d] = made[d]
        BY <2>4, <3>1, <3>4
      <4>2. Unhandled(d)' => Unhandled(d)
        BY <2>2, <2>3 DEF Unhandled
      <4> QED BY <1>1, <3>2, <4>1, <4>2 DEF CreateOk
    <3> QED BY <3>3, <3>4
  <2> QED BY <1>1, <2>6, <2>7 DEF OnceInv
<1>6. CASE \E r \in pending : Arrives(r) \/ Fails(r)
  <2>1. PICK r \in pending : Arrives(r) \/ Fails(r)
    BY <1>6
  <2>2. Commands(pending') = Commands(pending) \ {r}
    BY <1>1, <2>1, ArrivalIs
  <2>3. saving \ saving' \subseteq Busy(r) \cup Quick
    BY <1>1, <2>1, ArrivalFrees
  <2>4. Busy(r) # {} => r \in Commands(pending)
    BY DEF Busy, Commands, Command
  <2>5. BusyOk'
    <3>1. \A q \in Commands(pending) \ {r} : Busy(q) \cap (Busy(r) \cup Quick) = {}
      BY <1>1, <2>4, BusyIs DEF BusyOk
    <3> QED BY <1>1, <2>2, <2>3, <3>1 DEF BusyOk
  <2>6. CreateOk'
    <3> SUFFICES ASSUME NEW d \in Dialog
                 PROVE  /\ made'[d] <= 1 + lost'[d]
                        /\ made'[d] > lost'[d] =>
                             d \in {"add", "clone"} /\ (d \notin open' \/ Handled(d)')
                        /\ Unhandled(d)' => made'[d] <= lost'[d]
      BY DEF CreateOk
    <3>1. made \in [Dialog -> Nat] /\ lost \in [Dialog -> Nat] /\ made[d] \in Nat /\ lost[d] \in Nat
      BY <1>1 DEF Base, TypeOk
    <3>2. Unhandled(d)' => Unhandled(d)
      BY <2>2 DEF Unhandled
    <3>3. Handled(d) =>
            Handled(d)' \/ (r.kind = "create" /\ r.dialog = d /\ r.answered /\ r.ok)
      BY <2>2 DEF Handled
    <3>4. CASE CreateAnswered(r)
      <4>1. /\ r.kind = "create" /\ open' = open \ {r.dialog}
            /\ made' = made /\ lost' = lost
        BY <3>4 DEF CreateAnswered, Created, Answered, CloseAfter
      <4> QED BY <1>1, <3>2, <3>3, <4>1 DEF CreateOk
    <3>5. CASE ~CreateAnswered(r)
      <4>1. made' = made /\ open' \subseteq open \cup {"action"} /\ (lost' = lost \/ Fails(r))
        BY <2>1, <3>5, ArrivalOpens
      <4>2. CASE ~(r.kind = "create" /\ r.dialog = d /\ r.answered /\ r.ok)
        <5>1. lost'[d] \in Nat /\ lost'[d] >= lost[d]
          BY <3>1, <4>1 DEF Fails
        <5> QED BY <1>1, <3>1, <3>2, <3>3, <4>1, <4>2, <5>1 DEF CreateOk
      <4>3. CASE r.kind = "create" /\ r.dialog = d /\ r.answered /\ r.ok
        <5>1. Fails(r)
          BY <2>1, <3>5, <4>3 DEF Arrives, CreateAnswered, DeleteAnswered, DeleteGroupAnswered,
             GroupAnswered, EditAnswered, ActionAnswered, ToggleAnswered, Refused, ListArrives,
             GroupsArrive, Answered
        <5>2. lost'[d] = IF made[d] > lost[d] THEN lost[d] + 1 ELSE lost[d]
          BY <3>1, <4>3, <5>1 DEF Fails
        <5>3. made[d] <= 1 + lost[d]
          BY <1>1 DEF CreateOk
        <5> QED BY <3>1, <4>1, <5>2, <5>3
      <4> QED BY <4>2, <4>3
    <3> QED BY <3>4, <3>5
  <2> QED BY <1>1, <2>5, <2>6 DEF OnceInv
<1> QED BY <1>2, <1>3, <1>4, <1>5, <1>6 DEF PageStep

\* Each time a dialog for a new expectation is opened, at most one expectation is
\* stored for it, and one more for every answer that was lost after that: the dialog
\* is closed before the list is fetched, and its button waits for the answer.
THEOREM CreatedOnceHolds == Spec => []CreatedOnce
<1>1. PageInit => OnceInv
  <2> SUFFICES ASSUME Init PROVE OnceInv
    BY DEF PageInit
  <2>1. Base
    BY InitHasBase
  <2>2. Commands(pending) = {}
    BY FirstQueries DEF Commands, Command
  <2>3. \A d \in Dialog : made[d] = 0 /\ lost[d] = 0
    BY DEF Init
  <2> QED BY <2>1, <2>2, <2>3 DEF OnceInv, BusyOk, CreateOk, Handled, Unhandled
<1>2. OnceInv /\ [Next]_pageVars => OnceInv'
  <2> SUFFICES ASSUME OnceInv, [Next]_pageVars PROVE OnceInv'
    OBVIOUS
  <2>1. CASE Next
    BY <2>1, NextIs, StepKeepsOnce
  <2>2. CASE UNCHANGED pageVars
    <3>1. UNCHANGED vars /\ saving' = saving /\ open' = open /\ UNCHANGED <<made, lost>>
          /\ pending' = pending
      BY <2>2 DEF pageVars, vars, dialogVars
    <3>2. Base'
      BY <3>1, StutterKeepsBase DEF OnceInv
    <3> QED BY <3>1, <3>2 DEF OnceInv, BusyOk, CreateOk, Handled, Unhandled
  <2> QED BY <2>1, <2>2
<1>3. OnceInv => CreatedOnce
  BY DEF OnceInv, CreateOk, CreatedOnce, Base, TypeOk
<1> QED BY <1>1, <1>2, <1>3, PTL DEF Spec

-----------------------------------------------------------------------------
(* Where the selection goes.                                               *)

\* What was aimed at is selected, or a request under way will select it: groups
\* that are waited for have the list fetched, and the last such list moves.
Aims(P, l, s, a) ==
  a # None =>
    /\ project \in loaded
    /\ \A q \in Waiting(P) : q.of = project /\ q.moves /\ q.next = a
    /\ Waiting(P) = {} => \A q \in Moving(P) : q.next = a
    /\ Waiting(P) # {} \/ Moving(P) # {} \/ (a \in Ids(l) /\ s = a)

AimOk == Aims(pending, list, selected, aim)

AimInv == Base /\ AimOk

LEMMA AimsLater ==
  ASSUME Base, project' = project, loaded \subseteq loaded', Aims(pending', list', selected', aim')
  PROVE  AimOk'
BY DEF AimOk, Aims, Moving, Lists

\* A step that keeps the queries, the rows and what is selected of them.
LEMMA AimsKept ==
  ASSUME AimOk, NEW P, NEW l, NEW s, Waiting(P) = Waiting(pending), Moving(P) = Moving(pending),
         Ids(l) = Ids(list), project \in loaded /\ selected \in Ids(list) => s = selected
  PROVE  Aims(P, l, s, aim)
BY DEF AimOk, Aims

LEMMA AimsWithSameQueries ==
  ASSUME Base, AimOk, Base', SameQueries(pending', pending), UNCHANGED <<project, loaded, selected, aim>>,
         Ids(list') = Ids(list)
  PROVE  AimOk'
<1>1. /\ \A q \in pending : "deleteGroup" \in q.waits => q.kind \in Query
      /\ \A q \in pending' : "deleteGroup" \in q.waits => q.kind \in Query
  BY DEF Base, RequestsOk, Sensible, Sane, Query
<1>2. \A q \in pending' : q.kind \in Query => \E x \in pending : SameQuery(q, x)
  BY DEF SameQueries
<1>3. \A x \in pending : x.kind \in Query => \E q \in pending' : SameQuery(q, x)
  BY DEF SameQueries
<1>4. \A q \in Waiting(pending') : \E x \in Waiting(pending) : SameQuery(q, x)
  BY <1>1, <1>2 DEF Waiting, SameQuery
<1>5. \A x \in Waiting(pending) : \E q \in Waiting(pending') : SameQuery(q, x)
  BY <1>1, <1>3 DEF Waiting, SameQuery
<1>6. \A q \in Moving(pending') : \E x \in Moving(pending) : SameQuery(q, x)
  BY <1>2 DEF Moving, Lists, SameQuery, Query
<1>7. \A x \in Moving(pending) : \E q \in Moving(pending') : SameQuery(q, x)
  BY <1>3 DEF Moving, Lists, SameQuery, Query
<1>8. Aims(pending', list', selected', aim')
  BY <1>4, <1>5, <1>6, <1>7 DEF AimOk, Aims, SameQuery
<1> QED BY <1>8, AimsLater

\* A command that has ended is not a query.
LEMMA CommandEnded ==
  ASSUME Base, NEW r \in pending, r.kind \in Command
  PROVE  Waiting(pending \ {r}) = Waiting(pending) /\ Moving(pending \ {r}) = Moving(pending)
<1>1. r.waits = {}
  BY RequestHas DEF Sane, Command
<1> QED BY <1>1 DEF Waiting, Moving, Lists, Command

LEMMA CorrectedKeeps ==
  ASSUME Base, NEW l, l \in Seq(Expectation), Ids(l) = Ids(list)
  PROVE  project \in loaded /\ selected \in Ids(list) =>
           Corrected(l, selected, project \in loaded) = selected
<1>1. selected \in Ids(l) => l # <<>>
  BY DEF Ids
<1> QED BY <1>1 DEF Corrected

\* A list that is fetched after a create or a delete.
LEMMA AimsAfterRefetch ==
  ASSUME Base, NEW r \in pending, NEW others, others = pending \ {r},
         NEW P, P = ListRefetched(others, r.next, TRUE), NEW l, NEW s
  PROVE  Aims(P, l, s, Aim(r))
<1>1. PICK next \in 0 .. MaxId : next = r.next
  BY RequestHas
<1>2. P = ListRefetched(others, next, TRUE)
  BY <1>1
<1>3. Waiting(P) = Waiting(others)
  BY <1>2, RefetchedIsFine
<1>4. MovesTo(P, next, TRUE)
  BY <1>2, RefetchedIsFine
<1>5. Aim(r) # None => Aim(r) = next /\ project \in loaded /\ Waiting(pending) = {}
  BY <1>1 DEF Aim, Waiting
<1>6. Waiting(others) \subseteq Waiting(pending)
  BY DEF Waiting
<1> QED BY <1>3, <1>4, <1>5, <1>6 DEF Aims, MovesTo

LEMMA AimsAfterGroup ==
  ASSUME Base, AimOk, NEW r \in pending, r.kind \in {"deleteGroup", "saveGroup", "toggleGroup"},
         NEW P, P = GroupsRefetched(r), NEW l, NEW s
  PROVE  /\ r.kind = "deleteGroup" /\ r.moves => Aims(P, l, s, Aim(r))
         /\ r.kind # "deleteGroup" => Aims(P, list, selected, aim)
<1>1. /\ Sensible(pending, lastText) /\ GroupsAreShared(pending) /\ FirstListIsShared(pending)
      /\ CleanLists(pending) /\ project \in Project /\ lastText \in Nat
  BY BaseHas DEF KeepsRequests
<1>2. r.dialog \in DialogOf(r.kind)
  BY RequestHas DEF Sane
<1>3. project \in loaded /\ r.dialog = "deleteGroup" /\ Waiting(pending) = {} =>
        /\ Waiting(P) # {}
        /\ \A q \in Waiting(P) : q.of = project /\ q.moves = r.moves /\ q.next = r.next
  BY <1>1, GroupsRefetchedIs
<1>4. /\ project \in loaded /\ r.dialog # "deleteGroup"
      /\ \A q \in Waiting(pending) : q.of = project
      => /\ Waiting(P) = {}
         /\ Waiting(pending) = {} => Lists(P) = Lists(pending)
         /\ \A g \in Waiting(pending) :
              g.moves => Moving(P) # {} /\ \A q \in Moving(P) : q.next = g.next
  BY <1>1, GroupsRefetchedIs
<1>5. r.kind = "deleteGroup" => r.dialog = "deleteGroup"
  BY <1>2 DEF DialogOf
<1>6. r.kind # "deleteGroup" => r.dialog # "deleteGroup"
  BY <1>2 DEF DialogOf
<1>7. ASSUME r.kind = "deleteGroup", r.moves PROVE Aims(P, l, s, Aim(r))
  <2>1. Aim(r) # None => Aim(r) = r.next /\ project \in loaded /\ Waiting(pending) = {}
    BY DEF Aim, Waiting
  <2> QED BY <1>3, <1>5, <1>7, <2>1 DEF Aims
<1>8. ASSUME r.kind # "deleteGroup" PROVE Aims(P, list, selected, aim)
  <2> SUFFICES ASSUME aim # None
               PROVE  /\ project \in loaded /\ Waiting(P) = {}
                      /\ \A q \in Moving(P) : q.next = aim
                      /\ Moving(P) # {} \/ (aim \in Ids(list) /\ selected = aim)
    BY DEF Aims
  <2>1. /\ project \in loaded
        /\ \A q \in Waiting(pending) : q.of = project /\ q.moves /\ q.next = aim
        /\ Waiting(pending) = {} => \A q \in Moving(pending) : q.next = aim
        /\ Waiting(pending) # {} \/ Moving(pending) # {} \/ (aim \in Ids(list) /\ selected = aim)
    BY DEF AimOk, Aims
  <2>2. /\ Waiting(P) = {}
        /\ Waiting(pending) = {} => Lists(P) = Lists(pending)
        /\ \A g \in Waiting(pending) :
              g.moves => Moving(P) # {} /\ \A q \in Moving(P) : q.next = g.next
    BY <1>4, <1>6, <1>8, <2>1
  <2>3. CASE Waiting(pending) = {}
    <3>1. Moving(P) = Moving(pending)
      BY <2>2, <2>3 DEF Moving
    <3> QED BY <2>1, <2>2, <2>3, <3>1
  <2>4. CASE Waiting(pending) # {}
    BY <2>1, <2>2, <2>4
  <2> QED BY <2>3, <2>4
<1> QED BY <1>7, <1>8

\* Groups that arrive, or fail, let the list be fetched that waited for them.
LEMMA AimsAfterGroups ==
  ASSUME Base, AimOk, NEW r \in pending, r.kind = "groups",
         NEW P, P = AfterGroups(r, pending \ {r}), NEW s,
         "deleteGroup" \notin r.waits /\ project \in loaded /\ selected \in Ids(list) => s = selected
  PROVE  Aims(P, list, s, aim)
<1>1. PICK others : others = pending \ {r}
  OBVIOUS
<1>2. Moving(others) = Moving(pending)
  BY <1>1 DEF Moving, Lists
<1>3. CASE "deleteGroup" \notin r.waits
  <2>1. P = others /\ Waiting(others) = Waiting(pending)
    BY <1>1, <1>3 DEF AfterGroups, Waiting
  <2> QED BY <1>2, <1>3, <2>1, AimsKept
<1>4. CASE "deleteGroup" \in r.waits
  <2> SUFFICES ASSUME aim # None PROVE Aims(P, list, s, aim)
    BY DEF Aims
  <2>1. PICK next \in 0 .. MaxId, moves \in BOOLEAN : next = r.next /\ moves = r.moves
    BY RequestHas
  <2>2. P = ListRefetched(others, next, moves)
    BY <1>1, <1>4, <2>1 DEF AfterGroups
  <2>3. Waiting(P) = Waiting(others)
    BY <1>1, <2>2, RefetchedIsFine
  <2>4. MovesTo(P, next, moves)
    BY <1>1, <2>2, RefetchedIsFine
  <2>5. r \in Waiting(pending) /\ project \in loaded
        /\ \A q \in Waiting(pending) : q.of = project /\ q.moves /\ q.next = aim
    BY <1>4 DEF AimOk, Aims, Waiting
  <2>6. \A q \in Waiting(pending) : q.kind = "groups"
    BY DEF Base, RequestsOk, Sensible, Sane, Waiting
  <2>7. \A q \in Waiting(pending) : q = r
    <3>1. GroupsAreShared(pending)
      BY DEF Base, RequestsOk
    <3> QED BY <2>5, <2>6, <3>1 DEF GroupsAreShared, Waiting
  <2>8. Waiting(others) = {}
    BY <1>1, <2>7 DEF Waiting
  <2>9. moves = TRUE /\ next = aim
    BY <2>1, <2>5
  <2> QED BY <2>3, <2>4, <2>5, <2>8, <2>9 DEF Aims, MovesTo
<1> QED BY <1>3, <1>4

LEMMA ArrivalKeepsAim ==
  ASSUME AimInv, Base', NEW r \in pending, Arrives(r) \/ Fails(r)
  PROVE  AimOk'
<1>1. Base /\ AimOk /\ ListOk
  BY BaseHas DEF AimInv
<1>2. CASE CreateAnswered(r)
  <2>1. PICK others : others = pending \ {r}
    OBVIOUS
  <2>2. /\ pending' = ListRefetched(others, r.next, TRUE) /\ aim' = Aim(r)
        /\ UNCHANGED <<project, loaded>>
    BY <1>2, <2>1 DEF CreateAnswered, Created, cacheVars
  <2>3. Aims(pending', list', selected', aim')
    BY <1>1, <2>1, <2>2, AimsAfterRefetch
  <2> QED BY <1>1, <2>2, <2>3, AimsLater
<1>3. CASE DeleteAnswered(r)
  <2>1. PICK others : others = pending \ {r}
    OBVIOUS
  <2>2. /\ pending' = ListRefetched(others, r.next, TRUE) /\ aim' = Aim(r)
        /\ UNCHANGED <<project, loaded>>
    BY <1>3, <2>1 DEF DeleteAnswered, RefetchedAfterDelete, cacheVars
  <2>3. Aims(pending', list', selected', aim')
    BY <1>1, <2>1, <2>2, AimsAfterRefetch
  <2> QED BY <1>1, <2>2, <2>3, AimsLater
<1>4. CASE DeleteGroupAnswered(r)
  <2>1. /\ pending' = GroupsRefetched(r) /\ r.kind = "deleteGroup"
        /\ aim' = (IF r.moves THEN Aim(r) ELSE None)
        /\ UNCHANGED <<project, loaded>>
    BY <1>4 DEF DeleteGroupAnswered, Answered, cacheVars
  <2>2. Aims(pending', list', selected', aim')
    <3>1. r.moves => Aims(pending', list', selected', Aim(r))
      BY <1>1, <2>1, AimsAfterGroup
    <3> QED BY <2>1, <3>1 DEF Aims
  <2> QED BY <1>1, <2>1, <2>2, AimsLater
<1>5. CASE GroupAnswered(r)
  <2>1. /\ pending' = GroupsRefetched(r) /\ r.kind \in {"saveGroup", "toggleGroup"}
        /\ UNCHANGED <<project, loaded, list, selected, aim>>
    BY <1>5 DEF GroupAnswered, Answered, cacheVars, listVars
  <2>2. Aims(pending', list, selected, aim)
    BY <1>1, <2>1, AimsAfterGroup
  <2> QED BY <1>1, <2>1, <2>2, AimsLater
<1>6. CASE EditAnswered(r) \/ ActionAnswered(r)
  <2>1. /\ pending' = pending \ {r} /\ r.kind \in Command
        /\ UNCHANGED <<project, loaded, selected, aim>>
    BY <1>6 DEF EditAnswered, ActionAnswered, Answered, Command, cacheVars
  <2>2. Ids(list') = Ids(list)
    <3>1. r \in Request /\ Sane(r, lastText) /\ lastText \in Nat
      BY <1>1, RequestHas, BaseHas
    <3>2. CASE EditAnswered(r)
      <4>1. list' = Updated(list, r) /\ r.kind = "edit"
        BY <3>2 DEF EditAnswered, Answered
      <4> QED BY <1>1, <3>1, <4>1, UpdatedListIs DEF ListOk, Update
    <3>3. CASE ActionAnswered(r)
      <4>1. list' = ActionChanged(list, r) /\ r.kind \in {"addAction", "saveAction", "deleteAction"}
        BY <3>3 DEF ActionAnswered, Answered
      <4> QED BY <1>1, <3>1, <4>1, ActionChangedIs DEF ListOk
    <3> QED BY <1>6, <3>2, <3>3
  <2>3. Waiting(pending') = Waiting(pending) /\ Moving(pending') = Moving(pending)
    BY <1>1, <2>1, CommandEnded
  <2>4. Aims(pending', list', selected', aim')
    BY <1>1, <2>1, <2>2, <2>3, AimsKept
  <2> QED BY <1>1, <2>1, <2>4, AimsLater
<1>7. CASE ToggleAnswered(r) \/ Refused(r)
  <2>1. /\ pending' = pending \ {r} /\ UNCHANGED <<project, loaded, selected, aim>>
        /\ list' = list \/ list' = ThrownBack(r)
    BY <1>7 DEF ToggleAnswered, Refused, cacheVars, listVars
  <2>2. r.kind \in Command
    <3>1. r \in Request /\ Sane(r, lastText)
      BY <1>1, RequestHas
    <3>2. r.kind \in Query => ~Refused(r)
      BY <3>1 DEF Sane, Refused
    <3>3. r.kind \in Query => ~ToggleAnswered(r)
      BY DEF ToggleAnswered, Answered, Query
    <3> QED BY <1>7, <3>1, <3>2, <3>3 DEF Request
  <2>3. Ids(list') = Ids(list)
    BY <1>1, <2>1, ThrownBackIs
  <2>4. Waiting(pending') = Waiting(pending) /\ Moving(pending') = Moving(pending)
    BY <1>1, <2>1, <2>2, CommandEnded
  <2>5. Aims(pending', list', selected', aim')
    BY <1>1, <2>1, <2>3, <2>4, AimsKept
  <2> QED BY <1>1, <2>1, <2>5, AimsLater
<1>8. CASE ListArrives(r)
  <2>1. /\ pending' = pending \ {r} /\ r.kind = "list" /\ UNCHANGED <<project, loaded>>
        /\ list' = (IF r.of = project THEN Newest(r.list) ELSE list)
        /\ selected' = Corrected(list', IF r.moves THEN r.next ELSE selected, project \in loaded)
        /\ aim' = IF (IF r.of = project THEN Find(r.list, aim) = {} ELSE r.moves) THEN None ELSE aim
    BY <1>8 DEF ListArrives, Answered, Show
  <2>2. Waiting(pending') = Waiting(pending)
    <3>1. "deleteGroup" \notin r.waits
      BY <1>1, <2>1, RequestHas DEF Sane
    <3> QED BY <2>1, <3>1 DEF Waiting
  <2> SUFFICES ASSUME aim' # None PROVE Aims(pending', list', selected', aim')
    BY <1>1, <2>1, AimsLater DEF Aims
  <2>3. /\ aim' = aim /\ project \in loaded
        /\ \A q \in Waiting(pending) : q.of = project /\ q.moves /\ q.next = aim
        /\ Waiting(pending) = {} => \A q \in Moving(pending) : q.next = aim
        /\ Waiting(pending) # {} \/ Moving(pending) # {} \/ (aim \in Ids(list) /\ selected = aim)
    BY <1>1, <2>1 DEF AimOk, Aims
  <2>4. CASE r.of # project
    <3>1. ~r.moves /\ list' = list /\ Moving(pending') = Moving(pending)
      BY <2>1, <2>4 DEF Moving, Lists
    <3>2. selected \in Ids(list) => selected' = selected
      BY <1>1, <2>1, <2>3, <3>1, CorrectedKeeps DEF ListOk
    <3> QED BY <2>2, <2>3, <3>1, <3>2 DEF Aims
  <2>5. CASE r.of = project
    <3>1. PICK e \in r.list : e.id = aim
      BY <2>1, <2>3, <2>5 DEF Find
    <3>2. Shows(list', r.list)
      <4>1. r.list \subseteq Expectation /\ Unique(r.list)
        BY <1>1, RequestHas DEF Sane
      <4> QED BY <2>1, <2>5, <4>1, NewestShows
    <3>3. aim \in Ids(list')
      BY <3>1, <3>2 DEF Shows, Ids
    <3>4. list' # <<>>
      BY <3>3 DEF Ids
    <3>5. Corrected(list', aim, project \in loaded) = aim
      BY <2>3, <3>3, <3>4 DEF Corrected
    <3>6. CASE Waiting(pending) # {}
      BY <2>2, <2>3, <3>6 DEF Aims
    <3>7. CASE Waiting(pending) = {} /\ r.moves
      <4>1. r \in Moving(pending) /\ r.next = aim
        BY <2>1, <2>3, <2>5, <3>7 DEF Moving, Lists
      <4>2. selected' = aim
        BY <2>1, <3>5, <3>7, <4>1
      <4>3. Moving(pending') \subseteq Moving(pending)
        BY <2>1 DEF Moving, Lists
      <4> QED BY <2>2, <2>3, <3>3, <3>7, <4>2, <4>3 DEF Aims
    <3>8. CASE Waiting(pending) = {} /\ ~r.moves
      <4>1. Moving(pending') = Moving(pending)
        BY <2>1, <3>8 DEF Moving, Lists
      <4>2. selected = aim => selected' = aim
        BY <2>1, <3>5, <3>8
      <4> QED BY <2>2, <2>3, <3>3, <3>8, <4>1, <4>2 DEF Aims
    <3> QED BY <3>6, <3>7, <3>8
  <2> QED BY <2>4, <2>5
<1>9. CASE GroupsArrive(r)
  <2>1. /\ pending' = AfterGroups(r, pending \ {r}) /\ r.kind = "groups" /\ project' = project
        /\ loaded \subseteq loaded' /\ list' = list /\ aim' = aim
        /\ "deleteGroup" \notin r.waits => selected' = Corrected(list, selected, project \in loaded')
    BY <1>9 DEF GroupsArrive, Answered
  <2>2. "deleteGroup" \notin r.waits /\ project \in loaded /\ selected \in Ids(list) => selected' = selected
    <3>1. selected \in Ids(list) => list # <<>>
      BY DEF Ids
    <3> QED BY <2>1, <3>1 DEF Corrected
  <2>3. Aims(pending', list, selected', aim)
    BY <1>1, <2>1, <2>2, AimsAfterGroups
  <2> QED BY <1>1, <2>1, <2>3, AimsLater
<1>10. CASE Fails(r)
  <2>1. /\ pending' = (IF r.kind = "groups" THEN AfterGroups(r, pending \ {r}) ELSE pending \ {r})
        /\ list' = ThrownBack(r) /\ selected' = Corrected(list', selected, project \in loaded)
        /\ aim' = (IF r.kind = "list" THEN None ELSE aim) /\ UNCHANGED <<project, loaded>>
    BY <1>10 DEF Fails, Show, cacheVars
  <2>2. list' \in Seq(Expectation) /\ Ids(list') = Ids(list)
    BY <1>1, <2>1, ThrownBackIs
  <2>3. project \in loaded /\ selected \in Ids(list) => selected' = selected
    BY <1>1, <2>1, <2>2, CorrectedKeeps
  <2>4. CASE r.kind = "list"
    <3>1. Aims(pending', list', selected', aim')
      BY <2>1, <2>4 DEF Aims
    <3> QED BY <1>1, <2>1, <3>1, AimsLater
  <2>5. CASE r.kind = "groups"
    <3>1. list' = list
      BY <2>1, <2>5 DEF ThrownBack
    <3>2. Aims(pending', list, selected', aim)
      BY <1>1, <2>1, <2>3, <2>5, AimsAfterGroups
    <3> QED BY <1>1, <2>1, <2>5, <3>1, <3>2, AimsLater
  <2>6. CASE r.kind \in Command
    <3>1. Waiting(pending') = Waiting(pending) /\ Moving(pending') = Moving(pending)
      BY <1>1, <2>1, <2>6, CommandEnded DEF Command
    <3>2. Aims(pending', list', selected', aim')
      BY <1>1, <2>1, <2>2, <2>3, <2>6, <3>1, AimsKept DEF Command
    <3> QED BY <1>1, <2>1, <3>2, AimsLater
  <2> QED BY <1>1, <2>4, <2>5, <2>6, RequestHas DEF Request, Query
<1> QED BY <1>2, <1>3, <1>4, <1>5, <1>6, <1>7, <1>8, <1>9, <1>10 DEF Arrives

LEMMA StepKeepsAim ==
  ASSUME AimInv, PageStep
  PROVE  AimInv'
<1>1. Base /\ AimOk /\ Base' /\ ListOk
  BY StepKeepsBase, BaseHas DEF AimInv
<1>2. CASE PageCommand
  <2>1. PICK kind \in Command : \E r : NewCommand(r, kind) /\ PageWaits(kind, r)
    BY <1>1, <1>2, CommandSent
  <2>2. PICK r : NewCommand(r, kind) /\ PageWaits(kind, r)
    BY <2>1
  <2>3. SameQueries(pending', pending)
    BY <1>1, <2>2, SendIs
  <2>4. UNCHANGED <<project, loaded, selected, aim>>
    BY <2>2 DEF PageWaits, cacheVars
  <2>5. Ids(list') = Ids(list)
    <3>1. CASE list' = list
      BY <3>1
    <3>2. CASE kind = "toggle" /\ list' = Updated(list, r)
      <4>1. r \in Request /\ r.kind \in Update
        BY <2>2, <3>2 DEF NewCommand, Update
      <4> QED BY <1>1, <3>2, <4>1, UpdatedListIs DEF ListOk
    <3> QED BY <2>2, <3>1, <3>2 DEF PageWaits
  <2> QED BY <1>1, <2>3, <2>4, <2>5, AimsWithSameQueries DEF AimInv
<1>3. CASE PageDialog \/ Close
  <2>1. UNCHANGED <<project, loaded, selected, aim, list, pending>>
    <3>1. CASE PageDialog
      <4>1. PICK d \in Dialog, about \in Nat : OpenDialog(d, about)
        BY <1>1, <3>1, DialogOpened
      <4> QED BY <4>1 DEF OpenDialog, listVars, cacheVars
    <3>2. CASE Close
      BY <3>2 DEF Close, listVars, cacheVars
    <3> QED BY <1>3, <3>1, <3>2
  <2>2. Aims(pending', list', selected', aim')
    BY <1>1, <2>1 DEF AimOk
  <2> QED BY <1>1, <2>1, <2>2, AimsLater DEF AimInv
<1>4. CASE SelectRow \/ \E p \in Project : SwitchProject(p)
  <2>1. aim' = None
    BY <1>4 DEF SelectRow, SwitchProject
  <2> QED BY <1>1, <2>1 DEF AimInv, AimOk, Aims
<1>5. CASE \E r \in pending : Serve(r)
  <2>1. PICK r \in pending : Serve(r)
    BY <1>5
  <2>2. SameQueries(pending', pending)
    BY <1>1, <2>1, ServedCommands
  <2>3. UNCHANGED <<project, loaded, selected, aim, list>>
    BY <2>1 DEF Serve, listVars, cacheVars
  <2> QED BY <1>1, <2>2, <2>3, AimsWithSameQueries DEF AimInv
<1>6. CASE \E r \in pending : Arrives(r) \/ Fails(r)
  BY <1>1, <1>6, ArrivalKeepsAim DEF AimInv
<1> QED BY <1>2, <1>3, <1>4, <1>5, <1>6 DEF PageStep

\* When every request has ended the row is selected that the last create or
\* delete aimed at, if it is there, in whatever order the answers came.
THEOREM SelectionFollowsHolds == Spec => []SelectionFollows
<1>1. PageInit => AimInv
  BY InitHasBase DEF PageInit, Init, AimInv, AimOk, Aims
<1>2. AimInv /\ [Next]_pageVars => AimInv'
  <2> SUFFICES ASSUME AimInv, [Next]_pageVars PROVE AimInv'
    OBVIOUS
  <2>1. CASE Next
    BY <2>1, NextIs, StepKeepsAim
  <2>2. CASE UNCHANGED pageVars
    <3>1. UNCHANGED vars /\ UNCHANGED <<project, loaded, selected, aim, list, pending>>
      BY <2>2 DEF pageVars, vars, listVars, cacheVars
    <3>2. Base'
      BY <3>1, StutterKeepsBase DEF AimInv
    <3>3. Aims(pending', list', selected', aim')
      BY <3>1 DEF AimInv, AimOk
    <3> QED BY <3>1, <3>2, <3>3, AimsLater DEF AimInv
  <2> QED BY <2>1, <2>2
<1>3. AimInv => SelectionFollows
  BY DEF AimInv, AimOk, Aims, SelectionFollows, Waiting, Moving, Lists
<1> QED BY <1>1, <1>2, <1>3, PTL DEF Spec

-----------------------------------------------------------------------------
(* The list in quiet times.  Nobody disturbs it as long as it is trusted,  *)
(* and what differs from the store is what commands under way account for. *)

\* The commands the server has carried out and the page does not know of.
Done(P) == {r \in P : r.answered /\ r.ok}

ActionKinds == {"addAction", "saveAction", "deleteAction"}

TextOk(D, l, e) ==
  \/ \E r \in D : r.kind = "edit" /\ r.id = e.id /\ e.text = r.text
  \/ l.text = e.text /\ \A r \in D : r.kind = "edit" => r.id # e.id

\* The switch of a row is thrown before its request is sent.
ActiveOk(P, l, e) ==
  /\ \A r \in P : r.kind = "toggle" /\ r.id = e.id =>
       l.active = r.active /\ (r.answered <=> e.active = r.active)
  /\ (\A r \in P : r.kind = "toggle" => r.id # e.id) => l.active = e.active

\* The action a of a row and the action b that is stored.
ActionOk(D, a, b, id) ==
  /\ \A r \in D : r.kind = "deleteAction" /\ r.id = id => r.action # b.id
  /\ \A r \in D : r.kind = "saveAction" /\ r.id = id /\ r.action = b.id => r.text = b.text
  /\ a # NoAction /\ b = NoAction =>
       \E r \in D : r.kind = "deleteAction" /\ r.id = id /\ r.action = a.id
  /\ a # NoAction /\ b # NoAction =>
       /\ a.id = b.id
       /\ \/ a.text = b.text
          \/ \E r \in D : r.kind = "saveAction" /\ r.id = id /\ r.action = a.id
  /\ a = NoAction /\ b # NoAction =>
       \E r \in D : r.kind = "addAction" /\ r.id = id /\ b = [id |-> r.action, text |-> r.action]
  /\ a = NoAction /\ b = NoAction => \A r \in D : r.kind = "addAction" => r.id # id

RowOk(P, l, e) ==
  /\ l.group = e.group
  /\ TextOk(Done(P), l, e) /\ ActiveOk(P, l, e) /\ ActionOk(Done(P), l.action, e.action, e.id)

\* What holds of the page by itself: commands under way are about the project
\* shown, what they add is not there yet, what they delete is known.
Adding(P) == {r \in P : r.kind = "addAction"}

AddsOk(P, l, t) ==
  \A r \in Adding(P) :
    /\ r.action # t
    /\ \A i \in DOMAIN l : l[i].action.id # r.action /\ (l[i].id = r.id => l[i].action = NoAction)
    /\ \A q \in P : q.kind \in ActionKinds /\ q.action = r.action => q = r

MembersOk(P, l) ==
  \A r \in P : r.kind = "deleteGroup" =>
    \A i \in DOMAIN l : l[i].group = r.id <=> l[i].id \in r.members

PageOk(P, l, t) ==
  /\ \A r \in P : r.of = project
  /\ RowsDiffer(l) /\ AddsOk(P, l, t) /\ MembersOk(P, l)

\* The rows that go when the answer to a command arrives.
Gone(r) ==
  IF r.kind = "delete" THEN {r.id} ELSE IF r.kind = "deleteGroup" THEN r.members ELSE {}

RowsOk(P, l, S) ==
  /\ RowIds(S) \subseteq Ids(l)
  /\ \A r \in Done(P) : Gone(r) \cap RowIds(S) = {}
  /\ \A x \in Ids(l) \ RowIds(S) : \E r \in Done(P) : x \in Gone(r)
  /\ \A r \in P : r.kind = "toggle" /\ r.answered /\ ~r.ok => r.id \notin RowIds(S)
  /\ \A e \in S, i \in DOMAIN l : l[i].id = e.id => RowOk(P, l[i], e)

\* Until the answer to a create arrives, with which the list is fetched again.
StoreOk(P, l, S) == (\E r \in Done(P) : r.kind = "create") \/ RowsOk(P, l, S)

QuietOk ==
  trusted => /\ PageOk(Commands(pending), list, target["action"])
             /\ StoreOk(Commands(pending), list, stored[project])

\* Two commands under way never wait for the same editor or switch.
Single(P) ==
  \A q, r \in P : q.kind = r.kind /\ q.kind \in {"edit", "toggle", "saveAction"} => q = r

LEMMA CommandsAreSingle ==
  ASSUME Base, BusyOk
  PROVE  Single(Commands(pending))
<1> SUFFICES ASSUME NEW q \in Commands(pending), NEW r \in Commands(pending), q.kind = r.kind,
                    q.kind \in {"edit", "toggle", "saveAction"}
             PROVE  q = r
  BY DEF Single
<1>1. q \in pending /\ r \in pending /\ q.kind \in Command /\ r.kind \in Command
  BY DEF Commands
<1>2. q.dialog \in DialogOf(q.kind) /\ r.dialog \in DialogOf(r.kind)
  BY <1>1, RequestHas DEF Sane
<1>3. Busy(q) = Busy(r) /\ Busy(q) # {}
  BY <1>2 DEF Busy, DialogOf
<1> QED BY <1>3 DEF BusyOk

\* A command that is answered, in place of the one that was not.
Taken(P, r, s, Q) ==
  /\ r \in P /\ ~r.answered /\ s.answered /\ Q = (P \ {r}) \cup {s}
  /\ s.kind = r.kind /\ s.id = r.id /\ s.action = r.action /\ s.text = r.text
  /\ s.active = r.active /\ s.of = r.of /\ s.members = r.members

LEMMA DoneWhenTaken ==
  ASSUME NEW P, NEW r, NEW s, NEW Q, Taken(P, r, s, Q)
  PROVE  Done(Q) = Done(P) \cup (IF s.ok THEN {s} ELSE {}) /\ r \notin Done(P)
BY DEF Taken, Done

LEMMA DoneWhenEnded ==
  ASSUME NEW P, NEW r
  PROVE  Done(P \ {r}) = Done(P) \ {r}
BY DEF Done

-----------------------------------------------------------------------------
(* The text of a row.                                                      *)

LEMMA TextWhenTaken ==
  ASSUME NEW P, NEW r, NEW s, NEW Q, Taken(P, r, s, Q), Single(P), s.ok,
         NEW l, NEW e, NEW u, u.id = e.id,
         u.text = IF r.kind = "edit" /\ e.id = r.id THEN r.text ELSE e.text,
         TextOk(Done(P), l, e)
  PROVE  TextOk(Done(Q), l, u)
<1>1. Done(Q) = Done(P) \cup {s}
  BY DoneWhenTaken
<1>2. CASE r.kind = "edit" /\ e.id = r.id
  BY <1>1, <1>2 DEF TextOk, Taken
<1>3. CASE ~(r.kind = "edit" /\ e.id = r.id)
  <2>1. u.text = e.text /\ (s.kind = "edit" => s.id # e.id)
    BY <1>3 DEF Taken
  <2> QED BY <1>1, <2>1 DEF TextOk
<1> QED BY <1>2, <1>3

LEMMA TextWhenEnded ==
  ASSUME NEW P, NEW r \in Done(P), Single(P),
         NEW l, NEW e, NEW w, w.text = IF r.kind = "edit" /\ e.id = r.id THEN r.text ELSE l.text,
         TextOk(Done(P), l, e)
  PROVE  TextOk(Done(P \ {r}), w, e)
<1>1. Done(P \ {r}) = Done(P) \ {r} /\ Done(P) \subseteq P
  BY DoneWhenEnded DEF Done
<1>2. CASE r.kind = "edit" /\ e.id = r.id
  <2>1. \A q \in Done(P) : q.kind = "edit" => q = r
    BY <1>1, <1>2 DEF Single
  <2>2. w.text = e.text
    BY <1>2, <2>1 DEF TextOk
  <2> QED BY <1>1, <2>1, <2>2 DEF TextOk
<1>3. CASE ~(r.kind = "edit" /\ e.id = r.id)
  <2>1. w.text = l.text
    BY <1>3
  <2> QED BY <1>1, <1>3, <2>1 DEF TextOk
<1> QED BY <1>2, <1>3

-----------------------------------------------------------------------------
(* The switch of a row.                                                    *)

LEMMA ActiveWhenTaken ==
  ASSUME NEW P, NEW r, NEW s, NEW Q, Taken(P, r, s, Q), Single(P),
         NEW l, NEW e, NEW u, u.id = e.id,
         u.active = IF r.kind = "toggle" /\ e.id = r.id THEN r.active ELSE e.active,
         ActiveOk(P, l, e)
  PROVE  ActiveOk(Q, l, u)
<1>1. CASE r.kind = "toggle" /\ e.id = r.id
  <2>1. \A q \in P : q.kind = "toggle" => q = r
    BY <1>1 DEF Single, Taken
  <2>2. \A q \in Q : q.kind = "toggle" => q = s
    BY <2>1 DEF Taken
  <2>3. l.active = r.active /\ u.active = r.active /\ s.active = r.active /\ s.answered
    BY <1>1 DEF ActiveOk, Taken
  <2>4. s \in Q /\ s.kind = "toggle" /\ s.id = u.id
    BY <1>1 DEF Taken
  <2> QED BY <2>2, <2>3, <2>4 DEF ActiveOk
<1>2. CASE ~(r.kind = "toggle" /\ e.id = r.id)
  <2>1. u.active = e.active /\ ~(s.kind = "toggle" /\ s.id = e.id)
    BY <1>2 DEF Taken
  <2>2. \A q \in Q : q.kind = "toggle" /\ q.id = e.id => q \in P
    BY <2>1 DEF Taken
  <2>3. \A q \in P : q.kind = "toggle" /\ q.id = e.id => q \in Q
    BY <1>2 DEF Taken
  <2> QED BY <2>1, <2>2, <2>3 DEF ActiveOk
<1> QED BY <1>1, <1>2

LEMMA ActiveWhenEnded ==
  ASSUME NEW P, NEW r \in P, Single(P), NEW l, NEW e, NEW w,
         w.active = l.active \/ (r.kind = "toggle" /\ r.id = e.id /\ w.active = e.active),
         r.kind = "toggle" /\ r.id = e.id => w.active = e.active,
         ActiveOk(P, l, e)
  PROVE  ActiveOk(P \ {r}, w, e)
<1>1. CASE r.kind = "toggle" /\ r.id = e.id
  <2>1. \A q \in P \ {r} : q.kind # "toggle"
    BY <1>1 DEF Single
  <2> QED BY <1>1, <2>1 DEF ActiveOk
<1>2. CASE ~(r.kind = "toggle" /\ r.id = e.id)
  BY <1>2 DEF ActiveOk
<1> QED BY <1>1, <1>2

-----------------------------------------------------------------------------
(* The action of a row.                                                    *)

\* The new action of a command under way is the one of no other.
OwnActions(P) ==
  \A r \in Adding(P), q \in P : q.kind \in ActionKinds /\ q.action = r.action => q = r

RealActions(P) == \A r \in P : r.kind \in ActionKinds => r.action # None

ActionAfter(r, b) ==
  CASE r.kind = "addAction" -> [id |-> r.action, text |-> r.action]
    [] r.kind = "saveAction" -> [id |-> b.id, text |-> r.text]
    [] r.kind = "deleteAction" /\ b.id = r.action -> NoAction
    [] OTHER -> b

LEMMA ActionsHave ==
  /\ NoAction.id = None
  /\ \A n, t : [id |-> n, text |-> t].id = n /\ [id |-> n, text |-> t].text = t
  /\ \A n, t : n # None => [id |-> n, text |-> t] # NoAction
<1>1. NoAction.id = None
  BY DEF NoAction
<1>2. \A n, t : [id |-> n, text |-> t].id = n /\ [id |-> n, text |-> t].text = t
  OBVIOUS
<1> QED BY <1>1, <1>2

LEMMA ActionWhenTaken ==
  ASSUME NEW P, NEW r, NEW s, NEW Q, Taken(P, r, s, Q), Single(P), OwnActions(P), RealActions(P),
         s.ok, NEW a, NEW b, NEW id, NEW c, b.id = None => b = NoAction,
         r.kind \in ActionKinds /\ r.id = id =>
           /\ c = ActionAfter(r, b)
           /\ r.kind = "saveAction" => b.id = r.action
           /\ r.kind = "addAction" => a = NoAction,
         ~(r.kind \in ActionKinds /\ r.id = id) => c = b,
         ActionOk(Done(P), a, b, id)
  PROVE  ActionOk(Done(Q), a, c, id)
<1> DEFINE D == Done(P)
<1>1. Done(Q) = D \cup {s} /\ r \notin D /\ D \subseteq P /\ r \in P
  <2>1. Done(P) \subseteq P
    BY DEF Done
  <2> QED BY <2>1, DoneWhenTaken DEF Taken
<1>2. s.kind = r.kind /\ s.id = r.id /\ s.action = r.action /\ s.text = r.text
  BY DEF Taken
<1> HIDE DEF D
<1>3. \A q \in D : q \in P /\ (q.kind \in ActionKinds => q.action # None)
  BY <1>1 DEF RealActions
<1>4. ActionOk(D, a, b, id)
  BY DEF D
<1>5. CASE ~(r.kind \in ActionKinds /\ r.id = id)
  <2>1. c = b /\ ~(s.kind \in ActionKinds /\ s.id = id)
    BY <1>2, <1>5
  <2> QED BY <1>1, <1>4, <2>1 DEF ActionOk, ActionKinds
<1>6. CASE r.kind = "addAction" /\ r.id = id
  <2>1. c = [id |-> r.action, text |-> r.action] /\ a = NoAction
    BY <1>6 DEF ActionKinds, ActionAfter
  <2>2. c.id = r.action /\ c # NoAction
    BY <1>1, <1>6, <2>1, ActionsHave DEF RealActions, ActionKinds
  <2>3. \A q \in D : q.kind \in ActionKinds => q.action # r.action
    BY <1>1, <1>3, <1>6 DEF OwnActions, Adding
  <2>4. s.kind = "addAction" /\ s.id = id /\ s.action = r.action
    BY <1>2, <1>6
  <2> QED BY <1>1, <2>1, <2>2, <2>3, <2>4 DEF ActionOk, ActionKinds
<1>7. CASE r.kind = "saveAction" /\ r.id = id
  <2>1. c = [id |-> b.id, text |-> r.text] /\ r.action = b.id /\ b.id # None
    BY <1>1, <1>7 DEF ActionKinds, ActionAfter, RealActions
  <2>2. c.id = b.id /\ c.text = r.text /\ c # NoAction /\ b # NoAction
    BY <2>1, ActionsHave
  <2>3. \A q \in D : q.kind # "saveAction"
    BY <1>1, <1>3, <1>7 DEF Single
  <2>4. \A q \in D : q.kind = "addAction" => q.action # b.id
    BY <1>1, <1>3, <1>7, <2>1 DEF OwnActions, Adding, ActionKinds
  <2>5. a # NoAction
    <3> SUFFICES ASSUME a = NoAction PROVE FALSE
      OBVIOUS
    <3>1. PICK q \in D : q.kind = "addAction" /\ b = [id |-> q.action, text |-> q.action]
      BY <1>4, <2>2 DEF ActionOk
    <3> QED BY <2>4, <3>1, ActionsHave
  <2>6. a.id = b.id
    BY <1>4, <2>2, <2>5 DEF ActionOk
  <2>7. s.kind = "saveAction" /\ s.id = id /\ s.action = a.id /\ s.text = c.text
    BY <1>2, <1>7, <2>1, <2>2, <2>6
  <2>8. \A q \in D : q.kind = "deleteAction" /\ q.id = id => q.action # c.id
    BY <1>4, <2>2 DEF ActionOk
  <2> QED BY <1>1, <2>2, <2>3, <2>5, <2>6, <2>7, <2>8 DEF ActionOk
<1>8. CASE r.kind = "deleteAction" /\ r.id = id /\ b.id = r.action
  <2>1. c = NoAction /\ c.id = None /\ b # NoAction
    BY <1>1, <1>8, ActionsHave DEF ActionKinds, ActionAfter, RealActions
  <2>2. \A q \in D \cup {s} : q.kind \in ActionKinds => q.action # c.id
    BY <1>1, <1>2, <1>3, <2>1 DEF RealActions
  <2>3. a # NoAction
    <3> SUFFICES ASSUME a = NoAction PROVE FALSE
      OBVIOUS
    <3>1. PICK q \in D : q.kind = "addAction" /\ b = [id |-> q.action, text |-> q.action]
      BY <1>4, <2>1 DEF ActionOk
    <3>2. q.action = r.action
      BY <1>8, <3>1, ActionsHave
    <3> QED BY <1>1, <1>8, <3>1, <3>2 DEF OwnActions, Adding, ActionKinds
  <2>4. a.id = r.action
    BY <1>4, <1>8, <2>1, <2>3 DEF ActionOk
  <2>5. s.kind = "deleteAction" /\ s.id = id /\ s.action = a.id
    BY <1>2, <1>8, <2>4
  <2> QED BY <1>1, <2>1, <2>2, <2>3, <2>5 DEF ActionOk, ActionKinds
<1>9. CASE r.kind = "deleteAction" /\ r.id = id /\ b.id # r.action
  <2>1. c = b
    BY <1>9 DEF ActionKinds, ActionAfter
  <2>2. s.kind = "deleteAction" /\ s.action # b.id
    BY <1>2, <1>9
  <2> QED BY <1>1, <1>4, <2>1, <2>2 DEF ActionOk
<1> QED BY <1>5, <1>6, <1>7, <1>8, <1>9 DEF ActionKinds

\* The row takes over what the answer says, where its action is the one in question.
LEMMA ActionWhenEnded ==
  ASSUME NEW P, NEW r \in Done(P), RealActions(P), NEW a, NEW b, NEW id, NEW c,
         a.id = None => a = NoAction,
         r.kind \in ActionKinds /\ r.id = id =>
           /\ c = IF r.kind # "addAction" /\ a.id # r.action THEN a ELSE ActionAfter(r, a)
           /\ r.kind = "addAction" => a = NoAction /\ \A q \in Adding(P) : q.id = id => q = r,
         ~(r.kind \in ActionKinds /\ r.id = id) => c = a,
         a # NoAction => \A q \in Adding(P) : q.id # id,
         ActionOk(Done(P), a, b, id)
  PROVE  ActionOk(Done(P \ {r}), c, b, id)
<1> DEFINE D == Done(P)
<1>1. Done(P \ {r}) = D \ {r} /\ D \subseteq P /\ r \in D
  BY DoneWhenEnded DEF Done
<1> HIDE DEF D
<1>2. ActionOk(D, a, b, id)
  BY DEF D
<1>3. \A q \in D : q.kind \in ActionKinds => q.action # None
  BY <1>1 DEF RealActions
<1>4. a # NoAction => \A q \in D : q.kind = "addAction" => q.id # id
  BY <1>1 DEF Adding
<1>5. CASE ~(r.kind \in ActionKinds /\ r.id = id)
  BY <1>1, <1>2, <1>5 DEF ActionOk, ActionKinds
<1>6. CASE r.kind = "addAction" /\ r.id = id
  <2>1. a = NoAction /\ c = [id |-> r.action, text |-> r.action] /\ r.action # None
    BY <1>1, <1>3, <1>6 DEF ActionKinds, ActionAfter
  <2>2. \A q \in D : q.kind = "addAction" /\ q.id = id => q = r
    BY <1>1, <1>6 DEF Adding, ActionKinds
  <2>3. b # NoAction
    BY <1>1, <1>2, <1>6, <2>1 DEF ActionOk
  <2>4. PICK q \in D : q.kind = "addAction" /\ q.id = id /\ b = [id |-> q.action, text |-> q.action]
    BY <1>2, <2>1, <2>3 DEF ActionOk
  <2>5. c = b /\ c # NoAction
    BY <2>1, <2>2, <2>3, <2>4
  <2> QED BY <1>1, <1>2, <1>6, <2>3, <2>5 DEF ActionOk
<1>7. CASE r.kind # "addAction" /\ r.kind \in ActionKinds /\ r.id = id /\ a.id # r.action
  <2>1. c = a
    BY <1>7
  <2> QED BY <1>1, <1>2, <1>7, <2>1 DEF ActionOk, ActionKinds
<1>8. CASE r.kind = "saveAction" /\ r.id = id /\ a.id = r.action
  <2>1. c = [id |-> a.id, text |-> r.text]
    BY <1>8 DEF ActionKinds, ActionAfter
  <2>2. a.id # None
    BY <1>1, <1>3, <1>8 DEF ActionKinds
  <2>3. c.id = a.id /\ c.text = r.text /\ c # NoAction /\ a # NoAction
    BY <2>1, <2>2, ActionsHave
  <2>4. CASE b = NoAction
    BY <1>1, <1>2, <1>8, <2>3, <2>4 DEF ActionOk
  <2>5. CASE b # NoAction
    <3>1. a.id = b.id
      BY <1>2, <2>3, <2>5 DEF ActionOk
    <3>2. b.text = r.text
      BY <1>1, <1>2, <1>8, <3>1 DEF ActionOk
    <3> QED BY <1>1, <1>2, <2>3, <2>5, <3>1, <3>2 DEF ActionOk
  <2> QED BY <2>4, <2>5
<1>9. CASE r.kind = "deleteAction" /\ r.id = id /\ a.id = r.action
  <2>1. c = NoAction
    BY <1>9 DEF ActionKinds, ActionAfter
  <2>2. a # NoAction
    BY <1>1, <1>3, <1>9, ActionsHave DEF ActionKinds
  <2>3. b = NoAction
    BY <1>1, <1>2, <1>9, <2>2 DEF ActionOk
  <2> QED BY <1>1, <1>2, <1>4, <2>1, <2>2, <2>3 DEF ActionOk
<1> QED BY <1>5, <1>6, <1>7, <1>8, <1>9 DEF ActionKinds

-----------------------------------------------------------------------------
(* A row and the document it shows.                                        *)

LEMMA RowWhenTaken ==
  ASSUME NEW P, NEW r \in Request, NEW s, NEW Q, Taken(P, r, s, Q), Single(P), OwnActions(P),
         RealActions(P), r.kind \in Command, s.ok, NEW l, NEW e \in Expectation, l.id = e.id,
         NEW t, Sound(e, t),
         r.kind = "addAction" /\ l.id = r.id => l.action = NoAction,
         r.kind = "saveAction" /\ e.id = r.id => e.action.id = r.action,
         NEW u, u = IF r.kind \in Update /\ e.id = r.id THEN UpdatedExpectation(r, e) ELSE e,
         RowOk(P, l, e)
  PROVE  RowOk(Q, l, u) /\ u.id = e.id
<1>1. CASE r.kind \in Update /\ e.id = r.id
  <2>1. /\ u.id = e.id /\ u.group = e.group
        /\ u.text = IF r.kind = "edit" THEN r.text ELSE e.text
        /\ u.active = IF r.kind = "toggle" THEN r.active ELSE e.active
        /\ u.action = CASE r.kind = "addAction" -> [id |-> r.action, text |-> r.action]
                        [] r.kind = "saveAction" -> [id |-> e.action.id, text |-> r.text]
                        [] r.kind = "deleteAction" /\ e.action.id = r.action -> NoAction
                        [] OTHER -> e.action
    BY <1>1, UpdatedIs
  <2>2. TextOk(Done(Q), l, u)
    BY <1>1, <2>1, TextWhenTaken DEF RowOk
  <2>3. ActiveOk(Q, l, u)
    BY <1>1, <2>1, ActiveWhenTaken DEF RowOk
  <2>4. u.action = IF r.kind \in ActionKinds THEN ActionAfter(r, e.action) ELSE e.action
    BY <2>1 DEF ActionAfter, ActionKinds
  <2>5. ActionOk(Done(Q), l.action, u.action, e.id)
    BY <1>1, <2>4, ActionWhenTaken DEF RowOk, Sound
  <2> QED BY <2>1, <2>2, <2>3, <2>5 DEF RowOk
<1>2. CASE ~(r.kind \in Update /\ e.id = r.id)
  <2>1. u = e
    BY <1>2
  <2>2. ~(r.kind = "edit" /\ e.id = r.id) /\ ~(r.kind = "toggle" /\ e.id = r.id)
        /\ ~(r.kind \in ActionKinds /\ r.id = e.id)
    BY <1>2 DEF Update, ActionKinds
  <2>3. TextOk(Done(Q), l, u)
    BY <2>1, <2>2, TextWhenTaken DEF RowOk
  <2>4. ActiveOk(Q, l, u)
    BY <2>1, <2>2, ActiveWhenTaken DEF RowOk
  <2>5. ActionOk(Done(Q), l.action, u.action, e.id)
    BY <2>1, <2>2, ActionWhenTaken DEF RowOk, Sound
  <2> QED BY <2>1, <2>3, <2>4, <2>5 DEF RowOk
<1> QED BY <1>1, <1>2

LEMMA RowWhenRefused ==
  ASSUME NEW P, NEW r, NEW s, NEW Q, Taken(P, r, s, Q), Single(P), ~s.ok,
         NEW l, NEW e, r.kind = "toggle" => e.id # r.id, RowOk(P, l, e)
  PROVE  RowOk(Q, l, e)
<1>1. Done(Q) = Done(P)
  BY DoneWhenTaken
<1>2. ActiveOk(Q, l, e)
  BY ActiveWhenTaken DEF RowOk
<1> QED BY <1>1, <1>2 DEF RowOk

\* The answer has arrived: the row has what the command wrote.
LEMMA RowWhenEnded ==
  ASSUME NEW P, NEW r \in Done(P), Single(P), RealActions(P),
         NEW l, NEW e, NEW t, Sound(l, t), NEW w,
         w.group = l.group, w.active = l.active,
         w.text = IF r.kind = "edit" /\ e.id = r.id THEN r.text ELSE l.text,
         r.kind \in ActionKinds /\ r.id = e.id =>
           /\ w.action = IF r.kind # "addAction" /\ l.action.id # r.action THEN l.action
                         ELSE ActionAfter(r, l.action)
           /\ r.kind = "addAction" =>
                l.action = NoAction /\ \A q \in Adding(P) : q.id = e.id => q = r,
         ~(r.kind \in ActionKinds /\ r.id = e.id) => w.action = l.action,
         l.action # NoAction => \A q \in Adding(P) : q.id # e.id,
         RowOk(P, l, e)
  PROVE  RowOk(P \ {r}, w, e)
<1>1. r \in P /\ r.answered
  BY DEF Done
<1>2. TextOk(Done(P \ {r}), w, e)
  BY TextWhenEnded DEF RowOk
<1>3. r.kind = "toggle" /\ r.id = e.id => w.active = e.active
  BY <1>1 DEF RowOk, ActiveOk
<1>4. ActiveOk(P \ {r}, w, e)
  BY <1>1, <1>3, ActiveWhenEnded DEF RowOk
<1>5. ActionOk(Done(P \ {r}), w.action, e.action, e.id)
  BY ActionWhenEnded DEF RowOk, Sound
<1> QED BY <1>2, <1>4, <1>5 DEF RowOk

\* A command that was not carried out has ended: its switch is thrown back.
LEMMA RowWhenDropped ==
  ASSUME NEW P, NEW r \in P, r \notin Done(P), Single(P), NEW l, NEW e, NEW w,
         w.group = l.group, w.text = l.text, w.action = l.action,
         w.active = IF r.kind = "toggle" /\ r.id = e.id THEN ~r.active ELSE l.active,
         r.active \in BOOLEAN, e.active \in BOOLEAN,
         r.kind = "toggle" /\ r.id = e.id => ~r.answered,
         RowOk(P, l, e)
  PROVE  RowOk(P \ {r}, w, e)
<1>1. Done(P \ {r}) = Done(P)
  BY DEF Done
<1>2. TextOk(Done(P), w, e)
  BY DEF RowOk, TextOk
<1>3. r.kind = "toggle" /\ r.id = e.id => w.active = e.active
  <2> SUFFICES ASSUME r.kind = "toggle" /\ r.id = e.id PROVE w.active = e.active
    OBVIOUS
  <2>1. ~(e.active = r.active)
    BY DEF RowOk, ActiveOk
  <2>2. w.active = ~r.active
    OBVIOUS
  <2> QED BY <2>1, <2>2
<1>4. ActiveOk(P \ {r}, w, e)
  BY <1>3, ActiveWhenEnded DEF RowOk
<1> QED BY <1>1, <1>2, <1>4 DEF RowOk

\* A command that was just sent.
LEMMA RowWhenSent ==
  ASSUME NEW P, NEW r, ~r.answered, NEW l, NEW e, NEW w,
         w.group = l.group, w.text = l.text, w.action = l.action,
         w.active = IF r.kind = "toggle" /\ r.id = e.id THEN r.active ELSE l.active,
         r.active \in BOOLEAN, e.active \in BOOLEAN,
         r.kind = "toggle" => \A q \in P : q.kind # "toggle",
         r.kind = "toggle" /\ r.id = e.id => r.active = ~l.active,
         RowOk(P, l, e)
  PROVE  RowOk(P \cup {r}, w, e)
<1>1. Done(P \cup {r}) = Done(P)
  BY DEF Done
<1>2. TextOk(Done(P), w, e)
  BY DEF RowOk, TextOk
<1>3. CASE r.kind = "toggle" /\ r.id = e.id
  <2>1. l.active = e.active /\ r.active = ~l.active /\ w.active = r.active
    BY <1>3 DEF RowOk, ActiveOk
  <2>2. ~(e.active = r.active)
    BY <2>1
  <2>3. \A q \in P \cup {r} : q.kind = "toggle" => q = r
    BY <1>3
  <2>4. ActiveOk(P \cup {r}, w, e)
    BY <1>3, <2>1, <2>2, <2>3 DEF ActiveOk
  <2> QED BY <1>1, <1>2, <2>4 DEF RowOk
<1>4. CASE ~(r.kind = "toggle" /\ r.id = e.id)
  <2>1. ActiveOk(P \cup {r}, w, e)
    BY <1>4 DEF RowOk, ActiveOk
  <2> QED BY <1>1, <1>2, <2>1 DEF RowOk
<1> QED BY <1>3, <1>4

-----------------------------------------------------------------------------
(* The list and the documents it shows.                                    *)

\* What the store makes of a command it carries out.
Stores(r, S, T) ==
  \/ r.kind = "create"
  \/ r.kind \in Update /\ T = AfterUpdate(S, r)
       /\ (r.kind = "saveAction" => \A e \in S : e.id = r.id => e.action.id = r.action)
  \/ r.kind = "delete" /\ T = {e \in S : e.id # r.id}
  \/ r.kind = "deleteGroup" /\ T = {e \in S : e.group # r.id}
  \/ r.kind \in {"saveGroup", "toggleGroup"} /\ T = S

\* What holds of commands under way by themselves.
CommandsOk(P) ==
  Single(P) /\ RealActions(P) /\ P \subseteq Request /\ \A r \in P : r.kind \in Command

LEMMA ActionsAreOwn ==
  ASSUME NEW P, NEW l, NEW t, PageOk(P, l, t)
  PROVE  OwnActions(P)
BY DEF PageOk, AddsOk, OwnActions

LEMMA UpdatedKeepsId ==
  ASSUME NEW e \in Expectation, NEW r \in Request, r.kind \in Update
  PROVE  UpdatedExpectation(r, e).id = e.id
<1>1. PICK u : u = UpdatedExpectation(r, e)
  OBVIOUS
<1>2. u.id = e.id
  BY <1>1, UpdatedIs, ZenonT(30)
<1> QED BY <1>1, <1>2

LEMMA StoreWhenTaken ==
  ASSUME NEW P, CommandsOk(P), NEW r, NEW s, NEW Q, Taken(P, r, s, Q), s.ok,
         NEW l \in Seq(Expectation), NEW S, S \subseteq Expectation, NEW t, NEW v,
         \A e \in S : Sound(e, v), PageOk(P, l, t), NEW T, Stores(r, S, T), StoreOk(P, l, S)
  PROVE  StoreOk(Q, l, T)
<1>1. Done(Q) = Done(P) \cup {s} /\ r \in P /\ s.kind = r.kind
  <2>1. Done(Q) = Done(P) \cup {s}
    BY DoneWhenTaken
  <2> QED BY <2>1 DEF Taken
<1>2. CASE r.kind = "create"
  BY <1>1, <1>2 DEF StoreOk
<1>3. CASE \E q \in Done(P) : q.kind = "create"
  BY <1>1, <1>3 DEF StoreOk
<1>4. CASE r.kind # "create" /\ RowsOk(P, l, S)
  <2>1. r \in Request /\ r.kind \in Command /\ Single(P) /\ RealActions(P) /\ OwnActions(P)
    BY <1>1, ActionsAreOwn DEF CommandsOk
  <2>2. \A u \in T : \E e \in S :
          /\ u = IF r.kind \in Update /\ e.id = r.id THEN UpdatedExpectation(r, e) ELSE e
          /\ r.kind = "saveAction" /\ e.id = r.id => e.action.id = r.action
          /\ r.kind = "delete" => e.id # r.id
          /\ r.kind = "deleteGroup" => e.group # r.id
    BY <1>4 DEF Stores, AfterUpdate, Update
  <2>3. \A e \in S : e \in Expectation /\ Sound(e, v)
    OBVIOUS
  <2>14. \A e \in S : r.kind \in Update => UpdatedExpectation(r, e).id = e.id
    BY <2>1, <2>3, UpdatedKeepsId
  <2>4. ASSUME NEW u \in T
        PROVE  \E e \in S : /\ u.id = e.id
                            /\ r.kind = "delete" => e.id # r.id
                            /\ r.kind = "deleteGroup" => e.group # r.id
                            /\ \A i \in DOMAIN l : l[i].id = e.id => RowOk(Q, l[i], u)
    <3>1. PICK e \in S :
            /\ u = IF r.kind \in Update /\ e.id = r.id THEN UpdatedExpectation(r, e) ELSE e
            /\ r.kind = "saveAction" /\ e.id = r.id => e.action.id = r.action
            /\ r.kind = "delete" => e.id # r.id
            /\ r.kind = "deleteGroup" => e.group # r.id
      BY <2>2
    <3>2. u.id = e.id
      BY <2>14, <3>1
    <3>3. ASSUME NEW i \in DOMAIN l, l[i].id = e.id PROVE RowOk(Q, l[i], u)
      <4>1. PICK row : row = l[i]
        OBVIOUS
      <4>2. RowOk(P, row, e) /\ row.id = e.id
        BY <1>4, <3>3, <4>1 DEF RowsOk
      <4>3. r.kind = "addAction" /\ row.id = r.id => row.action = NoAction
        BY <1>1, <4>1 DEF PageOk, AddsOk, Adding
      <4>4. RowOk(Q, row, u)
        BY <2>1, <2>3, <3>1, <4>2, <4>3, RowWhenTaken
      <4> QED BY <4>1, <4>4
    <3> QED BY <3>1, <3>2, <3>3
  <2>5. RowIds(T) \subseteq RowIds(S)
    BY <2>4 DEF RowIds
  <2>6. RowIds(T) \subseteq Ids(l)
    BY <1>4, <2>5 DEF RowsOk
  <2>7. Gone(s) = Gone(r)
    BY DEF Taken, Gone
  <2>8. Gone(r) \cap RowIds(T) = {}
    <3> SUFFICES ASSUME NEW u \in T, u.id \in Gone(r) PROVE FALSE
      BY DEF RowIds
    <3>1. PICK e \in S : /\ u.id = e.id
                         /\ r.kind = "delete" => e.id # r.id
                         /\ r.kind = "deleteGroup" => e.group # r.id
      BY <2>4
    <3>2. r.kind = "deleteGroup" /\ e.id \in r.members
      BY <3>1 DEF Gone
    <3>3. PICK i \in DOMAIN l : l[i].id = e.id
      BY <1>4 DEF RowsOk, RowIds, Ids
    <3>4. l[i].group = e.group
      BY <1>4, <3>3 DEF RowsOk, RowOk
    <3>5. l[i].group = r.id
      BY <1>1, <3>2, <3>3 DEF PageOk, MembersOk
    <3> QED BY <3>1, <3>2, <3>4, <3>5
  <2>9. \A q \in Done(Q) : Gone(q) \cap RowIds(T) = {}
    BY <1>1, <1>4, <2>5, <2>7, <2>8 DEF RowsOk
  <2>10. \A x \in RowIds(S) \ RowIds(T) : x \in Gone(s)
    <3> SUFFICES ASSUME NEW e \in S, e.id \notin RowIds(T) PROVE e.id \in Gone(r)
      BY <2>7 DEF RowIds
    <3>1. CASE r.kind \in Update /\ T = AfterUpdate(S, r)
      <4>1. PICK u : u = IF e.id = r.id THEN UpdatedExpectation(r, e) ELSE e
        OBVIOUS
      <4>2. u \in T
        BY <3>1, <4>1 DEF AfterUpdate
      <4>3. u.id = e.id
        BY <3>1, <4>1, <2>14
      <4> QED BY <4>2, <4>3 DEF RowIds
    <3>2. CASE r.kind = "delete" /\ T = {d \in S : d.id # r.id}
      BY <3>2 DEF RowIds, Gone
    <3>3. CASE r.kind = "deleteGroup" /\ T = {d \in S : d.group # r.id}
      <4>1. PICK i \in DOMAIN l : l[i].id = e.id
        BY <1>4 DEF RowsOk, RowIds, Ids
      <4>2. l[i].group = e.group
        BY <1>4, <4>1 DEF RowsOk, RowOk
      <4>3. e.group = r.id
        BY <3>3 DEF RowIds
      <4>4. l[i].id \in r.members
        BY <1>1, <3>3, <4>2, <4>3 DEF PageOk, MembersOk
      <4> QED BY <3>3, <4>1, <4>4 DEF Gone
    <3>4. CASE r.kind \in {"saveGroup", "toggleGroup"} /\ T = S
      BY <3>4 DEF RowIds
    <3> QED BY <1>4, <3>1, <3>2, <3>3, <3>4 DEF Stores
  <2>11. \A x \in Ids(l) \ RowIds(T) : \E q \in Done(Q) : x \in Gone(q)
    BY <1>1, <1>4, <2>10 DEF RowsOk
  <2>12. \A q \in Q : q.kind = "toggle" /\ q.answered /\ ~q.ok => q.id \notin RowIds(T)
    <3>1. \A q \in Q : q \in P \/ q = s
      BY DEF Taken
    <3> QED BY <1>4, <2>5, <3>1 DEF RowsOk
  <2>13. \A u \in T, i \in DOMAIN l : l[i].id = u.id => RowOk(Q, l[i], u)
    BY <2>4
  <2> QED BY <2>6, <2>9, <2>11, <2>12, <2>13 DEF RowsOk, StoreOk
<1> QED BY <1>2, <1>3, <1>4 DEF StoreOk

LEMMA StoreWhenRefused ==
  ASSUME NEW P, CommandsOk(P), NEW r, NEW s, NEW Q, Taken(P, r, s, Q), ~s.ok,
         NEW l, NEW S, r.kind = "toggle" => \A e \in S : e.id # r.id, StoreOk(P, l, S)
  PROVE  StoreOk(Q, l, S)
<1>1. Done(Q) = Done(P)
  BY DoneWhenTaken
<1>2. CASE \E q \in Done(P) : q.kind = "create"
  BY <1>1, <1>2 DEF StoreOk
<1>3. CASE RowsOk(P, l, S)
  <2>1. \A q \in Q : q.kind = "toggle" /\ q.answered /\ ~q.ok => q.id \notin RowIds(S)
    <3>1. \A q \in Q : q \in P \/ q = s
      BY DEF Taken
    <3>2. s.kind = "toggle" => s.id \notin RowIds(S)
      BY DEF Taken, RowIds
    <3> QED BY <1>3, <3>1, <3>2 DEF RowsOk
  <2>2. ASSUME NEW e \in S, NEW i \in DOMAIN l, l[i].id = e.id PROVE RowOk(Q, l[i], e)
    <3>1. RowOk(P, l[i], e)
      BY <1>3, <2>2 DEF RowsOk
    <3> QED BY <3>1, RowWhenRefused DEF CommandsOk
  <2> QED BY <1>1, <1>3, <2>1, <2>2 DEF RowsOk, StoreOk
<1> QED BY <1>2, <1>3 DEF StoreOk

LEMMA PageWhenTaken ==
  ASSUME NEW P, NEW r, NEW s, NEW Q, Taken(P, r, s, Q), NEW l, NEW t, PageOk(P, l, t)
  PROVE  PageOk(Q, l, t)
<1>1. \A q \in Q : \E x \in P :
        /\ q.kind = x.kind /\ q.id = x.id /\ q.of = x.of /\ q.action = x.action
        /\ q.members = x.members /\ (IF q = s THEN x = r ELSE x = q)
  BY DEF Taken
<1>2. \A q \in Q : q.of = project
  BY <1>1 DEF PageOk
<1>3. ASSUME NEW q \in Adding(Q)
      PROVE  /\ q.action # t
             /\ \A i \in DOMAIN l : l[i].action.id # q.action /\ (l[i].id = q.id => l[i].action = NoAction)
             /\ \A y \in Q : y.kind \in ActionKinds /\ y.action = q.action => y = q
  <2>1. PICK x \in P :
          /\ q.kind = x.kind /\ q.id = x.id /\ q.of = x.of /\ q.action = x.action
          /\ q.members = x.members /\ (IF q = s THEN x = r ELSE x = q)
    BY <1>1 DEF Adding
  <2>2. x \in Adding(P)
    BY <2>1 DEF Adding
  <2>3. ASSUME NEW y \in Q, y.kind \in ActionKinds, y.action = q.action PROVE y = q
    <3>1. PICK z \in P : /\ y.kind = z.kind /\ y.action = z.action
                         /\ (IF y = s THEN z = r ELSE z = y)
      BY <1>1
    <3>2. z = x
      BY <2>1, <2>2, <2>3, <3>1 DEF PageOk, AddsOk
    <3>3. r \notin Q \/ r = s
      BY DEF Taken
    <3> QED BY <2>1, <3>1, <3>2, <3>3 DEF Adding
  <2> QED BY <2>1, <2>2, <2>3 DEF PageOk, AddsOk
<1>4. MembersOk(Q, l)
  BY <1>1 DEF PageOk, MembersOk
<1> QED BY <1>2, <1>3, <1>4 DEF PageOk, AddsOk

-----------------------------------------------------------------------------
(* The end of a command.                                                   *)

\* The rows of w are rows of l with what the answer says; only rows that are gone
\* from the store anyway are left out.
Takes(r, l, w) ==
  /\ \A j \in DOMAIN l : l[j].id \notin Gone(r) => \E i \in DOMAIN w : w[i].id = l[j].id
  /\ \A i \in DOMAIN w : w[i].id \notin Gone(r)
  /\ \A i \in DOMAIN w : \E j \in DOMAIN l :
       /\ w[i].id = l[j].id /\ w[i].group = l[j].group /\ w[i].active = l[j].active
       /\ w[i].text = IF r.kind = "edit" /\ l[j].id = r.id THEN r.text ELSE l[j].text
       /\ r.kind \in ActionKinds /\ r.id = l[j].id =>
            /\ w[i].action = IF r.kind # "addAction" /\ l[j].action.id # r.action THEN l[j].action
                             ELSE ActionAfter(r, l[j].action)
            /\ r.kind = "addAction" => l[j].action = NoAction
       /\ ~(r.kind \in ActionKinds /\ r.id = l[j].id) => w[i].action = l[j].action

LEMMA StoreWhenEnded ==
  ASSUME NEW P, CommandsOk(P), NEW r \in Done(P), r.kind # "create",
         NEW l, NEW S, NEW t, NEW v, \A i \in DOMAIN l : Sound(l[i], v),
         PageOk(P, l, t), NEW w, Takes(r, l, w),
         r.kind = "addAction" => \A q \in Adding(P) : q.id = r.id => q = r,
         StoreOk(P, l, S)
  PROVE  StoreOk(P \ {r}, w, S)
<1>1. Done(P \ {r}) = Done(P) \ {r} /\ r \in P /\ r.answered /\ r.ok
  BY DoneWhenEnded DEF Done
<1>2. CASE \E q \in Done(P) : q.kind = "create"
  BY <1>1, <1>2 DEF StoreOk
<1>3. CASE RowsOk(P, l, S)
  <2>1. RowIds(S) \subseteq Ids(w)
    <3>1. Gone(r) \cap RowIds(S) = {} /\ RowIds(S) \subseteq Ids(l)
      BY <1>3 DEF RowsOk
    <3> QED BY <3>1 DEF Ids, Takes
  <2>2. Ids(w) \subseteq Ids(l) /\ Ids(w) \cap Gone(r) = {}
    BY DEF Ids, Takes
  <2>3. \A q \in Done(P \ {r}) : Gone(q) \cap RowIds(S) = {}
    BY <1>1, <1>3 DEF RowsOk
  <2>4. \A x \in Ids(w) \ RowIds(S) : \E q \in Done(P \ {r}) : x \in Gone(q)
    BY <1>1, <1>3, <2>2 DEF RowsOk
  <2>5. \A q \in P \ {r} : q.kind = "toggle" /\ q.answered /\ ~q.ok => q.id \notin RowIds(S)
    BY <1>3 DEF RowsOk
  <2>6. ASSUME NEW e \in S, NEW i \in DOMAIN w, w[i].id = e.id PROVE RowOk(P \ {r}, w[i], e)
    <3>1. PICK j \in DOMAIN l :
            /\ w[i].id = l[j].id /\ w[i].group = l[j].group /\ w[i].active = l[j].active
            /\ w[i].text = IF r.kind = "edit" /\ l[j].id = r.id THEN r.text ELSE l[j].text
            /\ r.kind \in ActionKinds /\ r.id = l[j].id =>
                 /\ w[i].action = IF r.kind # "addAction" /\ l[j].action.id # r.action THEN l[j].action
                                  ELSE ActionAfter(r, l[j].action)
                 /\ r.kind = "addAction" => l[j].action = NoAction
            /\ ~(r.kind \in ActionKinds /\ r.id = l[j].id) => w[i].action = l[j].action
      BY DEF Takes
    <3>2. PICK x : x = l[j]
      OBVIOUS
    <3>3. PICK y : y = w[i]
      OBVIOUS
    <3>4. RowOk(P, x, e) /\ x.id = e.id /\ Sound(x, v)
      BY <1>3, <2>6, <3>1, <3>2 DEF RowsOk
    <3>5. x.action # NoAction => \A q \in Adding(P) : q.id # e.id
      BY <3>2, <3>4 DEF PageOk, AddsOk
    <3>6. /\ y.group = x.group /\ y.active = x.active
          /\ y.text = IF r.kind = "edit" /\ e.id = r.id THEN r.text ELSE x.text
          /\ r.kind \in ActionKinds /\ r.id = e.id =>
               y.action = IF r.kind # "addAction" /\ x.action.id # r.action THEN x.action
                          ELSE ActionAfter(r, x.action)
          /\ r.kind = "addAction" /\ r.id = e.id => x.action = NoAction
          /\ ~(r.kind \in ActionKinds /\ r.id = e.id) => y.action = x.action
      BY <3>1, <3>2, <3>3, <3>4 DEF ActionKinds
    <3>7. r.kind \in ActionKinds /\ r.id = e.id =>
            /\ y.action = IF r.kind # "addAction" /\ x.action.id # r.action THEN x.action
                          ELSE ActionAfter(r, x.action)
            /\ r.kind = "addAction" =>
                 x.action = NoAction /\ \A q \in Adding(P) : q.id = e.id => q = r
      BY <3>6
    <3>8. RowOk(P \ {r}, y, e)
      BY <3>4, <3>5, <3>6, <3>7, RowWhenEnded DEF CommandsOk
    <3> QED BY <3>3, <3>8
  <2> QED BY <2>1, <2>3, <2>4, <2>5, <2>6 DEF RowsOk, StoreOk
<1> QED BY <1>2, <1>3 DEF StoreOk

\* The rows of w are those of l, the switch of r thrown back.
Drops(r, l, w) ==
  /\ DOMAIN w = DOMAIN l
  /\ \A i \in DOMAIN l :
       /\ w[i].id = l[i].id /\ w[i].group = l[i].group /\ w[i].text = l[i].text
       /\ w[i].action = l[i].action
       /\ w[i].active = IF r.kind = "toggle" /\ r.id = l[i].id THEN ~r.active ELSE l[i].active

LEMMA StoreWhenDropped ==
  ASSUME NEW P, CommandsOk(P), NEW r \in P, r \notin Done(P),
         NEW l, NEW S, S \subseteq Expectation, NEW w, Drops(r, l, w), StoreOk(P, l, S)
  PROVE  StoreOk(P \ {r}, w, S)
<1>1. Done(P \ {r}) = Done(P)
  BY DEF Done
<1>2. CASE \E q \in Done(P) : q.kind = "create"
  BY <1>1, <1>2 DEF StoreOk
<1>3. CASE RowsOk(P, l, S)
  <2>1. Ids(w) = Ids(l)
    BY DEF Ids, Drops
  <2>2. ASSUME NEW e \in S, NEW i \in DOMAIN w, w[i].id = e.id PROVE RowOk(P \ {r}, w[i], e)
    <3>1. PICK x : x = l[i]
      OBVIOUS
    <3>2. PICK y : y = w[i]
      OBVIOUS
    <3>3. /\ y.group = x.group /\ y.text = x.text /\ y.action = x.action /\ x.id = e.id
          /\ y.active = IF r.kind = "toggle" /\ r.id = e.id THEN ~r.active ELSE x.active
      BY <2>2, <3>1, <3>2 DEF Drops
    <3>4. RowOk(P, x, e)
      BY <1>3, <3>1, <3>3, <2>2 DEF RowsOk, Drops
    <3>5. r.active \in BOOLEAN /\ e.active \in BOOLEAN
      BY DEF CommandsOk, Request, Expectation
    <3>6. r.kind = "toggle" /\ r.id = e.id => ~r.answered
      BY <1>3 DEF RowsOk, RowIds, Done
    <3>7. RowOk(P \ {r}, y, e)
      BY <3>3, <3>4, <3>5, <3>6, RowWhenDropped DEF CommandsOk
    <3> QED BY <3>2, <3>7
  <2> QED BY <1>1, <1>3, <2>1, <2>2 DEF RowsOk, StoreOk
<1> QED BY <1>2, <1>3 DEF StoreOk

LEMMA PageWhenDropped ==
  ASSUME NEW P, NEW r, NEW l, NEW w, NEW t, Drops(r, l, w), PageOk(P, l, t)
  PROVE  PageOk(P \ {r}, w, t)
<1>1. RowsDiffer(w)
  BY DEF PageOk, RowsDiffer, Drops
<1>2. AddsOk(P \ {r}, w, t)
  <2>1. Adding(P \ {r}) \subseteq Adding(P)
    BY DEF Adding
  <2> QED BY <2>1 DEF PageOk, AddsOk, Drops
<1>3. MembersOk(P \ {r}, w)
  BY DEF PageOk, MembersOk, Drops
<1> QED BY <1>1, <1>2, <1>3 DEF PageOk

LEMMA PageWhenEnded ==
  ASSUME NEW P, CommandsOk(P), NEW r \in P, NEW l, NEW w, NEW t, NEW v,
         r.kind \notin ActionKinds, PageOk(P, l, t),
         \A i \in DOMAIN w : \E j \in DOMAIN l :
           w[i].id = l[j].id /\ w[i].group = l[j].group /\ w[i].action = l[j].action,
         RowsDiffer(w), v = t \/ \E i \in DOMAIN l : v = l[i].action.id
  PROVE  PageOk(P \ {r}, w, v)
<1>1. ASSUME NEW q \in Adding(P \ {r})
      PROVE  /\ q.action # v
             /\ \A i \in DOMAIN w : w[i].action.id # q.action /\ (w[i].id = q.id => w[i].action = NoAction)
             /\ \A y \in P \ {r} : y.kind \in ActionKinds /\ y.action = q.action => y = q
  <2>1. q \in Adding(P)
    BY DEF Adding
  <2> QED BY <2>1 DEF PageOk, AddsOk
<1>2. MembersOk(P \ {r}, w)
  BY DEF PageOk, MembersOk
<1> QED BY <1>1, <1>2 DEF PageOk, AddsOk

\* The rows of w are those of l but for the action of the one that r is about.
LEMMA PageWhenActionEnded ==
  ASSUME NEW P, CommandsOk(P), NEW r \in P, r.kind \in ActionKinds, NEW l, NEW w, NEW t,
         PageOk(P, l, t), DOMAIN w = DOMAIN l,
         \A i \in DOMAIN l : w[i].id = l[i].id /\ w[i].group = l[i].group,
         \A i \in DOMAIN l : \/ w[i].action = l[i].action
                             \/ /\ w[i].action = ActionAfter(r, l[i].action) /\ l[i].id = r.id
                                /\ r.kind # "addAction" => l[i].action.id = r.action,
         r.kind = "addAction" => \A q \in Adding(P) : q.id = r.id => q = r,
         NEW v, v = t \/ (r.kind = "addAction" /\ v = r.action)
  PROVE  PageOk(P \ {r}, w, v)
<1>1. ASSUME NEW q \in Adding(P \ {r})
      PROVE  /\ q.action # v
             /\ \A i \in DOMAIN w : w[i].action.id # q.action /\ (w[i].id = q.id => w[i].action = NoAction)
             /\ \A y \in P \ {r} : y.kind \in ActionKinds /\ y.action = q.action => y = q
  <2>1. q \in Adding(P) /\ q # r /\ q.kind = "addAction" /\ q \in P /\ q.action # None
    BY DEF Adding, CommandsOk, RealActions, ActionKinds
  <2>2. q.action # r.action
    BY <2>1 DEF PageOk, AddsOk
  <2>3. q.action # v
    BY <2>1, <2>2 DEF PageOk, AddsOk
  <2>4. ASSUME NEW i \in DOMAIN w
        PROVE  w[i].action.id # q.action /\ (w[i].id = q.id => w[i].action = NoAction)
    <3>1. CASE w[i].action = l[i].action
      BY <2>1, <3>1 DEF PageOk, AddsOk
    <3>2. CASE /\ w[i].action = ActionAfter(r, l[i].action) /\ l[i].id = r.id
               /\ r.kind # "addAction" => l[i].action.id = r.action
      <4>1. PICK a : a = l[i].action
        OBVIOUS
      <4>2. r.kind = "addAction" => ActionAfter(r, a).id = r.action /\ r.id # q.id
        BY <2>1, ActionsHave DEF ActionAfter
      <4>3. r.kind = "saveAction" => ActionAfter(r, a).id = a.id
        BY ActionsHave DEF ActionAfter
      <4>4. r.kind = "deleteAction" => ActionAfter(r, a) = NoAction \/ ActionAfter(r, a) = a
        BY DEF ActionAfter
      <4>5. a.id # q.action /\ (l[i].id = q.id => a = NoAction)
        BY <2>1, <4>1 DEF PageOk, AddsOk
      <4>6. CASE r.kind = "addAction"
        BY <2>1, <2>2, <3>2, <4>1, <4>2, <4>6
      <4>7. CASE r.kind = "saveAction"
        <5>1. a.id = r.action /\ r.action # None
          BY <3>2, <4>1, <4>7 DEF CommandsOk, RealActions, ActionKinds
        <5>2. l[i].id # q.id
          BY <4>5, <5>1, ActionsHave
        <5> QED BY <3>2, <4>1, <4>3, <4>5, <4>7, <5>2
      <4>8. CASE r.kind = "deleteAction"
        BY <2>1, <3>2, <4>1, <4>4, <4>5, <4>8, ActionsHave
      <4> QED BY <4>6, <4>7, <4>8 DEF ActionKinds
    <3> QED BY <3>1, <3>2
  <2>5. \A y \in P \ {r} : y.kind \in ActionKinds /\ y.action = q.action => y = q
    BY <2>1 DEF PageOk, AddsOk
  <2> QED BY <2>3, <2>4, <2>5
<1>2. RowsDiffer(w) /\ MembersOk(P \ {r}, w)
  BY DEF PageOk, RowsDiffer, MembersOk
<1> QED BY <1>1, <1>2 DEF PageOk, AddsOk

\* A command that was just sent, and what is shown of it at once.
Throws(r, l, w) ==
  /\ DOMAIN w = DOMAIN l
  /\ \A i \in DOMAIN l :
       /\ w[i].id = l[i].id /\ w[i].group = l[i].group /\ w[i].text = l[i].text
       /\ w[i].action = l[i].action
       /\ w[i].active = IF r.kind = "toggle" /\ r.id = l[i].id THEN r.active ELSE l[i].active

LEMMA StoreWhenSent ==
  ASSUME NEW P, NEW r \in Request, ~r.answered, NEW l, NEW S, S \subseteq Expectation, NEW w, Throws(r, l, w),
         r.kind = "toggle" => \A q \in P : q.kind # "toggle",
         r.kind = "toggle" => \A i \in DOMAIN l : l[i].id = r.id => r.active = ~l[i].active,
         StoreOk(P, l, S)
  PROVE  StoreOk(P \cup {r}, w, S)
<1>1. Done(P \cup {r}) = Done(P)
  BY DEF Done
<1>2. CASE \E q \in Done(P) : q.kind = "create"
  BY <1>1, <1>2 DEF StoreOk
<1>3. CASE RowsOk(P, l, S)
  <2>1. Ids(w) = Ids(l)
    BY DEF Ids, Throws
  <2>2. ASSUME NEW e \in S, NEW i \in DOMAIN w, w[i].id = e.id PROVE RowOk(P \cup {r}, w[i], e)
    <3>1. PICK x : x = l[i]
      OBVIOUS
    <3>2. PICK y : y = w[i]
      OBVIOUS
    <3>3. /\ y.group = x.group /\ y.text = x.text /\ y.action = x.action /\ x.id = e.id
          /\ y.active = IF r.kind = "toggle" /\ r.id = e.id THEN r.active ELSE x.active
      BY <2>2, <3>1, <3>2 DEF Throws
    <3>4. RowOk(P, x, e)
      BY <1>3, <3>1, <3>3, <2>2 DEF RowsOk, Throws
    <3>5. r.active \in BOOLEAN /\ e.active \in BOOLEAN
      BY DEF Request, Expectation
    <3>6. r.kind = "toggle" /\ r.id = e.id => r.active = ~x.active
      BY <2>2, <3>1, <3>3 DEF Throws
    <3>7. RowOk(P \cup {r}, y, e)
      BY <3>3, <3>4, <3>5, <3>6, RowWhenSent
    <3> QED BY <3>2, <3>7
  <2> QED BY <1>1, <1>3, <2>1, <2>2 DEF RowsOk, StoreOk
<1> QED BY <1>2, <1>3 DEF StoreOk

LEMMA PageWhenSent ==
  ASSUME NEW P, NEW r, r.of = project, NEW l, NEW w, Throws(r, l, w), NEW t, PageOk(P, l, t),
         r.kind = "addAction" =>
           /\ r.action # t
           /\ \A i \in DOMAIN l : l[i].action.id # r.action /\ (l[i].id = r.id => l[i].action = NoAction)
           /\ \A q \in P : q.action # r.action,
         r.kind \in {"saveAction", "deleteAction"} => \A q \in Adding(P) : q.action # r.action,
         r.kind = "deleteGroup" =>
           r.members = {l[i].id : i \in {j \in DOMAIN l : l[j].group = r.id}}
  PROVE  PageOk(P \cup {r}, w, t)
<1>1. ASSUME NEW q \in Adding(P \cup {r})
      PROVE  /\ q.action # t
             /\ \A i \in DOMAIN w : w[i].action.id # q.action /\ (w[i].id = q.id => w[i].action = NoAction)
             /\ \A y \in P \cup {r} : y.kind \in ActionKinds /\ y.action = q.action => y = q
  <2>1. CASE q \in Adding(P)
    BY <2>1 DEF PageOk, AddsOk, Throws, Adding, ActionKinds
  <2>2. CASE q = r
    BY <2>2 DEF PageOk, AddsOk, Throws, Adding
  <2> QED BY <2>1, <2>2 DEF Adding
<1>2. RowsDiffer(w)
  BY DEF PageOk, RowsDiffer, Throws
<1>3. MembersOk(P \cup {r}, w)
  <2>1. ASSUME r.kind = "deleteGroup", NEW i \in DOMAIN l
        PROVE  l[i].group = r.id <=> l[i].id \in r.members
    <3>1. l[i].group = r.id => l[i].id \in r.members
      BY <2>1
    <3>2. ASSUME l[i].id \in r.members PROVE l[i].group = r.id
      <4>1. PICK j \in DOMAIN l : l[j].group = r.id /\ l[i].id = l[j].id
        BY <2>1, <3>2
      <4>2. i = j
        BY <4>1 DEF PageOk, RowsDiffer
      <4> QED BY <4>1, <4>2
    <3> QED BY <3>1, <3>2
  <2> QED BY <2>1 DEF PageOk, MembersOk, Throws
<1> QED BY <1>1, <1>2, <1>3 DEF PageOk, AddsOk

-----------------------------------------------------------------------------
(* The steps of the page keep the list of quiet times.                     *)

QuietInv == OnceInv /\ QuietOk

LEMMA CommandsAreOk ==
  ASSUME OnceInv
  PROVE  CommandsOk(Commands(pending))
<1>1. Single(Commands(pending))
  BY CommandsAreSingle DEF OnceInv
<1>2. \A r \in Commands(pending) : r \in pending /\ r.kind \in Command
  BY DEF Commands
<1>3. \A r \in Commands(pending) : r \in Request /\ (r.kind \in ActionKinds => r.action # None)
  BY <1>2, RequestHas DEF OnceInv, Sane, ActionKinds
<1> QED BY <1>1, <1>2, <1>3 DEF CommandsOk, RealActions

LEMMA StoredIs ==
  ASSUME Base
  PROVE  /\ stored[project] \subseteq Expectation /\ Unique(stored[project])
         /\ \A e \in stored[project] : Sound(e, lastText)
BY DEF Base, TypeOk, DocumentsOk

\* A step that concerns neither commands nor rows.
LEMMA QuietStays ==
  ASSUME QuietOk, trusted' => trusted, UNCHANGED <<project, list>>,
         stored'[project] = stored[project], Commands(pending') = Commands(pending),
         target'["action"] = target["action"] \/
           \E i \in DOMAIN list : target'["action"] = list[i].action.id
  PROVE  QuietOk'
<1> SUFFICES ASSUME trusted' PROVE
      /\ PageOk(Commands(pending), list, target["action"])'
      /\ StoreOk(Commands(pending), list, stored[project])'
  BY DEF QuietOk
<1>1. PageOk(Commands(pending), list, target["action"]) /\ StoreOk(Commands(pending), list, stored[project])
  BY DEF QuietOk
<1>2. PICK P, t : P = Commands(pending) /\ t = target'["action"]
  OBVIOUS
<1>3. AddsOk(P, list, t)
  BY <1>1, <1>2 DEF PageOk, AddsOk
<1>4. PageOk(P, list, t)
  BY <1>1, <1>2, <1>3 DEF PageOk
<1>5. PageOk(Commands(pending), list, target["action"])'
  BY <1>2, <1>4 DEF PageOk, AddsOk
<1>6. StoreOk(Commands(pending), list, stored[project])'
  BY <1>1
<1> QED BY <1>5, <1>6

LEMMA CommandThrows ==
  ASSUME Base, NEW kind \in Command, NEW r, NewCommand(r, kind), PageWaits(kind, r)
  PROVE  Throws(r, list, list')
<1>1. r \in Request /\ r.kind = kind /\ list \in Seq(Expectation)
  BY DEF NewCommand, Base, TypeOk
<1>2. CASE kind = "toggle"
  <2>1. list' = Updated(list, r)
    BY <1>2 DEF PageWaits
  <2>2. /\ DOMAIN list' = DOMAIN list
        /\ \A i \in DOMAIN list :
             list'[i] = IF list[i].id = r.id THEN UpdatedExpectation(r, list[i]) ELSE list[i]
    BY <1>1, <1>2, <2>1, UpdatedListIs DEF Update
  <2>3. ASSUME NEW i \in DOMAIN list
        PROVE  /\ list'[i].id = list[i].id /\ list'[i].group = list[i].group
               /\ list'[i].text = list[i].text /\ list'[i].action = list[i].action
               /\ list'[i].active = IF r.kind = "toggle" /\ r.id = list[i].id THEN r.active
                                    ELSE list[i].active
    <3>1. PICK e \in Expectation : e = list[i]
      BY <1>1
    <3>2. PICK u : u = UpdatedExpectation(r, e)
      OBVIOUS
    <3>3. /\ u.id = e.id /\ u.group = e.group /\ u.text = e.text /\ u.active = r.active
          /\ u.action = e.action
      BY <1>1, <1>2, <3>2 DEF UpdatedExpectation, Expectation
    <3> QED BY <1>1, <1>2, <2>2, <3>1, <3>2, <3>3
  <2> QED BY <2>2, <2>3 DEF Throws
<1>3. CASE kind # "toggle"
  <2>1. list' = list
    BY <1>3 DEF PageWaits
  <2> QED BY <1>1, <1>3, <2>1 DEF Throws
<1> QED BY <1>2, <1>3

LEMMA CommandKeepsQuiet ==
  ASSUME QuietInv, PageCommand
  PROVE  QuietOk'
<1>1. Base /\ BusyOk /\ QuietOk
  BY DEF QuietInv, OnceInv
<1>2. PICK kind \in Command : \E r : NewCommand(r, kind) /\ PageWaits(kind, r) /\ Means(kind, r)
  BY <1>1, CommandSent
<1>3. PICK r : NewCommand(r, kind) /\ PageWaits(kind, r) /\ Means(kind, r)
  BY <1>2
<1>4. Commands(pending') = Commands(pending) \cup {r} /\ stored' = stored
  BY <1>1, <1>3, SendIs
<1>5. UNCHANGED <<project, trusted, target>>
  BY <1>3 DEF PageWaits
<1>6. r \in Request /\ r.kind = kind /\ r.of = project /\ ~r.answered
  BY <1>3 DEF NewCommand
<1> DEFINE P == Commands(pending)
<1>7. \A q \in P : q \in pending /\ Sane(q, lastText) /\ q.kind \in Command /\ q.action \in Nat
  BY <1>1, RequestHas DEF Commands, Request
<1>8. Throws(r, list, list')
  BY <1>1, <1>3, CommandThrows
<1> HIDE DEF P
<1> SUFFICES ASSUME trusted PROVE
      PageOk(P \cup {r}, list', target["action"]) /\ StoreOk(P \cup {r}, list', stored[project])
  BY <1>4, <1>5 DEF QuietOk, P, PageOk, AddsOk
<1>9. PageOk(P, list, target["action"]) /\ StoreOk(P, list, stored[project])
  BY <1>1 DEF QuietOk, P
<1>10. ASSUME kind = "toggle"
       PROVE  /\ \A q \in P : q.kind # "toggle"
              /\ \A i \in DOMAIN list : list[i].id = r.id => r.active = ~list[i].active
  <2>1. "switch" \notin saving
    BY <1>3, <1>10 DEF PageWaits
  <2>2. \A q \in P : q.kind # "toggle"
    BY <1>1, <2>1 DEF P, BusyOk, Busy
  <2>3. list \in Seq(Expectation) /\ selected \in Ids(list) /\ r.id = selected /\ r.active = ~Selected.active
    BY <1>1, <1>3, <1>10 DEF Means, Base, TypeOk
  <2>4. PICK j \in DOMAIN list : Selected = list[j] /\ Selected.id = selected
    BY <2>3, SelectedIs
  <2>5. \A i \in DOMAIN list : list[i].id = r.id => i = j
    BY <1>9, <2>3, <2>4 DEF PageOk, RowsDiffer
  <2> QED BY <2>2, <2>3, <2>4, <2>5
<1>11. StoreOk(P \cup {r}, list', stored[project])
  <2>1. stored[project] \subseteq Expectation
    BY <1>1, StoredIs
  <2>2. r.kind = "toggle" => \A q \in P : q.kind # "toggle"
    BY <1>6, <1>10
  <2>3. r.kind = "toggle" => \A i \in DOMAIN list : list[i].id = r.id => r.active = ~list[i].active
    BY <1>6, <1>10
  <2> QED BY <1>6, <1>8, <1>9, <2>1, <2>2, <2>3, StoreWhenSent
<1>12. ASSUME kind = "addAction"
       PROVE  /\ r.action # target["action"]
              /\ \A i \in DOMAIN list : list[i].action.id # r.action
              /\ \A i \in DOMAIN list : list[i].id = r.id => list[i].action = NoAction
              /\ \A q \in P : q.action # r.action
  <2>1. /\ r.action = lastText + 1 /\ r.id = selected /\ selected \in Ids(list)
        /\ Selected.action = NoAction /\ list \in Seq(Expectation)
    BY <1>1, <1>3, <1>12 DEF Means, New, Base, TypeOk
  <2>2. /\ lastText \in Nat /\ target["action"] \in Nat /\ target["action"] <= lastText
        /\ \A i \in DOMAIN list : list[i].action.id <= lastText
    <3>1. lastText \in Nat /\ target["action"] \in Nat
      BY <1>1, ExpectationPageAssumption DEF Base, TypeOk, Dialog
    <3>2. target["action"] <= lastText /\ \A i \in DOMAIN list : Sound(list[i], lastText)
      BY <1>1 DEF Base, DocumentsOk
    <3> QED BY <3>1, <3>2 DEF Sound
  <2>3. ASSUME NEW i \in DOMAIN list PROVE list[i].action.id \in Nat
    <3>1. PICK e \in Expectation : e = list[i]
      BY <2>1
    <3>2. e.action \in Action
      BY DEF Expectation
    <3>3. e.action.id \in Nat
      BY <3>2 DEF Action
    <3> QED BY <3>1, <3>3
  <2>4. PICK j \in DOMAIN list : Selected = list[j] /\ Selected.id = selected
    BY <2>1, SelectedIs
  <2>5. \A i \in DOMAIN list : list[i].id = r.id => i = j
    BY <1>9, <2>1, <2>4 DEF PageOk, RowsDiffer
  <2>6. \A q \in P : q.action # r.action
    BY <1>7, <2>1, <2>2 DEF Sane
  <2> QED BY <2>1, <2>2, <2>3, <2>4, <2>5, <2>6
<1>13. kind \in {"saveAction", "deleteAction"} => \A q \in Adding(P) : q.action # r.action
  BY <1>3, <1>9 DEF Means, PageOk, AddsOk
<1>14. kind = "deleteGroup" => r.members = {list[i].id : i \in {j \in DOMAIN list : list[j].group = r.id}}
  BY <1>3 DEF Means
<1>15. PICK w : w = list'
  OBVIOUS
<1>16. PageOk(P \cup {r}, w, target["action"])
  BY <1>6, <1>8, <1>9, <1>12, <1>13, <1>14, <1>15, PageWhenSent
<1> QED BY <1>11, <1>15, <1>16

LEMMA ServeKeepsQuiet ==
  ASSUME QuietInv, NEW r \in pending, Serve(r)
  PROVE  QuietOk'
<1>1. Base /\ QuietOk /\ CommandsOk(Commands(pending))
  BY CommandsAreOk DEF QuietInv, OnceInv
<1>2. Served(r) /\ UNCHANGED <<project, list, trusted, target>>
  BY <1>1, ServeIs DEF Serve, listVars
<1>3. CASE r.kind \in Query
  <2>1. PICK s : /\ Answers(s, r)
                 /\ Commands(pending') = (Commands(pending) \ {r}) \cup
                      (IF r.kind \in Command THEN {s} ELSE {})
    BY <1>1, ServedCommands
  <2>2. Commands(pending') = Commands(pending)
    BY <1>3, <2>1 DEF Commands, Query, Command
  <2>3. stored' = stored
    BY <1>2, <1>3 DEF Served, ServedQuery, ServedCreate, ServedUpdate, ServedDelete, ServedGroup,
                      ServedDeleteGroup, RefusedByServer, Query, Command, Update, serverVars
  <2> QED BY <1>1, <1>2, <2>2, <2>3, QuietStays
<1>4. CASE r.kind \in Command
  <2> DEFINE P == Commands(pending)
             S == stored[project]
             T == stored'[project]
             t == target["action"]
  <2>1. PICK s : /\ Answers(s, r)
                 /\ pending' = (pending \ {r}) \cup {s} /\ AnswersWith(r, s.ok)
                 /\ Commands(pending') = (P \ {r}) \cup (IF r.kind \in Command THEN {s} ELSE {})
    BY <1>1, ServedCommands
  <2>2. PICK Q : Q = Commands(pending')
    OBVIOUS
  <2>3. r \in P /\ Taken(P, r, s, Q)
    <3>1. r \in P /\ ~r.answered
      BY <1>4 DEF Serve, Commands
    <3> QED BY <1>4, <2>1, <2>2, <3>1 DEF Taken, Answers
  <2>4. \A ok : AnswersWith(r, ok) => s.ok = ok
    <3> SUFFICES ASSUME NEW ok, AnswersWith(r, ok) PROVE s.ok = ok
      OBVIOUS
    <3>1. PICK x : Answers(x, r) /\ x.ok = ok /\ pending' = (pending \ {r}) \cup {x}
      BY DEF AnswersWith
    <3>2. s \in (pending \ {r}) \cup {x}
      BY <2>1, <3>1
    <3>3. s \notin pending \ {r}
      BY <1>1, <2>1 DEF Answers, Base, RequestsOk, Sensible, OwnNumbers
    <3> QED BY <3>1, <3>2, <3>3
  <2>5. r.of \in Project /\ stored \in [Project -> SUBSET Expectation]
    BY <1>1, RequestHas DEF Base, TypeOk
  <2> SUFFICES ASSUME trusted PROVE PageOk(Q, list, t) /\ StoreOk(Q, list, T)
    BY <1>2, <2>2 DEF QuietOk, PageOk, AddsOk
  <2>6. PageOk(P, list, t) /\ StoreOk(P, list, S)
    BY <1>1 DEF QuietOk
  <2>7. r.of = project
    BY <2>3, <2>6 DEF PageOk
  <2>8. S \subseteq Expectation /\ Unique(S) /\ \A e \in S : Sound(e, lastText)
    BY <1>1, StoredIs
  <2>9. list \in Seq(Expectation)
    BY <1>1 DEF Base, TypeOk
  <2> HIDE DEF P, t
  <2>10. PageOk(Q, list, t)
    BY <2>3, <2>6, PageWhenTaken
  <2>11. CASE RefusedByServer(r)
    <3>1. s.ok = FALSE /\ T = S /\ (r.kind = "toggle" => \A e \in S : e.id # r.id)
      BY <2>4, <2>7, <1>2, <2>11 DEF RefusedByServer, serverVars, Update
    <3> HIDE DEF S, T
    <3>2. StoreOk(Q, list, S)
      BY <1>1, <2>3, <2>6, <3>1, StoreWhenRefused DEF P
    <3> QED BY <2>10, <3>1, <3>2
  <2>12. CASE ~RefusedByServer(r)
    <3>1. s.ok = TRUE
      BY <1>2, <1>4, <2>4, <2>12 DEF Served, ServedQuery, ServedCreate, ServedUpdate, ServedDelete,
                      ServedGroup, ServedDeleteGroup, Query, Command
    <3>2. Stores(r, S, T)
      <4>1. CASE ServedCreate(r)
        BY <4>1 DEF ServedCreate, Stores
      <4>2. CASE ServedUpdate(r)
        <5>1. T = AfterUpdate(S, r)
          BY <2>5, <2>7, <4>2 DEF ServedUpdate
        <5>2. r.kind = "saveAction" => \A e \in S : e.id = r.id => e.action.id = r.action
          BY <2>7, <2>8, <4>2 DEF ServedUpdate, Unique
        <5> QED BY <4>2, <5>1, <5>2 DEF ServedUpdate, Stores
      <4>3. CASE ServedDelete(r)
        BY <2>5, <2>7, <4>3 DEF ServedDelete, Stores
      <4>4. CASE ServedGroup(r)
        BY <4>4 DEF ServedGroup, Stores
      <4>5. CASE ServedDeleteGroup(r)
        BY <2>5, <2>7, <4>5 DEF ServedDeleteGroup, Stores
      <4>6. ~ServedQuery(r)
        BY <1>4 DEF ServedQuery, Query, Command
      <4> QED BY <1>2, <2>12, <4>1, <4>2, <4>3, <4>4, <4>5, <4>6 DEF Served
    <3> HIDE DEF S, T
    <3>3. StoreOk(Q, list, T)
      BY <1>1, <2>3, <2>6, <2>8, <2>9, <3>1, <3>2, StoreWhenTaken DEF P
    <3> QED BY <2>10, <3>3
  <2> QED BY <2>11, <2>12
<1>5. r.kind \in Query \cup Command
  BY <1>1, RequestHas DEF Request
<1> QED BY <1>3, <1>4, <1>5

\* What an answer that is shown makes of the rows.
LEMMA WithoutEnds ==
  ASSUME NEW l \in Seq(Expectation), NEW r, r.kind \in {"delete", "deleteGroup"},
         NEW w, w = Without(l, Gone(r)), RowsDiffer(l)
  PROVE  /\ Takes(r, l, w) /\ RowsDiffer(w)
         /\ \A i \in DOMAIN w : \E j \in DOMAIN l :
              w[i].id = l[j].id /\ w[i].group = l[j].group /\ w[i].action = l[j].action
<1>1. Keeps(w, l, Gone(r))
  BY WithoutKeeps
<1>2. \A i \in DOMAIN w : \E j \in DOMAIN l : w[i] = l[j] /\ l[j].id \notin Gone(r)
  BY <1>1 DEF Keeps
<1>3. \A j \in DOMAIN l : l[j].id \notin Gone(r) => \E i \in DOMAIN w : w[i] = l[j]
  BY <1>1 DEF Keeps
<1>4. RowsDiffer(w)
  BY <1>1 DEF Keeps
<1> HIDE DEF Gone
<1>5. Takes(r, l, w)
  BY <1>2, <1>3 DEF Takes, ActionKinds
<1> QED BY <1>2, <1>4, <1>5

LEMMA SameEnds ==
  ASSUME NEW l, NEW r, r.kind \in {"toggle", "saveGroup", "toggleGroup"}
  PROVE  Takes(r, l, l)
<1>1. Gone(r) = {}
  BY DEF Gone
<1> QED BY <1>1 DEF Takes, ActionKinds

LEMMA EditEnds ==
  ASSUME NEW l \in Seq(Expectation), NEW r \in Request, r.kind = "edit",
         NEW w, w = Updated(l, r), RowsDiffer(l)
  PROVE  /\ Takes(r, l, w) /\ RowsDiffer(w)
         /\ \A i \in DOMAIN w : \E j \in DOMAIN l :
              w[i].id = l[j].id /\ w[i].group = l[j].group /\ w[i].action = l[j].action
<1>1. /\ DOMAIN w = DOMAIN l
      /\ \A i \in DOMAIN l : w[i] = IF l[i].id = r.id THEN UpdatedExpectation(r, l[i]) ELSE l[i]
  BY UpdatedListIs DEF Update
<1>2. ASSUME NEW i \in DOMAIN l
      PROVE  /\ w[i].id = l[i].id /\ w[i].group = l[i].group /\ w[i].active = l[i].active
             /\ w[i].text = IF l[i].id = r.id THEN r.text ELSE l[i].text
             /\ w[i].action = l[i].action
  <2>1. PICK e \in Expectation : e = l[i]
    OBVIOUS
  <2>2. PICK u : u = UpdatedExpectation(r, e)
    OBVIOUS
  <2>3. /\ u.id = e.id /\ u.group = e.group /\ u.text = r.text /\ u.active = e.active
        /\ u.action = e.action
    BY <2>2 DEF UpdatedExpectation, Expectation
  <2> QED BY <1>1, <2>1, <2>2, <2>3
<1>3. Gone(r) = {}
  BY DEF Gone
<1>4. Takes(r, l, w)
  BY <1>1, <1>2, <1>3 DEF Takes, ActionKinds
<1>5. RowsDiffer(w)
  BY <1>1, <1>2 DEF RowsDiffer
<1> QED BY <1>1, <1>2, <1>4, <1>5

LEMMA ActionEnds ==
  ASSUME NEW l \in Seq(Expectation), NEW r \in Request, r.kind \in ActionKinds,
         NEW t \in Nat, \A i \in DOMAIN l : Sound(l[i], t), Sane(r, t), RowsDiffer(l),
         NEW w, w = ActionChanged(l, r), r.index \in DOMAIN l, l[r.index].id = r.id,
         r.kind = "addAction" => l[r.index].action = NoAction
  PROVE  /\ Takes(r, l, w) /\ DOMAIN w = DOMAIN l
         /\ \A i \in DOMAIN l : w[i].id = l[i].id /\ w[i].group = l[i].group
         /\ \A i \in DOMAIN l : \/ w[i].action = l[i].action
                                \/ /\ w[i].action = ActionAfter(r, l[i].action) /\ l[i].id = r.id
                                   /\ r.kind # "addAction" => l[i].action.id = r.action
<1>1. /\ DOMAIN w = DOMAIN l
      /\ \A i \in DOMAIN l \ {r.index} : w[i] = l[i]
      /\ w[r.index] = IF Misses(r, l[r.index]) THEN l[r.index]
                      ELSE UpdatedExpectation(r, l[r.index])
  BY ActionChangedIs DEF ActionKinds
<1>2. \A i \in DOMAIN l : l[i].id = r.id => i = r.index
  BY DEF RowsDiffer
<1>3. PICK e \in Expectation : e = l[r.index]
  OBVIOUS
<1>4. PICK u : u = UpdatedExpectation(r, e)
  OBVIOUS
<1>5. /\ u.id = e.id /\ u.group = e.group /\ u.text = e.text /\ u.active = e.active
      /\ u.action = ActionAfter(r, e.action)
  <2>1. r.kind \in Update
    BY DEF ActionKinds, Update
  <2>2. /\ u.id = e.id /\ u.group = e.group
        /\ u.text = IF r.kind = "edit" THEN r.text ELSE e.text
        /\ u.active = IF r.kind = "toggle" THEN r.active ELSE e.active
        /\ u.action = CASE r.kind = "addAction" -> [id |-> r.action, text |-> r.action]
                        [] r.kind = "saveAction" -> [id |-> e.action.id, text |-> r.text]
                        [] r.kind = "deleteAction" /\ e.action.id = r.action -> NoAction
                        [] OTHER -> e.action
    BY <1>4, <2>1, UpdatedIs
  <2>3. u.action = ActionAfter(r, e.action)
    BY <2>2 DEF ActionAfter
  <2> QED BY <2>2, <2>3 DEF ActionKinds
<1>6. Misses(r, e) <=> r.kind # "addAction" /\ e.action.id # r.action
  BY <1>3 DEF Misses
<1>7. w[r.index] = IF r.kind # "addAction" /\ e.action.id # r.action THEN e ELSE u
  BY <1>1, <1>3, <1>4, <1>6
<1>8. /\ w[r.index].id = e.id /\ w[r.index].group = e.group /\ w[r.index].text = e.text
      /\ w[r.index].active = e.active
      /\ w[r.index].action = IF r.kind # "addAction" /\ e.action.id # r.action THEN e.action
                             ELSE ActionAfter(r, e.action)
  BY <1>5, <1>7
<1>9. Gone(r) = {}
  BY DEF Gone, ActionKinds
<1>10. \A i \in DOMAIN l :
         /\ w[i].id = l[i].id /\ w[i].group = l[i].group /\ w[i].active = l[i].active
         /\ w[i].text = l[i].text
         /\ r.id = l[i].id =>
              /\ w[i].action = IF r.kind # "addAction" /\ l[i].action.id # r.action THEN l[i].action
                               ELSE ActionAfter(r, l[i].action)
              /\ r.kind = "addAction" => l[i].action = NoAction
         /\ r.id # l[i].id => w[i].action = l[i].action
  BY <1>1, <1>2, <1>3, <1>8
<1>11. Takes(r, l, w)
  BY <1>1, <1>9, <1>10 DEF Takes, ActionKinds
<1> QED BY <1>1, <1>10, <1>11

LEMMA ThrownBackDrops ==
  ASSUME Base, NEW r \in pending
  PROVE  Drops(r, list, ThrownBack(r))
<1>1. r \in Request /\ list \in Seq(Expectation)
  BY RequestHas DEF Base, TypeOk
<1>2. CASE r.kind # "toggle"
  BY <1>2 DEF ThrownBack, Drops
<1>3. CASE r.kind = "toggle"
  <2> DEFINE back == ~r.active
             q == [r EXCEPT !.active = back]
  <2>1. ThrownBack(r) = Updated(list, q)
    BY <1>3 DEF ThrownBack
  <2>2. back \in BOOLEAN
    OBVIOUS
  <2> HIDE DEF back
  <2>3. q \in Request /\ q.kind = "toggle" /\ q.id = r.id /\ q.active = back
    BY <1>1, <1>3, <2>2 DEF Request
  <2> HIDE DEF q
  <2>4. PICK w : w = Updated(list, q)
    OBVIOUS
  <2>5. /\ DOMAIN w = DOMAIN list
        /\ \A i \in DOMAIN list :
             w[i] = IF list[i].id = q.id THEN UpdatedExpectation(q, list[i]) ELSE list[i]
    BY <1>1, <2>3, <2>4, UpdatedListIs DEF Update
  <2>6. ASSUME NEW i \in DOMAIN list
        PROVE  /\ w[i].id = list[i].id /\ w[i].group = list[i].group
               /\ w[i].text = list[i].text /\ w[i].action = list[i].action
               /\ w[i].active = IF r.kind = "toggle" /\ r.id = list[i].id THEN back
                                ELSE list[i].active
    <3>1. PICK e \in Expectation : e = list[i]
      BY <1>1
    <3>2. PICK u : u = UpdatedExpectation(q, e)
      OBVIOUS
    <3>3. /\ u.id = e.id /\ u.group = e.group /\ u.text = e.text /\ u.active = q.active
          /\ u.action = e.action
      BY <2>3, <3>2 DEF UpdatedExpectation, Expectation
    <3> QED BY <1>3, <2>3, <2>5, <3>1, <3>2, <3>3
  <2>7. Drops(r, list, w)
    BY <2>5, <2>6 DEF Drops, back
  <2> QED BY <2>1, <2>4, <2>7
<1> QED BY <1>2, <1>3

\* A command whose answer was shown.
LEMMA EndedQuietly ==
  ASSUME QuietInv, trusted, NEW r \in pending, NEW w, NEW v,
         r \in Done(Commands(pending)), r.kind # "create",
         Takes(r, list, w), PageOk(Commands(pending) \ {r}, w, v),
         r.kind = "addAction" => Alone(r),
         Commands(pending') = Commands(pending) \ {r}, list' = w, v = target'["action"],
         UNCHANGED <<stored, project>>
  PROVE  QuietOk'
<1> DEFINE P == Commands(pending)
           S == stored[project]
<1>1. CommandsOk(P) /\ Base
  BY CommandsAreOk DEF QuietInv, OnceInv
<1>2. PageOk(P, list, target["action"]) /\ StoreOk(P, list, S)
  BY DEF QuietInv, QuietOk
<1>3. \A i \in DOMAIN list : Sound(list[i], lastText)
  BY <1>1 DEF Base, DocumentsOk
<1>4. r.kind = "addAction" => \A q \in Adding(P) : q.id = r.id => q = r
  BY DEF Alone, Adding, Commands
<1> HIDE DEF P, S
<1>5. r \in Done(P)
  BY DEF P
<1>6. StoreOk(P \ {r}, w, S)
  BY <1>1, <1>2, <1>3, <1>4, <1>5, StoreWhenEnded
<1> QED BY <1>6 DEF P, S, QuietOk, PageOk, AddsOk

\* A command that was not carried out.
LEMMA DroppedQuietly ==
  ASSUME QuietInv, NEW r \in Commands(pending), trusted' => trusted /\ ~(r.answered /\ r.ok),
         Commands(pending') = Commands(pending) \ {r}, list' = ThrownBack(r),
         UNCHANGED <<stored, project, target>>
  PROVE  QuietOk'
<1> SUFFICES ASSUME trusted, ~(r.answered /\ r.ok) PROVE QuietOk'
  BY DEF QuietOk
<1> DEFINE P == Commands(pending)
           S == stored[project]
<1>1. CommandsOk(P) /\ Base /\ r \in pending
  BY CommandsAreOk DEF QuietInv, OnceInv, Commands
<1>2. PageOk(P, list, target["action"]) /\ StoreOk(P, list, S)
  BY DEF QuietInv, QuietOk
<1>3. PICK w : w = ThrownBack(r)
  OBVIOUS
<1>4. Drops(r, list, w)
  BY <1>1, <1>3, ThrownBackDrops
<1>5. S \subseteq Expectation
  BY <1>1, StoredIs
<1> HIDE DEF P, S
<1>6. r \in P /\ r \notin Done(P)
  BY DEF P, Done
<1>7. PageOk(P \ {r}, w, target["action"])
  BY <1>2, <1>4, PageWhenDropped
<1>8. StoreOk(P \ {r}, w, S)
  BY <1>1, <1>2, <1>4, <1>5, <1>6, StoreWhenDropped
<1> QED BY <1>3, <1>7, <1>8 DEF P, S, QuietOk, PageOk, AddsOk

LEMMA ArrivalKeepsQuiet ==
  ASSUME QuietInv, NEW r \in pending, Arrives(r) \/ Fails(r)
  PROVE  QuietOk'
<1>1. Base /\ QuietOk /\ r \in Request /\ Sane(r, lastText) /\ Commands(pending') = Commands(pending) \ {r}
  BY ArrivalIs, RequestHas DEF QuietInv, OnceInv
<1>2. list \in Seq(Expectation) /\ lastText \in Nat /\ \A i \in DOMAIN list : Sound(list[i], lastText)
  BY <1>1, BaseHas DEF ListOk
<1>3. trusted => PageOk(Commands(pending), list, target["action"]) /\ RowsDiffer(list)
  BY <1>1 DEF QuietOk, PageOk
<1>4. CommandsOk(Commands(pending))
  BY CommandsAreOk DEF QuietInv
<1>5. r.kind \in Command => r \in Commands(pending)
  BY DEF Commands
<1>6. r.kind \in Query => Commands(pending') = Commands(pending)
  BY <1>1 DEF Commands, Query, Command
<1>7. \A kind \in Command : Answered(r, kind) => r.kind = kind /\ r \in Done(Commands(pending))
  BY DEF Answered, Done, Commands
<1>8. CASE CreateAnswered(r)
  BY <1>8 DEF CreateAnswered, QuietOk
<1>9. CASE DeleteAnswered(r) \/ DeleteGroupAnswered(r)
  <2>1. /\ r.kind \in {"delete", "deleteGroup"} /\ r \in Done(Commands(pending))
        /\ list' = Without(list, Gone(r)) /\ UNCHANGED <<stored, project, trusted, target>>
    <3>1. CASE DeleteAnswered(r)
      BY <1>7, <3>1 DEF DeleteAnswered, Show, serverVars, Command, Gone
    <3>2. CASE DeleteGroupAnswered(r)
      BY <1>7, <3>2 DEF DeleteGroupAnswered, Remaining, Show, serverVars, Command, Gone
    <3> QED BY <1>9, <3>1, <3>2
  <2> SUFFICES ASSUME trusted PROVE QuietOk'
    BY <2>1 DEF QuietOk
  <2>2. PICK w, v : w = list' /\ v = target'["action"]
    OBVIOUS
  <2>3. /\ Takes(r, list, w) /\ RowsDiffer(w)
        /\ \A i \in DOMAIN w : \E j \in DOMAIN list :
             w[i].id = list[j].id /\ w[i].group = list[j].group /\ w[i].action = list[j].action
    BY <1>2, <1>3, <2>1, <2>2, WithoutEnds
  <2>4. r \in Commands(pending) /\ r.kind \notin ActionKinds /\ r.kind # "create" /\ r.kind # "addAction"
    BY <2>1 DEF Done, ActionKinds
  <2>5. PageOk(Commands(pending) \ {r}, w, v)
    BY <1>3, <1>4, <2>1, <2>2, <2>3, <2>4, PageWhenEnded
  <2> QED BY <1>1, <2>1, <2>2, <2>3, <2>4, <2>5, EndedQuietly
<1>10. CASE GroupAnswered(r) \/ ToggleAnswered(r)
  <2>1. /\ r.kind \in {"toggle", "saveGroup", "toggleGroup"} /\ r \in Done(Commands(pending))
        /\ UNCHANGED <<list, stored, project, trusted, target>>
    <3>1. CASE GroupAnswered(r)
      BY <1>7, <3>1 DEF GroupAnswered, listVars, serverVars, Command
    <3>2. CASE ToggleAnswered(r)
      BY <1>7, <3>2 DEF ToggleAnswered, listVars, serverVars, Command
    <3> QED BY <1>10, <3>1, <3>2
  <2> SUFFICES ASSUME trusted PROVE QuietOk'
    BY <2>1 DEF QuietOk
  <2>2. PICK v : v = target'["action"]
    OBVIOUS
  <2>3. Takes(r, list, list)
    BY <2>1, SameEnds
  <2>4. r \in Commands(pending) /\ r.kind \notin ActionKinds /\ r.kind # "create" /\ r.kind # "addAction"
    BY <2>1 DEF Done, ActionKinds
  <2>5. PageOk(Commands(pending) \ {r}, list, v)
    BY <1>3, <1>4, <2>1, <2>2, <2>4, PageWhenEnded
  <2> QED BY <1>1, <2>1, <2>2, <2>3, <2>4, <2>5, EndedQuietly
<1>11. CASE EditAnswered(r)
  <2>1. /\ r.kind = "edit" /\ r \in Done(Commands(pending)) /\ list' = Updated(list, r)
        /\ UNCHANGED <<stored, project, trusted, target>>
    BY <1>7, <1>11 DEF EditAnswered, serverVars, Command
  <2> SUFFICES ASSUME trusted PROVE QuietOk'
    BY <2>1 DEF QuietOk
  <2>2. PICK w, v : w = list' /\ v = target'["action"]
    OBVIOUS
  <2>3. /\ Takes(r, list, w) /\ RowsDiffer(w)
        /\ \A i \in DOMAIN w : \E j \in DOMAIN list :
             w[i].id = list[j].id /\ w[i].group = list[j].group /\ w[i].action = list[j].action
    BY <1>1, <1>2, <1>3, <2>1, <2>2, EditEnds
  <2>4. r \in Commands(pending) /\ r.kind \notin ActionKinds /\ r.kind # "create" /\ r.kind # "addAction"
    BY <2>1 DEF Done, ActionKinds
  <2>5. PageOk(Commands(pending) \ {r}, w, v)
    BY <1>3, <1>4, <2>1, <2>2, <2>3, <2>4, PageWhenEnded
  <2> QED BY <1>1, <2>1, <2>2, <2>3, <2>4, <2>5, EndedQuietly
<1>12. CASE ActionAnswered(r)
  <2>1. /\ r.kind \in ActionKinds /\ r \in Done(Commands(pending)) /\ list' = ActionChanged(list, r)
        /\ trusted' = (trusted /\ InPlace(r)
                         /\ (r.kind = "addAction" => list[r.index].action = NoAction /\ Alone(r)))
        /\ UNCHANGED <<stored, project>>
    BY <1>7, <1>12 DEF ActionAnswered, serverVars, Command, ActionKinds
  <2> SUFFICES ASSUME trusted, InPlace(r),
                      r.kind = "addAction" => list[r.index].action = NoAction /\ Alone(r)
               PROVE  QuietOk'
    BY <2>1 DEF QuietOk
  <2>2. PICK w, v : w = list' /\ v = target'["action"]
    OBVIOUS
  <2>3. v = target["action"] \/ (r.kind = "addAction" /\ v = r.action)
    <3>1. r.kind = "saveAction" => UNCHANGED target
      BY <1>12 DEF ActionAnswered
    <3>2. r.kind = "addAction" => target' = [target EXCEPT !["action"] = r.action]
      BY <1>12 DEF ActionAnswered, InPlace
    <3>3. r.kind = "deleteAction" => UNCHANGED target
      BY <1>12 DEF ActionAnswered
    <3>4. target \in [Dialog -> Nat]
      BY <1>1 DEF Base, TypeOk
    <3> QED BY <2>1, <2>2, <3>1, <3>2, <3>3, <3>4 DEF ActionKinds, Dialog
  <2>4. r.index \in DOMAIN list /\ list[r.index].id = r.id
    BY DEF InPlace
  <2>5. /\ Takes(r, list, w) /\ DOMAIN w = DOMAIN list
        /\ \A i \in DOMAIN list : w[i].id = list[i].id /\ w[i].group = list[i].group
        /\ \A i \in DOMAIN list :
             \/ w[i].action = list[i].action
             \/ /\ w[i].action = ActionAfter(r, list[i].action) /\ list[i].id = r.id
                /\ r.kind # "addAction" => list[i].action.id = r.action
    BY <1>1, <1>2, <1>3, <2>1, <2>2, <2>4, ActionEnds
  <2>6. r \in Commands(pending) /\ r.kind # "create"
    BY <2>1 DEF Done, ActionKinds
  <2>7. r.kind = "addAction" => \A q \in Adding(Commands(pending)) : q.id = r.id => q = r
    BY DEF Alone, Adding, Commands
  <2>8. PageOk(Commands(pending) \ {r}, w, v)
    BY <1>3, <1>4, <2>1, <2>3, <2>5, <2>6, <2>7, PageWhenActionEnded
  <2> QED BY <1>1, <2>1, <2>2, <2>5, <2>6, <2>8, EndedQuietly
<1>13. CASE Refused(r)
  <2>1. /\ r.kind \in Query => r.ok
        /\ list' = ThrownBack(r) /\ ~r.ok /\ UNCHANGED <<stored, project, trusted, target>>
    BY <1>1, <1>13 DEF Refused, serverVars, Sane
  <2>2. r \in Commands(pending)
    BY <1>1, <1>5, <2>1 DEF Request
  <2> QED BY <1>1, <2>1, <2>2, DroppedQuietly
<1>14. CASE ListArrives(r)
  <2>1. /\ r.kind = "list" /\ r.answered /\ UNCHANGED <<stored, project, target>>
        /\ list' = IF r.of = project THEN Newest(r.list) ELSE list
        /\ trusted' = IF r.of = project THEN r.clean ELSE trusted
    BY <1>14 DEF ListArrives, Answered, Show, serverVars, dialogVars
  <2>2. CASE r.of = project
    <3> SUFFICES ASSUME r.clean PROVE QuietOk'
      BY <2>1, <2>2 DEF QuietOk
    <3>1. Commands(pending) = {} /\ r.list = stored[project]
      BY <1>1, <2>1, <2>2 DEF Base, RequestsOk, CleanLists
    <3>2. Commands(pending') = {}
      BY <1>1, <3>1
    <3>3. PICK l, S : l = list' /\ S = stored'[project']
      OBVIOUS
    <3>4. S \subseteq Expectation /\ Unique(S) /\ l = Newest(S)
      BY <1>1, <2>1, <2>2, <3>1, <3>3, StoredIs
    <3>5. Shows(l, S) /\ RowsDiffer(l)
      BY <3>4, NewestShows
    <3>6. \A t : PageOk({}, l, t)'
      BY <3>5, <3>3 DEF PageOk, AddsOk, MembersOk, Adding
    <3>7. StoreOk({}, l, S)
      <4>1. Ids(l) = RowIds(S)
        BY <3>5 DEF Shows, Ids, RowIds
      <4>2. ASSUME NEW e \in S, NEW i \in DOMAIN l, l[i].id = e.id PROVE RowOk({}, l[i], e)
        <5>1. l[i] = e
          BY <3>4, <3>5, <4>2 DEF Shows, Unique
        <5>2. Done({}) = {}
          BY DEF Done
        <5> QED BY <5>1, <5>2 DEF RowOk, TextOk, ActiveOk, ActionOk
      <4> QED BY <4>1, <4>2 DEF StoreOk, RowsOk, Done
    <3> QED BY <3>2, <3>3, <3>6, <3>7 DEF QuietOk, PageOk, AddsOk
  <2>3. CASE r.of # project
    BY <1>1, <1>6, <2>1, <2>3, QuietStays DEF Query
  <2> QED BY <2>2, <2>3
<1>15. CASE GroupsArrive(r)
  <2>1. r.kind = "groups" /\ UNCHANGED <<list, stored, project, trusted, target>>
    BY <1>15 DEF GroupsArrive, Answered, serverVars
  <2> QED BY <1>1, <1>6, <2>1, QuietStays DEF Query
<1>16. CASE Fails(r)
  <2>1. /\ list' = ThrownBack(r) /\ UNCHANGED <<stored, project, target>>
        /\ trusted' = (trusted /\ (r.kind \in Query \/ ~r.answered))
    BY <1>16 DEF Fails, Show, serverVars
  <2>2. CASE r.kind \in Query
    <3>1. list' = list
      BY <2>1, <2>2 DEF ThrownBack, Query
    <3> QED BY <1>1, <1>6, <2>1, <2>2, <3>1, QuietStays
  <2>3. CASE r.kind \in Command
    <3>1. trusted' => trusted /\ ~r.answered
      BY <2>1, <2>3 DEF Query, Command
    <3> QED BY <1>1, <1>5, <2>1, <2>3, <3>1, DroppedQuietly
  <2> QED BY <1>1, <2>2, <2>3 DEF Request
<1> QED BY <1>8, <1>9, <1>10, <1>11, <1>12, <1>13, <1>14, <1>15, <1>16 DEF Arrives

LEMMA StepKeepsQuiet ==
  ASSUME QuietInv, PageStep
  PROVE  QuietInv'
<1>1. Base /\ QuietOk /\ OnceInv'
  BY StepKeepsOnce DEF QuietInv, OnceInv
<1>2. QuietOk'
  <2>1. CASE PageCommand
    BY <2>1, CommandKeepsQuiet
  <2>2. CASE PageDialog
    <3>1. PICK d \in Dialog, about \in Nat :
            /\ OpenDialog(d, about)
            /\ d = "action" => \E i \in DOMAIN list : about = list[i].action.id
      BY <1>1, <2>2, DialogOpened
    <3>2. /\ target' = [target EXCEPT ![d] = about]
          /\ UNCHANGED <<project, list, stored, trusted, pending>>
      BY <3>1 DEF OpenDialog, listVars, serverVars
    <3>3. target'["action"] = IF d = "action" THEN about ELSE target["action"]
      BY <1>1, <3>2 DEF Base, TypeOk, Dialog
    <3>4. \/ target'["action"] = target["action"]
          \/ \E i \in DOMAIN list : target'["action"] = list[i].action.id
      BY <3>1, <3>3
    <3> QED BY <1>1, <3>2, <3>4, QuietStays
  <2>3. CASE Close \/ SelectRow
    <3>1. UNCHANGED <<project, list, stored, trusted, pending, target>>
      BY <2>3 DEF Close, SelectRow, listVars, serverVars, dialogVars
    <3> QED BY <1>1, <3>1, QuietStays
  <2>4. CASE \E p \in Project : SwitchProject(p)
    BY <2>4 DEF SwitchProject, QuietOk
  <2>5. CASE \E r \in pending : Serve(r) \/ Arrives(r) \/ Fails(r)
    BY <2>5, ServeKeepsQuiet, ArrivalKeepsQuiet
  <2> QED BY <2>1, <2>2, <2>3, <2>4, <2>5 DEF PageStep
<1> QED BY <1>1, <1>2 DEF QuietInv

\* With nothing under way a row is its document, field by field.
LEMMA QuietRow ==
  ASSUME NEW l \in Expectation, NEW e \in Expectation, NEW t,
         Sound(l, t), Sound(e, t), l.id = e.id, RowOk({}, l, e)
  PROVE  l = e
<1>1. l.group = e.group
  BY DEF RowOk
<1>2. l.text = e.text
  BY DEF RowOk, TextOk, Done
<1>3. l.active = e.active
  BY DEF RowOk, ActiveOk
<1>4. l.action = e.action
  <2>1. ActionOk({}, l.action, e.action, e.id)
    BY DEF RowOk, Done
  <2>2. l.action \in Action /\ e.action \in Action
    BY DEF Expectation
  <2> QED BY <2>1, <2>2 DEF ActionOk, Action
<1> QED BY <1>1, <1>2, <1>3, <1>4 DEF Expectation

\* In quiet times the page shows what is stored: as long as a list is trusted,
\* what differs between its rows and the documents of the shown project is what
\* the commands under way account for, and in quiet times there are none.
THEOREM QuietListIsStoredHolds == Spec => []QuietListIsStored
<1>1. PageInit => QuietInv
  <2> SUFFICES ASSUME Init PROVE QuietInv
    BY DEF PageInit
  <2>1. Base
    BY InitHasBase
  <2>2. Commands(pending) = {}
    BY FirstQueries DEF Commands, Command
  <2>3. (\A d \in Dialog : made[d] = 0 /\ lost[d] = 0) /\ ~trusted
    BY DEF Init
  <2> QED BY <2>1, <2>2, <2>3 DEF QuietInv, QuietOk, OnceInv, BusyOk, CreateOk,
     Handled, Unhandled
<1>2. QuietInv /\ [Next]_pageVars => QuietInv'
  <2> SUFFICES ASSUME QuietInv, [Next]_pageVars PROVE QuietInv'
    OBVIOUS
  <2>1. CASE Next
    BY <2>1, NextIs, StepKeepsQuiet
  <2>2. CASE UNCHANGED pageVars
    <3>1. UNCHANGED vars /\ saving' = saving /\ open' = open /\ UNCHANGED <<made, lost>>
          /\ pending' = pending
          /\ UNCHANGED <<project, list, stored, trusted, target>>
      BY <2>2 DEF pageVars, vars, dialogVars, listVars, serverVars
    <3>2. Base'
      BY <3>1, StutterKeepsBase DEF QuietInv, OnceInv
    <3>3. OnceInv'
      BY <3>1, <3>2 DEF QuietInv, OnceInv, BusyOk, CreateOk, Handled, Unhandled
    <3>4. QuietOk'
      BY <3>1, QuietStays DEF QuietInv
    <3> QED BY <3>3, <3>4 DEF QuietInv
  <2> QED BY <2>1, <2>2
<1>3. QuietInv => QuietListIsStored
  <2> SUFFICES ASSUME QuietInv, trusted, pending = {}
               PROVE  {list[i] : i \in DOMAIN list} = stored[project]
    BY DEF QuietListIsStored
  <2>1. Base /\ QuietOk
    BY DEF QuietInv, OnceInv
  <2>2. Commands(pending) = {} /\ Done(Commands(pending)) = {}
    BY DEF Commands, Done
  <2>3. RowsOk({}, list, stored[project])
    BY <2>1, <2>2 DEF QuietOk, StoreOk
  <2>4. /\ stored[project] \subseteq Expectation /\ list \in Seq(Expectation)
        /\ \A e \in stored[project] : Sound(e, lastText)
        /\ \A i \in DOMAIN list : Sound(list[i], lastText)
    BY <2>1, StoredIs, BaseHas DEF ListOk
  <2>5. ASSUME NEW i \in DOMAIN list, NEW e \in stored[project], list[i].id = e.id
        PROVE  list[i] = e
    <3>1. list[i] \in Expectation /\ e \in Expectation
      BY <2>4
    <3>2. RowOk({}, list[i], e)
      BY <2>3, <2>5 DEF RowsOk
    <3> QED BY <2>4, <2>5, <3>1, <3>2, QuietRow
  <2>6. Ids(list) = RowIds(stored[project])
    BY <2>2, <2>3 DEF RowsOk, Done
  <2>7. ASSUME NEW i \in DOMAIN list PROVE list[i] \in stored[project]
    BY <2>5, <2>6 DEF Ids, RowIds
  <2>8. ASSUME NEW e \in stored[project] PROVE \E i \in DOMAIN list : list[i] = e
    <3>1. e.id \in Ids(list)
      BY <2>6 DEF RowIds
    <3> QED BY <2>5, <3>1 DEF Ids
  <2> QED BY <2>7, <2>8
<1> QED BY <1>1, <1>2, <1>3, PTL DEF Spec
=============================================================================
