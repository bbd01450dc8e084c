----------------------------- MODULE MatchOrder -----------------------------
(***************************************************************************)
(* The match order of core/struct/expectationGroup.ts, shared by the mock  *)
(* server and by the list of expectations: every group is one block, every *)
(* ungrouped expectation is a block of its own, blocks and the members of  *)
(* a block are ranked by priority and creation time, both descending.      *)
(*                                                                         *)
(* A collection is a function from document numbers, which Loki hands out  *)
(* in insertion order and find({}) returns in that order, to documents     *)
(* with a priority and a time.  An expectation names a group, or NoGroup.  *)
(***************************************************************************)
EXTENDS Naturals, Sequences, FiniteSets

NoGroup == 0

\* compareDescending on the keys of two documents.
Outranks(x, y) ==
    \/ x.priority > y.priority
    \/ x.priority = y.priority /\ x.time > y.time

\* Array.sort is stable: documents of equal rank stay in insertion order.
SortsBefore(docs, a, b) ==
    \/ Outranks(docs[a], docs[b])
    \/ ~Outranks(docs[b], docs[a]) /\ a < b

\* The elements of S in the order Before, which is total on S.
Sorted(S, Before(_, _)) ==
    LET places == {<<Cardinality({y \in S : Before(y, x)}), x>> : x \in S}
    IN  [n \in 1 .. Cardinality(S) |-> (CHOOSE p \in places : p[1] = n - 1)[2]]

\* Array.concat of all of them.
Concatenated(lists) ==
    LET upTo[n \in 0 .. Len(lists)] == IF n = 0 THEN << >> ELSE upTo[n - 1] \o lists[n]
    IN  upTo[Len(lists)]

\* An expectation whose group is missing is treated as ungrouped.
Grouped(exps, groups, e) == exps[e].group \in DOMAIN groups

Blocks(exps, groups) ==
    {[group |-> g, members |-> {e \in DOMAIN exps : exps[e].group = g}] :
        g \in DOMAIN groups}
    \cup
    {[group |-> NoGroup, members |-> {e}] :
        e \in {e \in DOMAIN exps : ~Grouped(exps, groups, e)}}

\* Variant: a block is ranked by its first member, a group's too.
FirstMemberKey(exps, groups, block) ==
    IF block.members # {} THEN exps[CHOOSE e \in block.members : TRUE]
    ELSE groups[block.group]

\* blockKey: a group's own rank, or that of the single expectation.
BlockKey(exps, groups, block) ==
    IF block.group # NoGroup THEN groups[block.group]
    ELSE exps[CHOOSE e \in block.members : TRUE]

\* Before the sort, the groups come first, then the ungrouped expectations.
PushedBefore(b, c) ==
    \/ b.group # NoGroup /\ (c.group = NoGroup \/ b.group < c.group)
    \/ /\ b.group = NoGroup /\ c.group = NoGroup
       /\ \E e \in b.members, f \in c.members : e < f

BlockBefore(exps, groups, b, c) ==
    LET x == BlockKey(exps, groups, b)
        y == BlockKey(exps, groups, c)
    IN  Outranks(x, y) \/ (~Outranks(y, x) /\ PushedBefore(b, c))

BuildMatchOrderBlocks(exps, groups) ==
    Sorted(Blocks(exps, groups), LAMBDA b, c : BlockBefore(exps, groups, b, c))

SortedMembers(exps, members) == Sorted(members, LAMBDA e, f : SortsBefore(exps, e, f))

\* sortExpectationsByMatchOrder: the blocks one after the other (an empty
\* group adds nothing).
MatchOrder(exps, groups) ==
    LET blocks == BuildMatchOrderBlocks(exps, groups)
    IN  Concatenated([n \in DOMAIN blocks |-> SortedMembers(exps, blocks[n].members)])

-----------------------------------------------------------------------------
(* Which expectation the mock server lets answer.                           *)

\* Variant: an inactive group does not silence its members.
ActiveByItself(exps, groups) == {e \in DOMAIN exps : exps[e].activate}

Active(exps, groups) ==
    {e \in DOMAIN exps :
        /\ exps[e].activate
        /\ Grouped(exps, groups, e) => groups[exps[e].group].activate}

ActiveOrder(exps, groups) ==
    MatchOrder([e \in Active(exps, groups) |-> exps[e]], groups)

\* arrayUtils.first: the first expectation of the order that accepts the
\* request (its matchers hold and it has an action), NoAnswer if none does.
NoAnswer == 0

First(order, accepts) ==
    LET hits == {n \in DOMAIN order : order[n] \in accepts}
    IN  IF hits = {} THEN NoAnswer
        ELSE order[CHOOSE n \in hits : \A m \in hits : n <= m]
=============================================================================
