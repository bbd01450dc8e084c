-------------------------- MODULE ExpectationStore --------------------------
(***************************************************************************)
(* The expectations and expectation groups of one project and the requests *)
(* that edit them (expectationController.ts, expectationGroupController.ts *)
(* and the parts of actionController.ts and matcherController.ts that      *)
(* update an expectation), and which expectation answers a mock request.   *)
(*                                                                         *)
(* The collections are loaded when the mock server serves requests, so a   *)
(* handler runs from its lookup to its last update in one turn and is one  *)
(* action.  Document numbers count insertions and are never reused.        *)
(*                                                                         *)
(* A definition marked Variant is a faulty form of the definition after    *)
(* it.  It is used only to confirm that a property can fail.               *)
(***************************************************************************)
EXTENDS MatchOrder

CONSTANTS
    Rank,       \* the pairs <<priority, creation time>> documents can have
    Key,        \* the keys method::path of an expectation's matchers
    Content,    \* the contents (name, matchers, actions) of an expectation
    File,       \* what the files a user imports bring in, see ImportParsers
    MaxDoc      \* bound of the model: how many documents are ever inserted

ASSUME RankAssumption == Rank \subseteq Nat \X Nat
ASSUME BoundAssumption == MaxDoc \in Nat

ASSUME FileAssumption == File \subseteq Seq([key : Key, content : Content])

VARIABLES
    exps,       \* the expectation collection
    groups,     \* the group collection
    lastExp,    \* the number given to the last inserted expectation
    lastGroup   \* the number given to the last inserted group

vars == <<exps, groups, lastExp, lastGroup>>

Expectation ==
    [group : 0 .. MaxDoc, priority : Nat, time : Nat, activate : BOOLEAN,
     key : Key, content : Content]
Group == [priority : Nat, time : Nat, activate : BOOLEAN]

TypeOk ==
    /\ lastExp \in Nat /\ lastGroup \in Nat /\ lastExp + lastGroup <= MaxDoc
    /\ DOMAIN exps \subseteq 1 .. lastExp /\ DOMAIN groups \subseteq 1 .. lastGroup
    /\ \A e \in DOMAIN exps : exps[e] \in Expectation
    /\ \A g \in DOMAIN groups : groups[g] \in Group

Init ==
    /\ exps = << >> /\ groups = << >>
    /\ lastExp = 0 /\ lastGroup = 0

Put(docs, n, doc) == [m \in DOMAIN docs \cup {n} |-> IF m = n THEN doc ELSE docs[m]]
Drop(docs, S) == [m \in DOMAIN docs \ S |-> docs[m]]

-----------------------------------------------------------------------------
(* Groups.                                                                  *)

CreateGroup(rank) ==
    /\ lastExp + lastGroup < MaxDoc
    /\ lastGroup' = lastGroup + 1
    /\ groups' = Put(groups, lastGroup', [priority |-> rank[1], time |-> rank[2], activate |-> TRUE])
    /\ UNCHANGED <<exps, lastExp>>

\* Only the name, the priority and the activation are copied.
UpdateGroup(g) ==
    /\ g \in DOMAIN groups
    /\ \/ \E rank \in Rank :
            /\ rank[2] = groups[g].time /\ rank[1] # groups[g].priority
            /\ groups' = [groups EXCEPT ![g].priority = rank[1]]
       \/ groups' = [groups EXCEPT ![g].activate = ~@]
    /\ UNCHANGED <<exps, lastExp, lastGroup>>

\* Variant: the members stay and become ungrouped.
DeleteGroupOnly(g) ==
    /\ g \in DOMAIN groups
    /\ groups' = Drop(groups, {g})
    /\ UNCHANGED <<exps, lastExp, lastGroup>>

\* The members go with the group.
DeleteGroup(g) ==
    /\ g \in DOMAIN groups
    /\ exps' = Drop(exps, {e \in DOMAIN exps : exps[e].group = g})
    /\ groups' = Drop(groups, {g})
    /\ UNCHANGED <<lastExp, lastGroup>>

-----------------------------------------------------------------------------
(* Expectations.                                                            *)

\* The group the client names is not looked up: it may be gone already.
CreateExpectation(g, rank, key, content) ==
    /\ lastExp + lastGroup < MaxDoc
    /\ lastExp' = lastExp + 1
    /\ exps' = Put(exps, lastExp',
                   [group |-> g, priority |-> rank[1], time |-> rank[2],
                    activate |-> TRUE, key |-> key, content |-> content])
    /\ UNCHANGED <<groups, lastGroup>>

\* Object.assign of the fields the client sends.  An update that changes
\* nothing is a stuttering step and left out.
UpdateExpectation(e) ==
    /\ e \in DOMAIN exps
    /\ \/ \E rank \in Rank :
            /\ rank[2] = exps[e].time /\ rank[1] # exps[e].priority
            /\ exps' = [exps EXCEPT ![e].priority = rank[1]]
       \/ exps' = [exps EXCEPT ![e].activate = ~@]
       \/ \E g \in (0 .. lastGroup) \ {exps[e].group} : exps' = [exps EXCEPT ![e].group = g]
    /\ UNCHANGED <<groups, lastExp, lastGroup>>

\* A matcher is added, changed or taken away: with the method or the path
\* matcher the key of the expectation changes, with another its content.
EditMatcher(e) ==
    /\ e \in DOMAIN exps
    /\ \/ \E k \in Key \ {exps[e].key} : exps' = [exps EXCEPT ![e].key = k]
       \/ \E c \in Content \ {exps[e].content} : exps' = [exps EXCEPT ![e].content = c]
    /\ UNCHANGED <<groups, lastExp, lastGroup>>

\* Its one action is set, merged, replaced by one of another type or removed.
EditAction(e) ==
    /\ e \in DOMAIN exps
    /\ \E c \in Content \ {exps[e].content} : exps' = [exps EXCEPT ![e].content = c]
    /\ UNCHANGED <<groups, lastExp, lastGroup>>

DeleteExpectation(e) ==
    /\ e \in DOMAIN exps
    /\ exps' = Drop(exps, {e})
    /\ UNCHANGED <<groups, lastExp, lastGroup>>

\* What the list endpoint returns; it changes nothing.
ListExpectation == MatchOrder(exps, groups)

-----------------------------------------------------------------------------
(* Import.  The items are parsed before the collection is read.             *)

WithKey(docs, k) == {e \in DOMAIN docs : docs[e].key = k}

\* The index keeps the first stored expectation of every key.
Existing(k) == CHOOSE e \in WithKey(exps, k) : \A f \in WithKey(exps, k) : e <= f

Fresh(items, n) == WithKey(exps, items[n].key) = {}

\* Variant: an item of the file is not added to the index.
NoTwin(items, n) == FALSE

\* An item whose key an earlier item of the same file already brought.
Twin(items, n) ==
    Fresh(items, n) /\ \E m \in 1 .. n - 1 : items[m].key = items[n].key

Overwritten(items, n) ==
    [e \in DOMAIN exps |->
        LET sources == {m \in 1 .. n : ~Fresh(items, m) /\ Existing(items[m].key) = e}
        IN  IF sources = {} THEN exps[e]
            ELSE [exps[e] EXCEPT !.content =
                    items[CHOOSE m \in sources : \A l \in sources : l <= m].content]]

\* The position of the first item that update refuses: its twin is not
\* inserted yet.
Refused(items) ==
    {n \in DOMAIN items : Twin(items, n) /\ \A m \in 1 .. n - 1 : ~Twin(items, m)}

\* New items are inserted together, after the loop, as ungrouped expectations.
Import(items, overwrite, time) ==
    LET new == {n \in DOMAIN items : Fresh(items, n) /\ ~Twin(items, n)}
        number(n) == lastExp + Cardinality({m \in new : m <= n})
        kept == IF overwrite THEN Overwritten(items, Len(items)) ELSE exps
    IN  /\ overwrite => Refused(items) = {}
        /\ lastExp' = lastExp + Cardinality(new)
        /\ exps' = [e \in DOMAIN exps \cup {number(n) : n \in new} |->
                      IF e \in DOMAIN exps THEN kept[e]
                      ELSE LET item == items[CHOOSE n \in new : number(n) = e]
                           IN  [group |-> NoGroup, priority |-> 0, time |-> time,
                                activate |-> TRUE, key |-> item.key,
                                content |-> item.content]]
        /\ UNCHANGED <<groups, lastGroup>>

\* collection.update throws: the request fails with what was overwritten so
\* far, and nothing is inserted.
AfterRefusal(items) == {Overwritten(items, n - 1) : n \in Refused(items)}

ImportFails(items) ==
    /\ exps' \in AfterRefusal(items)
    /\ UNCHANGED <<groups, lastExp, lastGroup>>

-----------------------------------------------------------------------------
Time == {rank[2] : rank \in Rank}
EditGroups ==
    \/ \E rank \in Rank : CreateGroup(rank)
    \/ \E g \in DOMAIN groups : UpdateGroup(g) \/ DeleteGroup(g)

EditExpectations ==
    \/ \E g \in 0 .. lastGroup, rank \in Rank, k \in Key, c \in Content :
            CreateExpectation(g, rank, k, c)
    \/ \E e \in DOMAIN exps :
            \/ UpdateExpectation(e) \/ EditMatcher(e)
            \/ EditAction(e) \/ DeleteExpectation(e)

\* Bound: a file has no more items than there is room for documents.
ImportFile ==
    \E items \in {f \in File : lastExp + lastGroup + Len(f) <= MaxDoc} :
        \/ \E overwrite \in BOOLEAN, time \in Time : Import(items, overwrite, time)
        \/ ImportFails(items)

Next == EditGroups \/ EditExpectations \/ ImportFile

Spec == Init /\ [][Next]_vars

-----------------------------------------------------------------------------
(* Properties.                                                              *)

\* The documented order, said without blocks, sorts or lists: an expectation
\* competes with the rank of its group, and inside a group with its own.
Stands(e) == IF Grouped(exps, groups, e) THEN groups[exps[e].group] ELSE exps[e]

Silent(e) ==
    \/ ~exps[e].activate
    \/ Grouped(exps, groups, e) /\ ~groups[exps[e].group].activate

Beats(e, f) ==
    IF Grouped(exps, groups, e) /\ exps[e].group = exps[f].group
    THEN Outranks(exps[e], exps[f])
    ELSE Outranks(Stands(e), Stands(f))

\* buildMatchOrderBlocks, "The winner of a block comparison precedes the other
\* block entirely": whichever expectations accept a request, the one that
\* answers is active, and no other active one that accepts beats it.
BestAnswers ==
    LET order == ActiveOrder(exps, groups)
    IN  \A accepts \in SUBSET DOMAIN exps :
            LET able == {f \in accepts : ~Silent(f)}
                e == First(order, accepts)
            IN  IF able = {} THEN e = NoAnswer
                ELSE e \in able /\ \A f \in able : ~Beats(f, e)

Enumerates(order, S) ==
    /\ {order[n] : n \in DOMAIN order} = S
    /\ \A m, n \in DOMAIN order : order[m] = order[n] => m = n

Precedes(order, e, f) ==
    \E m, n \in DOMAIN order : m < n /\ order[m] = e /\ order[n] = f

\* The elements of an order stand in the other one as they stand in it.
Agree(order, other) ==
    \A m, n \in DOMAIN order : m < n => Precedes(other, order[m], order[n])

\* "The match order shared by the mock engines, the list endpoints and the
\* exception page": the engine sorts only the active expectations, the list
\* sorts all of them; each holds its own once, and both show the active ones
\* in the same order.
ListShowsEngineOrder ==
    LET engine == ActiveOrder(exps, groups)
    IN  /\ Enumerates(engine, Active(exps, groups))
        /\ Enumerates(ListExpectation, DOMAIN exps)
        /\ Agree(engine, ListExpectation)

\* Every document of new is one of old, or that one switched off.
OnlySilenced(old, new) ==
    \A n \in DOMAIN new :
        n \in DOMAIN old /\ new[n] \in {old[n], [old[n] EXCEPT !.activate = FALSE]}

\* Deleting or switching off expectations and groups only takes answers away:
\* the active expectations that remain keep their order, so a request changes
\* hands only if the expectation that answered it is affected.
SilencingIsLocal ==
    [][OnlySilenced(exps, exps') /\ OnlySilenced(groups, groups') =>
         /\ Active(exps', groups') \subseteq Active(exps, groups)
         /\ Agree(ActiveOrder(exps', groups'), ActiveOrder(exps, groups))]_vars

\* A project without two expectations for one key gets none from an import,
\* although the index that prevents it is read before the new ones exist.
ImportMakesNoTwins ==
    [][(\E k \in Key :
           /\ Cardinality(WithKey(exps', k)) > 1
           /\ Cardinality(WithKey(exps', k)) > Cardinality(WithKey(exps, k))) =>
         ~ \E items \in File, overwrite \in BOOLEAN, time \in Time :
               Import(items, overwrite, time)]_vars
=============================================================================
