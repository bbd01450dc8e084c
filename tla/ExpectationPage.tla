---------------------------- MODULE ExpectationPage ----------------------------
(***************************************************************************)
(* The expectation page of the dashboard, against the server that stores   *)
(* the expectations.  The page keeps a copy of the list, which it changes  *)
(* by itself when a request was answered, and fetches again after some of  *)
(* them; every handler goes on after its await with what it read before.   *)
(* DesktopExpectationPage has the copy of the page in the desktop build.   *)
(*                                                                         *)
(* The editable contents of a document are one number, its text: names,    *)
(* descriptions, matchers and timing are saved alike.  The list is shown   *)
(* newest first; MatchOrder has the real order, which both sides share.    *)
(*                                                                         *)
(* A definition marked Variant is a faulty form of the definition after    *)
(* it.  It is used only to confirm that a property can fail.               *)
(***************************************************************************)
EXTENDS Naturals, Sequences, SequencesExt, FiniteSets, FiniteSetsExt

CONSTANTS Project,     \* projects; the page shows one of them
          First,       \* the one it shows first
          MaxId,       \* bound: documents are numbered 1 .. MaxId
          MaxText,     \* bound: contents, numbered as they are written
          MaxPending   \* bound: requests in flight

ASSUME ExpectationPageAssumption ==
  /\ First \in Project
  /\ MaxId \in Nat /\ MaxId >= 4 /\ MaxText \in Nat
  /\ MaxPending \in Nat /\ MaxPending >= 2

None == 0   \* no document, no group, no action

Action == [id : 0 .. MaxText, text : 0 .. MaxText]
NoAction == [id |-> None, text |-> 0]

Expectation == [id : 1 .. MaxId, group : 0 .. MaxId, text : 0 .. MaxText,
                active : BOOLEAN, action : Action]
Group == [id : 1 .. MaxId, text : 0 .. MaxText, active : BOOLEAN]

Dialog == {"add", "clone", "delete", "deleteGroup", "group", "action", "edit"}

Query == {"list", "groups"}
Command == {"create", "edit", "toggle", "delete", "saveAction", "addAction", "deleteAction",
            "saveGroup", "toggleGroup", "deleteGroup"}

Request ==
  [no : 1 .. MaxPending, kind : Query \cup Command, of : Project,
   dialog : Dialog \cup {"page"},      \* where the request was made
   id : 0 .. MaxId, index : Nat,       \* the document, its place in the list
   group : 0 .. MaxId, text : 0 .. MaxText, action : 0 .. MaxText, active : BOOLEAN,
   members : SUBSET (1 .. MaxId),      \* of the group to delete
   waits : SUBSET Dialog,              \* whose handlers go on after this query
   next : 0 .. MaxId, moves : BOOLEAN, \* the selection when all is done, if it moves
   clean : BOOLEAN,                    \* history: nothing changes while it is under way
   answered : BOOLEAN, ok : BOOLEAN,
   list : SUBSET Expectation, groups : SUBSET Group]

VARIABLES
  host,        \* the build the page belongs to
  stored,      \* the expectations of each project
  groups,      \* its groups
  lastId, lastText,
  project,     \* the project shown
  list,        \* expectationList, whatever project it came from
  cached,      \* the groups in the query cache of each project
  loaded,      \* the projects whose groups are there
  fetched,     \* the projects whose list the query cache has held
  selected,    \* selectedId
  open,        \* the dialogs that are open
  target,      \* what each dialog is about
  saving,      \* the dialogs, and the switch, that wait for an answer
  pending,     \* requests in flight, with their answers once they have one
  trusted,     \* history: nothing has disturbed the list since it was fetched
  aim,         \* history: what the last operation means to select, or None
  made,        \* history: expectations stored for each dialog since it was opened
  lost         \* history: of these, how many the page was told had failed

serverVars == <<stored, groups, lastId, lastText>>
listVars == <<list, selected, trusted, aim>>
cacheVars == <<cached, loaded, fetched>>
dialogVars == <<open, target, saving, made, lost>>
vars == <<host, serverVars, project, listVars, cacheVars, dialogVars, pending>>

TypeOk ==
  /\ host \in {"web", "desktop"}
  /\ stored \in [Project -> SUBSET Expectation] /\ groups \in [Project -> SUBSET Group]
  /\ lastId \in 0 .. MaxId /\ lastText \in 0 .. MaxText
  /\ project \in Project /\ list \in Seq(Expectation)
  /\ cached \in [Project -> SUBSET Group] /\ loaded \subseteq Project
  /\ fetched \subseteq Project
  /\ selected \in 0 .. MaxId
  /\ open \subseteq Dialog /\ saving \subseteq Dialog \cup {"switch"}
  /\ target \in [Dialog -> Nat] /\ target["action"] <= MaxText
  /\ \A d \in Dialog \ {"action"} : target[d] <= MaxId
  /\ pending \subseteq Request
  /\ trusted \in BOOLEAN /\ aim \in 0 .. MaxId
  /\ made \in [Dialog -> Nat] /\ lost \in [Dialog -> Nat]

-----------------------------------------------------------------------------
(* The server.  A handler finds the document it is about or refuses.       *)

Find(S, id) == {d \in S : d.id = id}

Changed(S, id, new(_)) == {IF d.id = id THEN new(d) ELSE d : d \in S}

Answer(r, others, ok) ==
  pending' = others \cup {[r EXCEPT !.answered = TRUE, !.ok = ok,
                                    !.list = stored[r.of], !.groups = groups[r.of]]}

Refuse(r) == Answer(r, pending \ {r}, FALSE) /\ UNCHANGED serverVars

ServeQuery(r) == Answer(r, pending \ {r}, TRUE) /\ UNCHANGED serverVars

\* The number of a new document is given here, by the client in the code.
ServeCreate(r) ==
  /\ lastId < MaxId /\ lastId' = lastId + 1
  /\ stored' = [stored EXCEPT ![r.of] = @ \cup
       {[id |-> lastId + 1, group |-> r.group, text |-> r.text, active |-> TRUE,
         action |-> [id |-> r.action, text |-> r.action]]}]
  /\ Answer([r EXCEPT !.next = lastId + 1], pending \ {r}, TRUE)
  /\ UNCHANGED <<groups, lastText>>

UpdatedExpectation(r, e) ==
  CASE r.kind = "edit" -> [e EXCEPT !.text = r.text]
    [] r.kind = "toggle" -> [e EXCEPT !.active = r.active]
    [] r.kind = "addAction" -> [e EXCEPT !.action = [id |-> r.action, text |-> r.action]]
    [] r.kind = "saveAction" -> [e EXCEPT !.action.text = r.text]
    [] r.kind = "deleteAction" /\ e.action.id = r.action -> [e EXCEPT !.action = NoAction]
    [] OTHER -> e

ServeUpdate(r) ==
  IF \E e \in Find(stored[r.of], r.id) :
       r.kind = "saveAction" => e.action.id = r.action /\ r.action # None
  THEN /\ stored' = [stored EXCEPT ![r.of] =
            Changed(@, r.id, LAMBDA e : UpdatedExpectation(r, e))]
       /\ Answer(r, pending \ {r}, TRUE)
       /\ UNCHANGED <<groups, lastId, lastText>>
  ELSE Refuse(r)

ServeDelete(r) ==
  IF Find(stored[r.of], r.id) # {}
  THEN /\ stored' = [stored EXCEPT ![r.of] = @ \ Find(@, r.id)]
       /\ Answer(r, pending \ {r}, TRUE)
       /\ UNCHANGED <<groups, lastId, lastText>>
  ELSE Refuse(r)

\* A group without an id is a new one.
ServeSaveGroup(r) ==
  IF r.id = None
  THEN /\ lastId < MaxId /\ lastId' = lastId + 1
       /\ groups' = [groups EXCEPT ![r.of] =
            @ \cup {[id |-> lastId + 1, text |-> r.text, active |-> TRUE]}]
       /\ Answer(r, pending \ {r}, TRUE)
       /\ UNCHANGED <<stored, lastText>>
  ELSE IF Find(groups[r.of], r.id) # {}
  THEN /\ groups' = [groups EXCEPT ![r.of] = Changed(@, r.id, LAMBDA g :
            IF r.kind = "saveGroup" THEN [g EXCEPT !.text = r.text]
                                    ELSE [g EXCEPT !.active = r.active])]
       /\ Answer(r, pending \ {r}, TRUE)
       /\ UNCHANGED <<stored, lastId, lastText>>
  ELSE Refuse(r)

ServeDeleteGroup(r) ==
  IF Find(groups[r.of], r.id) # {}
  THEN /\ stored' = [stored EXCEPT ![r.of] = {e \in @ : e.group # r.id}]
       /\ groups' = [groups EXCEPT ![r.of] = @ \ Find(@, r.id)]
       /\ Answer(r, pending \ {r}, TRUE)
       /\ UNCHANGED <<lastId, lastText>>
  ELSE Refuse(r)

ServeCommand(r) ==
  CASE r.kind = "create" -> ServeCreate(r)
    [] r.kind = "delete" -> ServeDelete(r)
    [] r.kind \in {"saveGroup", "toggleGroup"} -> ServeSaveGroup(r)
    [] r.kind = "deleteGroup" -> ServeDeleteGroup(r)
    [] OTHER -> ServeUpdate(r)

\* History: a handled creation counts, whether its answer arrives or not.
Count(r) ==
  made' = IF r.kind = "create" THEN [made EXCEPT ![r.dialog] = @ + 1] ELSE made

Serve(r) ==
  /\ r \in pending /\ ~r.answered
  /\ IF r.kind \in Query THEN ServeQuery(r) ELSE ServeCommand(r)
  /\ Count(r)
  /\ UNCHANGED <<host, project, listVars, cacheVars, open, target, saving, lost>>

-----------------------------------------------------------------------------
(* The list and the selection.                                             *)

\* The numbers of a set in their order.
Ordered(S) ==
  [n \in 1 .. Cardinality(S) |->
     CHOOSE k \in S : Cardinality({j \in S : j < k}) = n - 1]

Newest(S) ==
  LET ids == Ordered({e.id : e \in S})
  IN  [n \in DOMAIN ids |-> CHOOSE e \in S : e.id = ids[Len(ids) + 1 - n]]

Ids(l) == {l[i].id : i \in DOMAIN l}

Without(l, ids) ==
  LET kept == Ordered({i \in DOMAIN l : l[i].id \notin ids})
  IN  [n \in DOMAIN kept |-> l[kept[n]]]

At(l, id) == CHOOSE i \in DOMAIN l : l[i].id = id

\* updateExpectationItem, which finds its item by id.
Updated(l, r) ==
  [i \in DOMAIN l |-> IF l[i].id = r.id THEN UpdatedExpectation(r, l[i]) ELSE l[i]]

\* modifyAction, addAction and removeAction find theirs by the place it had when
\* the request was sent.  A place that is gone, and an action that is not there,
\* make them throw.  A second action is added behind the first, which counts.
ActionChanged(l, r) ==
  IF r.index \notin DOMAIN l THEN l
  ELSE [l EXCEPT ![r.index] =
          IF r.kind = "addAction" /\ @.action # NoAction THEN @
          ELSE IF r.kind # "addAction" /\ @.action.id # r.action THEN @
          ELSE UpdatedExpectation(r, @)]

\* The effect that keeps the selection on the list: it runs after every render.
Corrected(l, id, ready) ==
  IF l = <<>> \/ ~ready THEN None
  ELSE IF id \in Ids(l) THEN id ELSE l[1].id

Show(l, id) ==
  /\ list' = l
  /\ selected' = Corrected(l, id, project \in loaded)

Selected == CHOOSE e \in {list[i] : i \in DOMAIN list} : e.id = selected

\* The neighbour that is selected when the rows with these ids go.
Neighbour(ids) ==
  LET rest == Without(list, ids)
      before == Cardinality({i \in 1 .. At(list, selected) - 1 : list[i].id \notin ids})
  IN  IF rest = <<>> THEN None
      ELSE rest[IF before + 1 <= Len(rest) THEN before + 1 ELSE Len(rest)].id

\* When one row is deleted its place counts, whether it is selected or not.
NeighbourOf(id) ==
  LET rest == Without(list, {id})
      place == IF id \in Ids(list) THEN At(list, id) ELSE 1
  IN  IF rest = <<>> THEN None
      ELSE rest[IF place <= Len(rest) THEN place ELSE Len(rest)].id

-----------------------------------------------------------------------------
(* Requests of the page.                                                   *)

Unused == {n \in 1 .. MaxPending : \A r \in pending : r.no # n}

Blank(kind, others) ==
  [no |-> Min({n \in 1 .. MaxPending + 2 : \A r \in others : r.no # n}), kind |-> kind,
   of |-> project, dialog |-> "page",
   id |-> None, index |-> 0, group |-> None, text |-> 0, action |-> None,
   active |-> TRUE, members |-> {}, waits |-> {}, next |-> None, moves |-> FALSE,
   clean |-> FALSE, answered |-> FALSE, ok |-> FALSE, list |-> {}, groups |-> {}]

\* The contents a command writes are new ones.
New == lastText + 1

\* A command spoils the lists that are on their way.
Spoilt(requests) == {[r EXCEPT !.clean = FALSE] : r \in requests}

Send(r) ==
  /\ Unused # {} /\ {r.text, r.action} \subseteq 0 .. MaxText
  /\ lastText' = Max({lastText, r.text, r.action})
  /\ pending' = Spoilt(pending) \cup {r}
  /\ UNCHANGED <<stored, groups, lastId>>

Lists(requests) == {r \in requests : r.kind = "list" /\ r.of = project}

Fetch(kind, others) ==
  [Blank(kind, others) EXCEPT
     !.clean = Lists(others) = {} /\ \A r \in others : r.kind \in Query]

\* refetch() of the list.  A fetch that is under way is cancelled, which ends the
\* wait of whoever asked for it and not the answer; the first fetch is shared.
ListRefetched(others, next, moves) ==
  LET mine == [Fetch("list", others) EXCEPT !.next = next, !.moves = moves]
  IN  (others \ Lists(others)) \cup
        (IF Lists(others) = {} THEN {mine}
         ELSE IF project \in fetched
         THEN {mine} \cup {[r EXCEPT !.moves = FALSE, !.clean = FALSE] : r \in Lists(others)}
         ELSE {IF moves THEN [r EXCEPT !.next = next, !.moves = TRUE] ELSE r :
                 r \in Lists(others)})

\* The selection once the wait for a cancelled fetch has ended.
Continued(others, id) ==
  LET waiting == {r \in Lists(others) : r.moves}
  IN  IF project \notin fetched \/ waiting = {} THEN id
      ELSE (CHOOSE r \in waiting : TRUE).next

-----------------------------------------------------------------------------
(* Dialogs.  While one is open it covers the page.                         *)

OpenDialog(d, about) ==
  /\ open = {}
  /\ open' = {d}
  /\ target' = [target EXCEPT ![d] = about]
  /\ made' = [made EXCEPT ![d] = 0] /\ lost' = [lost EXCEPT ![d] = 0]
  /\ UNCHANGED <<host, serverVars, project, listVars, cacheVars, saving, pending>>

OpenAdd == OpenDialog("add", None)

OpenOnSelected ==
  /\ selected \in Ids(list)
  /\ \E d \in {"clone", "delete", "edit"} : OpenDialog(d, selected)

OpenGroup == \E g \in {None} \cup {g.id : g \in cached[project]} : OpenDialog("group", g)

OpenDeleteGroup == \E g \in cached[project] : OpenDialog("deleteGroup", g.id)

HandleEditAction ==
  /\ selected \in Ids(list) /\ Selected.action # NoAction
  /\ OpenDialog("action", Selected.action.id)

\* Three dialogs cannot be closed while they wait.
Close ==
  /\ \E d \in open :
       /\ d \in {"clone", "delete", "deleteGroup"} => d \notin saving
       /\ open' = open \ {d}
  /\ UNCHANGED <<host, serverVars, project, listVars, cacheVars, target, saving, made, lost,
                 pending>>

\* The button of a dialog is disabled while the dialog waits.
Submit(d, r) ==
  /\ d \in open \ saving
  /\ saving' = saving \cup {d}
  /\ Send([r EXCEPT !.dialog = d])
  /\ UNCHANGED <<host, project, listVars, cacheVars, open, target, made, lost>>

HandleCreate ==
  \E d \in {"add", "clone"}, g \in {None} \cup {g.id : g \in cached[project]} :
    Submit(d, [Blank("create", pending) EXCEPT !.group = g, !.text = New, !.action = New])

HandleDeleteExpectation ==
  Submit("delete", [Blank("delete", pending) EXCEPT
    !.id = target["delete"], !.next = NeighbourOf(target["delete"]), !.moves = TRUE])

HandleDeleteGroup ==
  LET group == target["deleteGroup"]
      members == {list[i].id : i \in {j \in DOMAIN list : list[j].group = group}}
  IN  Submit("deleteGroup", [Blank("deleteGroup", pending) EXCEPT
        !.id = group, !.members = members, !.moves = selected \in members,
        !.next = IF selected \in members THEN Neighbour(members) ELSE None])

HandleSubmitGroup ==
  Submit("group", [Blank("saveGroup", pending) EXCEPT !.id = target["group"], !.text = New])

\* Name, description, matchers and timing are saved to what is selected by now.
HandleSave ==
  /\ selected \in Ids(list)
  /\ Submit("edit", [Blank("edit", pending) EXCEPT !.id = selected, !.text = New])

OnSelected(kind) ==
  [Blank(kind, pending) EXCEPT !.id = selected, !.index = At(list, selected)]

HandleSaveAction ==
  /\ selected \in Ids(list)
  /\ Submit("action", [OnSelected("saveAction") EXCEPT
       !.action = target["action"], !.text = New])

-----------------------------------------------------------------------------
(* The page below the dialogs.                                             *)

HandleDeleteAction ==
  /\ open = {} /\ selected \in Ids(list) /\ Selected.action # NoAction
  /\ Send([OnSelected("deleteAction") EXCEPT !.action = Selected.action.id])
  /\ UNCHANGED <<host, project, listVars, cacheVars, dialogVars>>

HandleAddAction ==
  /\ open = {} /\ selected \in Ids(list) /\ Selected.action = NoAction
  /\ Send([OnSelected("addAction") EXCEPT !.action = New])
  /\ UNCHANGED <<host, project, listVars, cacheVars, dialogVars>>

\* The switch is thrown at once, and back if that fails.
HandleToggleActive ==
  /\ open = {} /\ selected \in Ids(list) /\ "switch" \notin saving
  /\ saving' = saving \cup {"switch"}
  /\ LET r == [Blank("toggle", pending) EXCEPT !.id = selected, !.active = ~Selected.active]
     IN  /\ Send(r)
         /\ list' = Updated(list, r)
  /\ UNCHANGED <<host, project, selected, trusted, aim, cacheVars, open, target, made, lost>>

HandleToggleGroupActive ==
  /\ open = {}
  /\ \E g \in cached[project] :
       Send([Blank("toggleGroup", pending) EXCEPT !.id = g.id, !.active = ~g.active])
  /\ UNCHANGED <<host, project, listVars, cacheVars, dialogVars>>

SelectRow ==
  /\ open = {}
  /\ selected' \in Ids(list) \ {selected}
  /\ aim' = None
  /\ UNCHANGED <<host, serverVars, project, list, trusted, cacheVars, dialogVars, pending>>

\* Another project in the URL.  The list of the earlier one stays until the
\* answer is there; the dialogs that hold a document of it are closed.
SwitchProject(p) ==
  /\ p # project
  /\ project' = p
  /\ LET start(kind, others) ==
           IF \E r \in others : r.kind = kind /\ r.of = p THEN others
           ELSE others \cup {[Blank(kind, others) EXCEPT !.of = p,
                  !.clean = \A r \in others : r.kind \in Query]}
     IN  /\ Cardinality(Unused) >= 2
         /\ pending' = start("list", start("groups", pending))
  /\ selected' = Corrected(list, None, p \in loaded)
  /\ open' = open \ {"clone", "delete", "deleteGroup"}
  /\ trusted' = FALSE /\ aim' = None
  /\ UNCHANGED <<host, serverVars, list, cacheVars, target, saving, made, lost>>

-----------------------------------------------------------------------------
(* Answers reach the page.                                                 *)

Answered(r, kind) == r \in pending /\ r.answered /\ r.ok /\ r.kind = kind

\* A deleted group without the selected row fetches the list again and selects
\* nothing: whoever waited for the list goes on too early.  Nothing is selected
\* before the groups are there.
Aim(r) ==
  IF r.of = project /\ project \in loaded /\ \A q \in pending : "deleteGroup" \notin q.waits
  THEN r.next ELSE None

Finish(d) == saving' = saving \ {d}

CloseAfter(d, more) == open' = (open \ {d}) \cup more

\* Variant: the dialog stays open until the list is there.
CreatedLate(r) ==
  /\ Finish(r.dialog)
  /\ pending' = ListRefetched(pending \ {r}, r.next, TRUE)
  /\ UNCHANGED <<open, target>>

\* The dialog is closed before the list is fetched, "so pressing Create again
\* cannot duplicate" the expectation.
Created(r) ==
  /\ Finish(r.dialog) /\ CloseAfter(r.dialog, {})
  /\ pending' = ListRefetched(pending \ {r}, r.next, TRUE)
  /\ UNCHANGED target

CreateAnswered(r) ==
  /\ Answered(r, "create")
  /\ Created(r)
  /\ Show(list, Continued(pending \ {r}, selected))
  /\ trusted' = FALSE
  /\ aim' = Aim(r)
  /\ UNCHANGED <<host, serverVars, project, cacheVars, made, lost>>

\* Variant: the neighbour is not selected again after the list was fetched.
RefetchedAfterDeleteOnce(r) == ListRefetched(pending \ {r}, None, FALSE)

RefetchedAfterDelete(r) == ListRefetched(pending \ {r}, r.next, TRUE)

\* The row may be gone from the screen before the selection moves: the effect
\* selects the first row then.
DeleteAnswered(r) ==
  /\ Answered(r, "delete")
  /\ \E id \in {r.next, selected} :
       Show(Without(list, {r.id}), Continued(pending \ {r}, id))
  /\ Finish("delete") /\ CloseAfter("delete", {})
  /\ pending' = RefetchedAfterDelete(r)
  /\ aim' = Aim(r)
  /\ UNCHANGED <<host, serverVars, project, trusted, cacheVars, target, made, lost>>

Groups(requests) == {r \in requests : r.kind = "groups" /\ r.of = project}

\* What waits for the groups: a deleted group has the list fetched next, a saved
\* one ends its dialog's wait only now.
AfterGroups(r, others) ==
  IF "deleteGroup" \in r.waits THEN ListRefetched(others, r.next, r.moves) ELSE others

\* refetch() of the groups, with what is cancelled of them.
Cancelled == IF project \in loaded THEN Groups(pending) ELSE {}

GroupsRefetched(r) ==
  LET shared == Groups(pending) \ Cancelled
      others == pending \ (shared \cup Cancelled \cup {r})
      mayMove == {g \in Cancelled : "deleteGroup" \in g.waits}
      fetching == IF mayMove = {} THEN others ELSE AfterGroups(CHOOSE g \in mayMove : TRUE, others)
      mine == [Blank("groups", fetching \cup shared) EXCEPT
                 !.waits = {r.dialog} \cap Dialog, !.next = r.next, !.moves = r.moves]
  IN  fetching \cup
        (IF shared = {} THEN {mine}
         ELSE {[g EXCEPT !.waits = @ \cup mine.waits,
                         !.next = IF r.dialog = "deleteGroup" THEN r.next ELSE @,
                         !.moves = IF r.dialog = "deleteGroup" THEN r.moves ELSE @] : g \in shared})

\* Variant: a saved group frees its dialog only if the groups were not fetched.
WaitedNever(requests) == {}

\* The dialog that is free once these fetches of the groups have ended.
Waited(requests) == {"group"} \cap UNION {g.waits : g \in requests}

Remaining(r) == Without(list, r.members)

DeleteGroupAnswered(r) ==
  /\ Answered(r, "deleteGroup")
  /\ \E id \in {IF r.moves THEN r.next ELSE selected, selected} : Show(Remaining(r), id)
  /\ saving' = saving \ ({"deleteGroup"} \cup Waited(Cancelled))
  /\ CloseAfter("deleteGroup", {})
  /\ pending' = GroupsRefetched(r)
  /\ aim' = IF r.moves THEN Aim(r) ELSE None
  /\ UNCHANGED <<host, serverVars, project, trusted, cacheVars, target, made, lost>>

GroupAnswered(r) ==
  /\ Answered(r, "saveGroup") \/ Answered(r, "toggleGroup")
  /\ open' = IF r.kind = "saveGroup" THEN open \ {"group"} ELSE open
  /\ pending' = GroupsRefetched(r)
  /\ saving' = saving \ Waited(Cancelled)
  /\ UNCHANGED <<host, serverVars, project, listVars, cacheVars, target, made, lost>>

\* updateExpectationItem throws when the row is gone: the editor stays open then.
EditAnswered(r) ==
  /\ Answered(r, "edit")
  /\ Finish("edit") /\ open' = IF r.id \in Ids(list) THEN open \ {"edit"} ELSE open
  /\ list' = Updated(list, r)
  /\ pending' = pending \ {r}
  /\ UNCHANGED <<host, serverVars, project, selected, trusted, aim, cacheVars, target, made, lost>>

\* The reducers work on the place the row had when the request was sent.
InPlace(r) == r.index \in DOMAIN list /\ list[r.index].id = r.id

\* No other action is on its way to the same row: the server would replace the
\* first by the second, which the page does not know of.
Alone(r) ==
  \A q \in pending \ {r} : q.kind # "addAction" \/ q.id # r.id

ActionAnswered(r) ==
  /\ \E kind \in {"saveAction", "addAction", "deleteAction"} : Answered(r, kind)
  /\ list' = ActionChanged(list, r)
  /\ trusted' = (trusted /\ InPlace(r)
                   /\ (r.kind = "addAction" => list[r.index].action = NoAction /\ Alone(r)))
  /\ LET took == r.index \in DOMAIN list
     IN  CASE r.kind = "saveAction" ->
                 /\ Finish("action")
                 /\ open' = IF took /\ list[r.index].action.id = r.action
                            THEN open \ {"action"} ELSE open
                 /\ UNCHANGED target
           [] r.kind = "addAction" /\ took ->
                 /\ open' = open \cup {"action"}
                 /\ target' = [target EXCEPT !["action"] = r.action]
                 /\ UNCHANGED saving
           [] OTHER -> UNCHANGED <<open, target, saving>>
  /\ pending' = pending \ {r}
  /\ UNCHANGED <<host, serverVars, project, selected, aim, cacheVars, made, lost>>

ToggleAnswered(r) ==
  /\ Answered(r, "toggle")
  /\ Finish("switch")
  /\ pending' = pending \ {r}
  /\ UNCHANGED <<host, serverVars, project, listVars, cacheVars, open, target, made, lost>>

\* Variant: the switch is not thrown back.
ThrownBackNever(r) == list

ThrownBack(r) ==
  IF r.kind = "toggle" THEN Updated(list, [r EXCEPT !.active = ~@]) ELSE list

Reset(r) ==
  saving' = saving \ (CASE r.kind = "toggle" -> {"switch"}
                        [] r.kind \in Query -> Waited({r})
                        [] OTHER -> {r.dialog})

\* A command that was refused: a message, and the dialog stays.
Refused(r) ==
  /\ r \in pending /\ r.answered /\ ~r.ok
  /\ Reset(r)
  /\ list' = ThrownBack(r)
  /\ pending' = pending \ {r}
  /\ UNCHANGED <<host, serverVars, project, selected, trusted, aim, cacheVars, open,
                 target, made, lost>>

\* The answer of a cancelled fetch may come last, with a list that is older.
ListArrives(r) ==
  /\ Answered(r, "list")
  /\ Show(IF r.of = project THEN Newest(r.list) ELSE list, IF r.moves THEN r.next ELSE selected)
  /\ fetched' = fetched \cup {r.of}
  /\ trusted' = IF r.of = project THEN r.clean ELSE trusted
  /\ aim' = IF (IF r.of = project THEN Find(r.list, aim) = {} ELSE r.moves) THEN None ELSE aim
  /\ pending' = pending \ {r}
  /\ UNCHANGED <<host, serverVars, project, cached, loaded, dialogVars>>

GroupsArrive(r) ==
  /\ Answered(r, "groups")
  /\ cached' = [cached EXCEPT ![r.of] = r.groups]
  /\ loaded' = loaded \cup {r.of}
  /\ list' = list
  /\ selected' = Corrected(list, IF "deleteGroup" \in r.waits THEN Continued(pending, selected)
                                 ELSE selected, project \in loaded')
  /\ pending' = AfterGroups(r, pending \ {r})
  /\ Reset(r)
  /\ UNCHANGED <<host, serverVars, project, trusted, aim, fetched, open, target, made, lost>>

\* A request that fails for good, before or after it was handled.  A query is
\* tried again first, which is the same as an answer that takes longer.
Fails(r) ==
  /\ r \in pending
  /\ Reset(r)
  /\ Show(ThrownBack(r), selected)
  /\ pending' = IF r.kind = "groups" THEN AfterGroups(r, pending \ {r}) ELSE pending \ {r}
  /\ trusted' = (trusted /\ (r.kind \in Query \/ ~r.answered))
  /\ aim' = IF r.kind = "list" THEN None ELSE aim
  /\ lost' = IF r.kind = "create" /\ r.answered /\ made[r.dialog] > lost[r.dialog]
             THEN [lost EXCEPT ![r.dialog] = @ + 1] ELSE lost
  /\ UNCHANGED <<host, serverVars, project, cacheVars, open, target, made>>

Arrives(r) ==
  CreateAnswered(r) \/ DeleteAnswered(r) \/ DeleteGroupAnswered(r) \/ GroupAnswered(r)
    \/ EditAnswered(r) \/ ActionAnswered(r) \/ ToggleAnswered(r) \/ Refused(r)
    \/ ListArrives(r) \/ GroupsArrive(r)

-----------------------------------------------------------------------------
Document(id, group) ==
  [id |-> id, group |-> group, text |-> 0, active |-> TRUE, action |-> NoAction]

\* A page that was just opened: its queries are under way.
Init ==
  /\ host \in {"web", "desktop"}
  /\ project = First
  /\ \E group \in {None, 1} :
       stored = [p \in Project |-> IF p = project THEN {Document(2, 1), Document(3, group)}
                                  ELSE {Document(4, None)}]
  /\ groups = [p \in Project |->
       IF p = project THEN {[id |-> 1, text |-> 0, active |-> TRUE]} ELSE {}]
  /\ lastId = 4 /\ lastText = 0
  /\ list = <<>> /\ selected = None
  /\ cached = [p \in Project |-> {}] /\ loaded = {} /\ fetched = {}
  /\ open = {} /\ saving = {}
  /\ target = [d \in Dialog |-> None] /\ made = [d \in Dialog |-> 0]
  /\ lost = [d \in Dialog |-> 0]
  /\ pending = {[Blank("list", {}) EXCEPT !.clean = TRUE], [Blank("groups", {}) EXCEPT !.no = 2]}
  /\ trusted = FALSE /\ aim = None
=============================================================================
