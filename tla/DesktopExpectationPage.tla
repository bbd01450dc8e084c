------------------------ MODULE DesktopExpectationPage ------------------------
(***************************************************************************)
(* The expectation page of the desktop build.  It is a copy of the page of *)
(* ExpectationPage, whose handlers it has one by one; the main process     *)
(* answers its invocations as the back end does the requests.              *)
(***************************************************************************)
EXTENDS ExpectationPage

DesktopHandleCreate == HandleCreate
DesktopHandleDeleteExpectation == HandleDeleteExpectation
DesktopHandleDeleteGroup == HandleDeleteGroup
DesktopHandleSubmitGroup == HandleSubmitGroup
DesktopHandleSave == HandleSave
DesktopHandleSaveAction == HandleSaveAction
DesktopHandleDeleteAction == HandleDeleteAction
DesktopHandleAddAction == HandleAddAction
DesktopHandleToggleActive == HandleToggleActive
DesktopHandleToggleGroupActive == HandleToggleGroupActive
DesktopHandleEditAction == HandleEditAction
DesktopSelectRow == SelectRow
DesktopSwitchProject(p) == SwitchProject(p)
DesktopDialogs == OpenAdd \/ OpenOnSelected \/ OpenGroup \/ OpenDeleteGroup \/ Close

DesktopCreateAnswered(r) == CreateAnswered(r)
DesktopDeleteAnswered(r) == DeleteAnswered(r)
DesktopDeleteGroupAnswered(r) == DeleteGroupAnswered(r)
DesktopGroupAnswered(r) == GroupAnswered(r)
DesktopEditAnswered(r) == EditAnswered(r)
DesktopActionAnswered(r) == ActionAnswered(r)
DesktopToggleAnswered(r) == ToggleAnswered(r)
DesktopListArrives(r) == ListArrives(r)
DesktopGroupsArrive(r) == GroupsArrive(r)

\* The handlers of the main process.
IpcQuery(r) == r.kind \in Query /\ ServeQuery(r)
IpcCreateExpectation(r) == r.kind = "create" /\ ServeCreate(r)
IpcUpdateExpectation(r) == r.kind \in {"edit", "toggle"} /\ ServeUpdate(r)
IpcDeleteExpectation(r) == r.kind = "delete" /\ ServeDelete(r)
IpcAction(r) == r.kind \in {"saveAction", "addAction", "deleteAction"} /\ ServeUpdate(r)
IpcSaveGroup(r) == r.kind \in {"saveGroup", "toggleGroup"} /\ ServeSaveGroup(r)
IpcDeleteGroup(r) == r.kind = "deleteGroup" /\ ServeDeleteGroup(r)

IpcHandle(r) ==
  /\ r \in pending /\ ~r.answered
  /\ \/ IpcQuery(r) \/ IpcCreateExpectation(r) \/ IpcUpdateExpectation(r)
     \/ IpcDeleteExpectation(r) \/ IpcAction(r) \/ IpcSaveGroup(r) \/ IpcDeleteGroup(r)
  /\ Count(r)
  /\ UNCHANGED <<host, project, listVars, cacheVars, open, target, saving, lost>>

-----------------------------------------------------------------------------
(* Both builds, and the bound on what happens to a page.                   *)

CONSTANT Budgets   \* bound: how often each kind of step is taken

Kind == {"create", "delete", "group", "edit", "action", "toggle", "select", "switch", "fail"}

ASSUME BudgetAssumption == Budgets \subseteq [Kind -> Nat]

VARIABLE budget

pageVars == <<vars, budget>>

Spend(kind) ==
  budget[kind] > 0 /\ budget' = [budget EXCEPT ![kind] = @ - 1]

Free == UNCHANGED budget

Web(kind) ==
  CASE kind = "create" -> HandleCreate
    [] kind = "delete" -> HandleDeleteExpectation \/ HandleDeleteGroup
    [] kind = "group" -> HandleSubmitGroup \/ HandleToggleGroupActive
    [] kind = "edit" -> HandleSave
    [] kind = "action" -> HandleSaveAction \/ HandleDeleteAction \/ HandleAddAction
    [] kind = "toggle" -> HandleToggleActive
    [] kind = "select" -> SelectRow
    [] OTHER -> \E p \in Project : SwitchProject(p)

Desktop(kind) ==
  CASE kind = "create" -> DesktopHandleCreate
    [] kind = "delete" -> DesktopHandleDeleteExpectation \/ DesktopHandleDeleteGroup
    [] kind = "group" -> DesktopHandleSubmitGroup \/ DesktopHandleToggleGroupActive
    [] kind = "edit" -> DesktopHandleSave
    [] kind = "action" -> DesktopHandleSaveAction \/ DesktopHandleDeleteAction
                            \/ DesktopHandleAddAction
    [] kind = "toggle" -> DesktopHandleToggleActive
    [] kind = "select" -> DesktopSelectRow
    [] OTHER -> \E p \in Project : DesktopSwitchProject(p)

\* A dialog is opened only if something is left to do in it.
Useful == \A d \in open' \ open :
  \E kind \in {"create", "delete", "group", "edit", "action"} : budget[kind] > 0 /\
    d \in CASE kind = "create" -> {"add", "clone"}
             [] kind = "delete" -> {"delete", "deleteGroup"}
             [] OTHER -> {kind}

Dialogs ==
  \/ host = "web" /\ (OpenAdd \/ OpenOnSelected \/ OpenGroup \/ OpenDeleteGroup
                        \/ HandleEditAction \/ Close)
  \/ host = "desktop" /\ (DesktopDialogs \/ DesktopHandleEditAction)

DesktopArrives(r) ==
  DesktopCreateAnswered(r) \/ DesktopDeleteAnswered(r) \/ DesktopDeleteGroupAnswered(r)
    \/ DesktopGroupAnswered(r) \/ DesktopEditAnswered(r) \/ DesktopActionAnswered(r)
    \/ DesktopToggleAnswered(r) \/ Refused(r) \/ DesktopListArrives(r)
    \/ DesktopGroupsArrive(r)

Ends(r) == IF host = "web" THEN Serve(r) \/ Arrives(r) ELSE IpcHandle(r) \/ DesktopArrives(r)

Next ==
  \/ \E kind \in Kind \ {"fail"} :
       Spend(kind) /\ IF host = "web" THEN Web(kind) ELSE Desktop(kind)
  \/ (\E r \in pending : Fails(r)) /\ Spend("fail")
  \/ Dialogs /\ Useful /\ Free
  \/ (\E r \in pending : Ends(r)) /\ Free

PageInit == Init /\ budget \in Budgets

Spec == PageInit /\ [][Next]_pageVars

(***************************************************************************)
(* What the network and the server owe: a request that does not fail is    *)
(* handled, and its answer arrives.                                        *)
(***************************************************************************)
FairSpec == Spec /\ WF_pageVars(Free /\ \E r \in pending : Ends(r))

-----------------------------------------------------------------------------
\* In quiet times the list is what is stored: when no request is on its way
\* and nothing has disturbed the list since it was fetched, its rows are the
\* expectations of the shown project.  Disturbances are those the page has no
\* answer to: a command under way while the list is fetched, a failed request,
\* an action changed at a place that is another row's by now, two actions on their
\* way to one row, which the server gets in the other order.
QuietListIsStored ==
  trusted /\ pending = {} => {list[i] : i \in DOMAIN list} = stored[project]

\* Once everything has been fetched the row is selected that the last create
\* or delete means to select: the new row, or the neighbour of the deleted one.
SelectionFollows ==
  aim # None /\ pending = {} /\ aim \in Ids(list) => selected = aim

\* "The expectation exists from here on: close the dialog even if refreshing the
\* list fails, so pressing Create again cannot duplicate it" (handleCreate): one
\* opening of a dialog has at most one expectation stored, and one more for every
\* answer that was lost after its expectation was stored.
CreatedOnce == \A d \in Dialog : made[d] <= 1 + lost[d]

\* The dialogs and the switch that wait are free again some time, whatever
\* becomes of their requests.
SavingEnds == saving # {} ~> saving = {}
=============================================================================
