----------------------------- MODULE ProjectBar -----------------------------
(***************************************************************************)
(* The app bar of one dashboard against the project handlers: the list of  *)
(* projects it shows, the project the URL names, the settings and delete   *)
(* dialogs, and the requests under way.  Nothing tells the page that a     *)
(* project changed: it fetches the list again after each of its own        *)
(* operations, and whatever list arrives last is shown.                    *)
(*                                                                         *)
(* A row is the id, the status and the port of a project; the order of the *)
(* list is left out, so "the first project" is any one of them.  While no  *)
(* project is shown the welcome page stands for the router and its bar.    *)
(***************************************************************************)
EXTENDS DesktopLifecycle

CONSTANTS
    InitialProject, \* the projects stored when the page is opened
    InitialPort,    \* the port they have
    MaxClicks,      \* bound: how often the user acts
    MaxLosses       \* bound: how many calls the network loses

ASSUME BarAssumption == InitialProject \subseteq Project /\ InitialPort \in Port

VARIABLES
    shown,      \* projectList in the store
    url,        \* the project the URL names
    dialog,     \* the project dialog: none, settings, confirm
    draft,      \* the port in the settings dialog
    busy,       \* projectCreating, projectSettingsSaving, projectDeleting
    call,       \* the request in each slot
    erased,     \* history: deleted projects that no later answer brought back
    trusted,    \* history: no failure or overtaken list since the last list
    budget      \* clicks and losses left

bar == <<shown, url, dialog, draft, busy>>
barVars == <<hostVars, bar, call, erased, trusted, budget>>

Listed == {[id |-> p, status |-> status[p], port |-> port[p]] : p \in live}
Ids(rows) == {x.id : x \in rows}

\* useOptionalCurrentProject: the row the URL names, if it is shown.
Current(s) == \E x \in shown : x.id = url /\ x.status = s

NoCall == [kind |-> "none", id |-> NoProject, port |-> NoPort, stage |-> "none",
           lock |-> "none", rows |-> {}, goto |-> {}, clean |-> TRUE]

Ask(kind, p, n, lock) ==
    [NoCall EXCEPT !.kind = kind, !.id = p, !.port = n, !.stage = "sent", !.lock = lock]

\* refreshProjects, and where to navigate once the list is there.
Refresh(goto, lock) == [NoCall EXCEPT !.kind = "list", !.stage = "sent",
                                      !.goto = goto, !.lock = lock]

Idle(r) == call[r] = NoCall

BarTypeOk ==
    /\ Ids(shown) \subseteq Project
    /\ url \in Project
    /\ dialog \in {"none", "settings", "confirm"}
    /\ draft \in Port \cup {NoPort}
    /\ busy \subseteq {"create", "save", "delete"}
    /\ \A r \in Request : call[r].stage \in {"none", "sent", "handling", "answered", "refused"}
    /\ erased \subseteq Project
    /\ trusted \in BOOLEAN

BarInit ==
    /\ live = InitialProject
    /\ port = [p \in Project |-> IF p \in InitialProject THEN InitialPort ELSE NoPort]
    /\ status = [p \in Project |-> "STOPPED"]
    /\ server = {}
    /\ bound = [p \in Project |-> NoPort]
    /\ pc = [r \in Request |-> "idle"]
    /\ target = [r \in Request |-> NoProject]
    /\ host \in {"web", "desktop"}
    /\ shown = Listed
    /\ url \in InitialProject
    /\ dialog = "none" /\ draft = NoPort
    /\ busy = {}
    /\ call = [r \in Request |-> NoCall]
    /\ erased = {} /\ trusted = TRUE
    /\ budget = [clicks |-> MaxClicks, losses |-> MaxLosses]

-----------------------------------------------------------------------------
(* What the user does.                                                      *)

Click ==
    /\ budget.clicks > 0
    /\ budget' = [budget EXCEPT !.clicks = @ - 1]
    /\ UNCHANGED <<hostVars, erased, trusted>>

Send(r, c) == Idle(r) /\ call' = [call EXCEPT ![r] = c]

Lock(l) == l \notin busy /\ busy' = busy \cup {l}

OnToggleServer(r) ==
    /\ Click
    /\ \/ Current("STARTED") /\ Send(r, Ask("stop", url, NoPort, "none"))
       \/ Current("STOPPED") /\ Send(r, Ask("start", url, NoPort, "none"))
    /\ UNCHANGED bar

\* The form for a new project refuses other ports; the settings take them.
ValidPort(n) == n \notin BadPort

\* createProject draws a fresh id.
Create(r, p, n) ==
    /\ Click
    /\ ValidPort(n)
    /\ port[p] = NoPort /\ \A s \in Request : call[s].id # p
    /\ Lock("create")
    /\ Send(r, Ask("create", p, n, "create"))
    /\ UNCHANGED <<shown, url, dialog, draft>>

OnCreateProject(r, p, n) == shown # {} /\ Create(r, p, n)

CreateFromWelcome(r, p, n) == shown = {} /\ Create(r, p, n)

\* The dialog takes its values from the project it is opened for, and keeps
\* them when the project below it changes.
OpenSettings ==
    /\ dialog = "none"
    /\ \E x \in shown : x.id = url /\ draft' = x.port
    /\ dialog' = "settings"
    /\ UNCHANGED <<hostVars, shown, url, busy, call, erased, trusted, budget>>

CloseSettings ==
    /\ dialog = "settings"
    /\ dialog' = "none" /\ draft' = NoPort
    /\ UNCHANGED <<hostVars, shown, url, busy, call, erased, trusted, budget>>

AskToConfirm ==
    /\ dialog = "settings" /\ Current("STOPPED")
    /\ dialog' = "confirm"
    /\ UNCHANGED <<hostVars, shown, url, draft, busy, call, erased, trusted, budget>>

CancelConfirm ==
    /\ dialog = "confirm"
    /\ dialog' = "settings"
    /\ UNCHANGED <<hostVars, shown, url, draft, busy, call, erased, trusted, budget>>

\* The port field is enabled while the shown project is stopped.
Submittable(n) == n = draft \/ Current("STOPPED")

OnSaveProjectSettings(r, n) ==
    /\ Click
    /\ dialog = "settings" /\ url \in Ids(shown)
    /\ Submittable(n)
    /\ Lock("save")
    /\ Send(r, Ask("save", url, n, "save"))
    /\ draft' = n
    /\ UNCHANGED <<shown, url, dialog>>

\* The list that will remain is the one of the render the click belongs to.
OnDeleteProject(r) ==
    /\ Click
    /\ dialog = "confirm" /\ url \in Ids(shown)
    /\ Lock("delete")
    /\ Send(r, [Ask("delete", url, NoPort, "delete") EXCEPT
                   !.rows = {x \in shown : x.id # url}])
    /\ UNCHANGED <<shown, url, dialog, draft>>

\* A link of the project menu.
SwitchProject ==
    /\ Click
    /\ \E x \in shown : url' = x.id /\ x.id # url
    /\ UNCHANGED <<shown, dialog, draft, busy, call>>

-----------------------------------------------------------------------------
(* What the server does.                                                    *)

\* The call's handler goes on; a list under way misses what it changed.
Stage(r, s) ==
    /\ call' = [t \in Request |->
                  IF t = r THEN [call[t] EXCEPT !.stage = s]
                  ELSE [call[t] EXCEPT !.clean = @ /\ (Listed' = Listed \/ call[t].stage = "sent")]]
    /\ UNCHANGED <<host, bar, erased, trusted, budget>>

Begin(r) ==
    LET c == call[r] IN
    /\ c.stage = "sent"
    /\ \/ c.kind = "start" /\ (StartFirst(r, c.id) \/ StartAgain(r, c.id))
       \/ c.kind = "stop" /\ StopAccept(r, c.id)
       \/ c.kind = "delete" /\ DeleteAccept(r, c.id)
    /\ Stage(r, IF pc'[r] = "idle" THEN "refused" ELSE "handling")

Edited(r) ==
    LET c == call[r] IN
    /\ c.stage = "sent"
    /\ \/ c.kind = "create" /\ CreateProject(c.id, c.port)
       \/ c.kind = "save" /\ UpdatePort(c.id, c.port)
       \/ /\ c.kind = "save" /\ c.id \in live /\ c.port = port[c.id]
          /\ UNCHANGED vars
    /\ Stage(r, "answered")

Refused(r) ==
    LET c == call[r] IN
    /\ c.stage = "sent"
    /\ \/ c.kind = "start" /\ ~CanStart(c.id)
       \/ c.kind = "stop" /\ status[c.id] # "STARTED"
       \/ c.kind = "delete" /\ (c.id \notin live \/ status[c.id] # "STOPPED")
       \/ c.kind = "save" /\ (c.id \notin live \/ (c.port # port[c.id] /\ PortLocked(c.id)))
    /\ UNCHANGED vars
    /\ Stage(r, "refused")

\* Ids come from createProject, so every database loads.
Routed(r) ==
    /\ \/ host = "web" /\ RouterReady(r)
       \/ host = "desktop" /\ IpcRouterReady(r)
    /\ Stage(r, IF pc'[r] = "idle" THEN "refused" ELSE "handling")

Done(r) ==
    /\ ListenSucceeds(r) \/ CloseEnds(r) \/ DeleteDone(r)
    /\ Stage(r, "answered")

\* The desktop's start has answered by then: the failure is only logged.
NotDone(r) ==
    \/ ListenFails(r) /\ Stage(r, IF host = "desktop" THEN "answered" ELSE "refused")
    \/ (CloseFails(r) \/ DeleteFails(r)) /\ Stage(r, "refused")

ListAnswered(r) ==
    /\ call[r].kind = "list" /\ call[r].stage = "sent"
    /\ call' = [call EXCEPT ![r].stage = "answered", ![r].rows = Listed]
    /\ UNCHANGED <<hostVars, bar, erased, trusted, budget>>

-----------------------------------------------------------------------------
(* What the answers do to the page.                                         *)

\* ProjectRoute: a project that is not in the list gives way to the first.
Redirected(rows, u) == IF rows = {} \/ u \in Ids(rows) THEN {u} ELSE Ids(rows)

\* The bar of the router comes and goes with the list: the state of the old
\* one is gone, and what its calls set is lost.
Remounted(rows) == (rows = {}) # (shown = {})

Show(r, rows, next, lock, closes) ==
    /\ shown' = rows
    /\ busy' = IF Remounted(rows) THEN {} ELSE busy \ {lock}
    /\ IF Remounted(rows) \/ closes
       THEN dialog' = "none" /\ draft' = NoPort ELSE UNCHANGED <<dialog, draft>>
    /\ call' = [t \in Request |->
                  IF t = r THEN next
                  ELSE IF Remounted(rows) THEN [call[t] EXCEPT !.lock = "none"] ELSE call[t]]
    /\ UNCHANGED <<hostVars, budget>>

Received(r, kinds) == call[r].kind \in kinds /\ call[r].stage = "answered"

\* Variant: a start or stop is not followed by a refresh.
AfterToggleNothing == NoCall

AfterToggle == Refresh({}, "none")

ToggleAnswered(r) ==
    /\ Received(r, {"start", "stop"})
    /\ Show(r, shown, AfterToggle, "none", FALSE)
    /\ UNCHANGED <<url, erased, trusted>>

CreateAnswered(r) ==
    /\ Received(r, {"create"})
    /\ Show(r, shown, Refresh({call[r].id}, call[r].lock), "none", FALSE)
    /\ UNCHANGED <<url, erased, trusted>>

\* The refresh is not awaited.
SaveAnswered(r) ==
    /\ Received(r, {"save"})
    /\ Show(r, shown, Refresh({}, "none"), call[r].lock, call[r].lock # "none")
    /\ UNCHANGED <<url, erased, trusted>>

\* Variant: the refresh alone removes the deleted project.
RemainingAsShown(c) == shown

Remaining(c) == c.rows

DeleteAnswered(r) ==
    LET c == call[r]
        rows == Remaining(c)
    IN  /\ Received(r, {"delete"})
        /\ Show(r, rows, Refresh(IF rows = {} THEN Project ELSE {}, "none"),
                c.lock, c.lock # "none")
        /\ url' \in IF rows = {} THEN {url} ELSE Ids(rows)
        /\ erased' = (erased \cup {c.id}) \ Ids(c.rows)
        /\ UNCHANGED trusted

\* setProjectList, then the navigation of the operation that asked.
ListArrives(r) ==
    LET c == call[r]
        goal == c.goto \cap Ids(c.rows)
    IN  /\ Received(r, {"list"})
        /\ Show(r, c.rows, NoCall, c.lock, FALSE)
        /\ url' \in IF goal # {} THEN goal ELSE Redirected(c.rows, url)
        /\ erased' = erased \ Ids(c.rows)
        /\ trusted' = c.clean

\* A toast; the dialogs stay as they are.  Start, stop and a refresh that is
\* not awaited take no notice at all.
Failed(r) ==
    /\ call[r].stage = "refused"
    /\ Show(r, shown, NoCall, call[r].lock, FALSE)
    /\ trusted' = FALSE
    /\ UNCHANGED <<url, erased>>

\* HTTP only: the request or its answer is lost.
Lost(r) ==
    /\ host = "web" /\ budget.losses > 0
    /\ call[r].stage \in {"sent", "answered"}
    /\ busy' = busy \ {call[r].lock}
    /\ call' = [call EXCEPT ![r] = NoCall]
    /\ budget' = [budget EXCEPT !.losses = @ - 1]
    /\ trusted' = FALSE
    /\ UNCHANGED <<hostVars, shown, url, dialog, draft, erased>>

-----------------------------------------------------------------------------
User ==
    \/ OpenSettings \/ CloseSettings \/ AskToConfirm \/ CancelConfirm
    \/ SwitchProject
    \/ \E r \in Request :
         \/ OnToggleServer(r) \/ OnDeleteProject(r)
         \/ \E n \in Port : OnSaveProjectSettings(r, n)
         \/ \E n \in Port, p \in Project : OnCreateProject(r, p, n) \/ CreateFromWelcome(r, p, n)

Serve(r) ==
    Begin(r) \/ Edited(r) \/ Refused(r) \/ Routed(r) \/ Done(r) \/ NotDone(r) \/ ListAnswered(r)

Receive(r) ==
    \/ ToggleAnswered(r) \/ CreateAnswered(r) \/ SaveAnswered(r) \/ DeleteAnswered(r)
    \/ ListArrives(r) \/ Failed(r) \/ Lost(r)

BarNext == User \/ \E r \in Request : Serve(r) \/ Receive(r)

BarSpec == BarInit /\ [][BarNext]_barVars

-----------------------------------------------------------------------------
(* Properties.                                                              *)

\* Every operation of the bar is followed by a refresh that shows its outcome:
\* when no call is under way, none failed and no list was overtaken by a later
\* change, the bar shows the stored projects with their real status, and the
\* URL names one of them.
QuietBarIsExact ==
    trusted /\ (\A r \in Request : Idle(r)) =>
        /\ shown = Listed
        /\ shown # {} => url \in Ids(shown)

\* "Remove the project locally first, so a failed refresh cannot leave the
\* deleted project selected" (onDeleteProject): after its delete was answered
\* a project is selected only if a later answer still holds it: a list fetched
\* before, or the rows another delete took before.
DeletedNotSelected ==
    \A p \in erased : url # p \/ p \notin Ids(shown)
=============================================================================
