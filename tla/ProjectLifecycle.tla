-------------------------- MODULE ProjectLifecycle --------------------------
(***************************************************************************)
(* The life of mock projects inside one run of the back end: the project   *)
(* records, the run status of every project, the http.Server that serves   *)
(* its mock port, and the control-plane handlers of projectController.ts   *)
(* that create, update, start, stop and delete projects.                   *)
(*                                                                         *)
(* A handler is one action per stretch of code between two awaits that can *)
(* really suspend it: the first load of the project's databases, the       *)
(* outcome of server.listen, the end of server.close and the deletion of   *)
(* the database files.  Everything between two such points is one          *)
(* JavaScript turn and therefore one atomic step.                          *)
(*                                                                         *)
(* A definition marked Variant is a faulty form of the definition after    *)
(* it.  It is used only to confirm that a property can fail.               *)
(***************************************************************************)
EXTENDS Naturals

CONSTANTS
    Project,    \* the project ids
    Port,       \* the mock ports a project can be given
    Request,    \* slots for control-plane requests being handled
    BadId,      \* the project ids that checkValidIdStr refuses
    BadPort,    \* the ports that server.listen refuses by throwing
    NoPort,     \* not a port: never created, or a server that is not listening
    NoProject   \* the target of an idle request slot

ASSUME IdAssumption   == BadId \subseteq Project /\ NoProject \notin Project
ASSUME PortAssumption == BadPort \subseteq Port /\ NoPort \notin Port

VARIABLES
    live,       \* the projects in the project collection
    port,       \* the port field of each project object
    status,     \* projectStatusMap
    server,     \* the keys of projectServerMap
    bound,      \* the port each project's server listens on
    pc,         \* where each request's handler is suspended
    target      \* the project each request is about

vars == <<live, port, status, server, bound, pc, target>>
records == <<live, port>>
servers == <<status, server, bound>>
handlers == <<pc, target>>

Status == {"STOPPED", "STARTING", "STARTED", "CLOSING"}

\* idle: no handler; routing: start awaits getMockRouter; listening: start
\* awaits the outcome of listen; closing: stop awaits stopServer; deleting:
\* delete awaits the four deleteDatabase calls.
Pc == {"idle", "routing", "listening", "closing", "deleting"}

TypeOk ==
    /\ live \subseteq Project
    /\ port \in [Project -> Port \cup {NoPort}]
    /\ status \in [Project -> Status]
    /\ server \subseteq Project
    /\ bound \in [Project -> Port \cup {NoPort}]
    /\ pc \in [Request -> Pc]
    /\ target \in [Request -> Project \cup {NoProject}]

Init ==
    /\ live = {}
    /\ port = [p \in Project |-> NoPort]
    /\ status = [p \in Project |-> "STOPPED"]
    /\ server = {}
    /\ bound = [p \in Project |-> NoPort]
    /\ pc = [r \in Request |-> "idle"]
    /\ target = [r \in Request |-> NoProject]

-----------------------------------------------------------------------------
(* The handlers' frame: a request suspends at a point, or is answered.      *)

Suspend(r, p, at) ==
    /\ pc' = [pc EXCEPT ![r] = at]
    /\ target' = [target EXCEPT ![r] = p]

Answer(r) == Suspend(r, NoProject, "idle")

SetStatus(p, s) == status' = [status EXCEPT ![p] = s]

-----------------------------------------------------------------------------
(* Records.                                                                 *)

\* Project ids are fresh UUIDs, so an id is created once.  For a refused id
\* the handler throws after the insert and the record stays.
CreateProject(p, n) ==
    /\ port[p] = NoPort
    /\ live' = live \cup {p}
    /\ port' = [port EXCEPT ![p] = n]
    /\ UNCHANGED <<servers, handlers>>

\* Variant: the port may still be edited while the server is starting.
PortLockedOnceStarted(p) == status[p] \in {"STARTED", "CLOSING"}

PortLocked(p) == status[p] \in {"STARTING", "STARTED", "CLOSING"}

\* Only the port matters here; an update that leaves the port alone is
\* accepted in every status and changes nothing in this module.
UpdatePort(p, n) ==
    /\ p \in live
    /\ n # port[p]
    /\ ~PortLocked(p)
    /\ port' = [port EXCEPT ![p] = n]
    /\ UNCHANGED <<live, servers, handlers>>

-----------------------------------------------------------------------------
(* Start.                                                                   *)

PortFree(n) == \A q \in Project : bound[q] # n

\* server.listen binds the port at once and reports the outcome by an event.
\* A port that is free here may still be taken by another program.
Listen(r, p) ==
    /\ port[p] \notin BadPort
    /\ \/ PortFree(port[p]) /\ bound' = [bound EXCEPT ![p] = port[p]]
       \/ UNCHANGED bound
    /\ Suspend(r, p, "listening")

\* listen throws for an illegal port; the error handler answers 500.
ListenThrows(r, p) ==
    /\ port[p] \in BadPort
    /\ Answer(r)
    /\ UNCHANGED bound

\* Variant: only a running project refuses to start.
CanStartUnlessStarted(p) == status[p] # "STARTED" /\ p \in live

CanStart(p) == status[p] = "STOPPED" /\ p \in live

StartFirst(r, p) ==
    /\ pc[r] = "idle" /\ CanStart(p)
    /\ p \notin server
    /\ SetStatus(p, "STARTING")
    /\ Suspend(r, p, "routing")
    /\ UNCHANGED <<records, server, bound>>

StartAgain(r, p) ==
    /\ pc[r] = "idle" /\ CanStart(p)
    /\ p \in server
    /\ SetStatus(p, "STARTING")
    /\ Listen(r, p) \/ ListenThrows(r, p)
    /\ UNCHANGED <<records, server>>

RouterReady(r) ==
    /\ pc[r] = "routing"
    /\ target[r] \notin BadId
    /\ \/ Listen(r, target[r]) /\ server' = server \cup {target[r]}
       \/ ListenThrows(r, target[r]) /\ UNCHANGED server
    /\ UNCHANGED <<records, status>>

\* getDb rejects an invalid id: the handler throws, the status is not reset.
RouterFails(r) ==
    /\ pc[r] = "routing"
    /\ target[r] \in BadId
    /\ Answer(r)
    /\ UNCHANGED <<records, servers>>

ListenSucceeds(r) ==
    /\ pc[r] = "listening"
    /\ bound[target[r]] # NoPort
    /\ SetStatus(target[r], "STARTED")
    /\ Answer(r)
    /\ UNCHANGED <<records, server, bound>>

\* Variant: no error listener, nobody answers.
ListenFailsSilently(r) == pc[r] = "listening" /\ FALSE

\* The once("error") listener answers 500 and does nothing else.
ListenFails(r) ==
    /\ pc[r] = "listening"
    /\ bound[target[r]] = NoPort
    /\ Answer(r)
    /\ UNCHANGED <<records, servers>>

-----------------------------------------------------------------------------
(* Stop.                                                                    *)

\* Variant: CLOSING is announced before the server stops accepting.
StopAcceptStillOpen(r, p) ==
    /\ pc[r] = "idle"
    /\ status[p] = "STARTED" /\ p \in server
    /\ SetStatus(p, "CLOSING")
    /\ Suspend(r, p, "closing")
    /\ UNCHANGED <<records, server, bound>>

\* server.close stops listening at once; its end is reported later.
StopAccept(r, p) ==
    /\ pc[r] = "idle"
    /\ status[p] = "STARTED" /\ p \in server
    /\ SetStatus(p, "CLOSING")
    /\ bound' = [bound EXCEPT ![p] = NoPort]
    /\ Suspend(r, p, "closing")
    /\ UNCHANGED <<records, server>>

\* finish without an error: the close callback, or the three-second timer of
\* stopServer when sockets keep the server from closing.  The settled flag
\* makes the later of the two a no-op.
CloseEnds(r) ==
    /\ pc[r] = "closing"
    /\ SetStatus(target[r], "STOPPED")
    /\ Answer(r)
    /\ UNCHANGED <<records, server, bound>>

\* Variant: the error is reported before the status is repaired.
CloseFailsUnrepaired(r) ==
    /\ pc[r] = "closing"
    /\ Answer(r)
    /\ UNCHANGED <<records, servers>>

\* The close callback with any other error.
CloseFails(r) ==
    /\ pc[r] = "closing"
    /\ SetStatus(target[r], IF bound[target[r]] # NoPort THEN "STARTED" ELSE "STOPPED")
    /\ Answer(r)
    /\ UNCHANGED <<records, server, bound>>

-----------------------------------------------------------------------------
(* Delete.                                                                  *)

DeleteAccept(r, p) ==
    /\ pc[r] = "idle"
    /\ p \in live \ BadId
    /\ status[p] = "STOPPED"
    /\ Suspend(r, p, "deleting")
    /\ UNCHANGED <<records, servers>>

\* collection.remove throws when another delete already removed the record.
DeleteDone(r) ==
    /\ pc[r] = "deleting"
    /\ live' = live \ {target[r]}
    /\ Answer(r)
    /\ UNCHANGED <<port, servers>>

\* A database file that exists cannot be removed: 500, the record stays.
DeleteFails(r) ==
    /\ pc[r] = "deleting"
    /\ Answer(r)
    /\ UNCHANGED <<records, servers>>

-----------------------------------------------------------------------------
Resume(r) ==
    \/ RouterReady(r) \/ RouterFails(r)
    \/ ListenSucceeds(r) \/ ListenFails(r)
    \/ CloseEnds(r) \/ CloseFails(r)
    \/ DeleteDone(r) \/ DeleteFails(r)

Accept(r) ==
    \E p \in Project :
        StartFirst(r, p) \/ StartAgain(r, p) \/ StopAccept(r, p) \/ DeleteAccept(r, p)

Edit ==
    \E p \in Project, n \in Port : CreateProject(p, n) \/ UpdatePort(p, n)

Next == Edit \/ \E r \in Request : Accept(r) \/ Resume(r)

Spec == Init /\ [][Next]_vars

\* Loading a database, listening and deleting files end, well or badly.  A
\* server may never report its close, but the timer of stopServer fires.
Fairness ==
    \A r \in Request :
        /\ WF_vars(RouterReady(r) \/ RouterFails(r))
        /\ WF_vars(ListenSucceeds(r) \/ ListenFails(r))
        /\ WF_vars(CloseEnds(r))
        /\ WF_vars(DeleteDone(r) \/ DeleteFails(r))

FairSpec == Spec /\ Fairness

-----------------------------------------------------------------------------
(* Properties.                                                              *)

\* The status shown to the user and the real server agree: a server listens
\* only while its project is STARTING or STARTED, and a STARTED project has a
\* listening server that stop will find.
StatusMatchesServer ==
    \A p \in Project :
        /\ bound[p] # NoPort => status[p] \in {"STARTING", "STARTED"}
        /\ status[p] = "STARTED" => bound[p] # NoPort /\ p \in server

\* A server listens on the port its project object names, although the port
\* is read in one turn of start and edited by update requests in others.
BoundPortIsRecorded ==
    \A p \in Project : bound[p] # NoPort => bound[p] = port[p]

Switching == {"routing", "listening", "closing"}

\* At most one start or stop request is under way for a project, so no two
\* handlers build a server, listen or close for the same project.
OneSwitchPerProject ==
    \A r, s \in Request :
        r # s /\ pc[r] \in Switching /\ pc[s] \in Switching => target[r] # target[s]

\* "never leave a project stuck in CLOSING" (stopServer): a CLOSING project
\* has the stop request that will end it, and a listening server that is not
\* STARTED yet has the start request that will announce it.
NobodyStuckHalfway ==
    \A p \in Project :
        /\ status[p] = "CLOSING" =>
              \E r \in Request : pc[r] = "closing" /\ target[r] = p
        /\ status[p] = "STARTING" /\ bound[p] # NoPort =>
              \E r \in Request : pc[r] = "listening" /\ target[r] = p

\* Every accepted request is answered, the failed ones too.
RequestsAnswered == \A r \in Request : pc[r] # "idle" ~> pc[r] = "idle"

\* projectController.test.ts: delete of a project that is not STOPPED "must be
\* rejected": a record disappears only while its project is STOPPED.
DeletesOnlyStopped ==
    [][\A p \in live : p \notin live' => status[p] = "STOPPED"]_vars

\* What the dashboard relies on, see ListenerControl.
Control == INSTANCE ListenerControl WITH
    phase <- status,
    serving <- {p \in Project : bound[p] # NoPort}

ControlSafety == Control!Safety

\* Every behaviour of the handlers is one of ListenerControl, its liveness
\* included.
ControlSpec == Control!Spec
=============================================================================
