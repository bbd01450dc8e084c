-------------------------- MODULE ProjectBarProofs --------------------------
(***************************************************************************)
(* Proofs about the lifecycle and the app bar of both builds, for every    *)
(* set of projects, ports and request slots and every bound on clicks and  *)
(* losses.  The first part is about the lifecycle.  Its inductive          *)
(* invariant, IInv, adds to the safety properties what a suspended handler *)
(* knows about the status, the server and the target it will find when it  *)
(* resumes.  The second part is about the bar.  BarInv says what a slot    *)
(* owes the page: the handler that works for it, the list it carries, the  *)
(* rows a delete remembers.  It contains IInv, because every step of the   *)
(* bar is one of the lifecycle's or leaves it alone.                       *)
(***************************************************************************)
EXTENDS DesktopBar, TLAPS

\* A suspended start finds STARTING, one that listens also finds its server in
\* the map, and a suspended stop finds CLOSING.
InFlight ==
    \A r \in Request :
        /\ pc[r] # "idle" => target[r] \in Project
        /\ pc[r] \in {"routing", "listening"} => status[target[r]] = "STARTING"
        /\ pc[r] = "listening" => target[r] \in server
        /\ pc[r] = "closing" => status[target[r]] = "CLOSING"

IInv ==
    /\ TypeOk
    /\ InFlight
    /\ StatusMatchesServer
    /\ BoundPortIsRecorded
    /\ OneSwitchPerProject
    /\ NobodyStuckHalfway

-----------------------------------------------------------------------------
(* Lemmas: the initial state, then one per group of actions.                *)

LEMMA InitInv == Init => IInv
  BY PortAssumption
  DEF Init, IInv, TypeOk, Status, Pc, InFlight, StatusMatchesServer,
      BoundPortIsRecorded, OneSwitchPerProject, Switching, NobodyStuckHalfway

\* The record operations leave every server and handler alone, and change the
\* port of a project only when no server is bound to it.
LEMMA EditInv == ASSUME IInv, Edit PROVE IInv'
<1>1. PICK p \in Project, n \in Port : CreateProject(p, n) \/ UpdatePort(p, n)
  BY DEF Edit
<1>2. bound[p] = NoPort
  <2>1. CASE CreateProject(p, n)
    BY <2>1 DEF IInv, BoundPortIsRecorded, CreateProject
  <2>2. CASE UpdatePort(p, n)
    BY <2>2 DEF IInv, StatusMatchesServer, UpdatePort, PortLocked
  <2> QED BY <1>1, <2>1, <2>2
<1>3. /\ port' = [port EXCEPT ![p] = n]
      /\ live' \subseteq Project
      /\ UNCHANGED <<servers, handlers>>
  BY <1>1 DEF CreateProject, UpdatePort, IInv, TypeOk
<1>4. TypeOk'
  BY <1>1, <1>3 DEF IInv, TypeOk, servers, handlers
<1>5. BoundPortIsRecorded'
  BY <1>1, <1>2, <1>3 DEF IInv, TypeOk, BoundPortIsRecorded, servers
<1>6. /\ InFlight' /\ StatusMatchesServer'
      /\ OneSwitchPerProject' /\ NobodyStuckHalfway'
  BY <1>3 DEF IInv, InFlight, StatusMatchesServer, OneSwitchPerProject,
              NobodyStuckHalfway, servers, handlers
<1> QED BY <1>4, <1>5, <1>6 DEF IInv

\* start up to its first await: no other handler works on a STOPPED project.
LEMMA StartInv ==
  ASSUME IInv, NEW r \in Request, NEW p \in Project,
         StartFirst(r, p) \/ StartAgain(r, p)
  PROVE  IInv'
<1> USE DEF IInv, TypeOk, Suspend, Answer, SetStatus, records, Status, Pc
<1>1. /\ pc[r] = "idle" /\ status[p] = "STOPPED"
      /\ status' = [status EXCEPT ![p] = "STARTING"]
      /\ UNCHANGED <<live, port, server>>
  BY DEF StartFirst, StartAgain, CanStart
<1>2. \A s \in Request : pc[s] \in Switching => target[s] # p
  BY <1>1 DEF InFlight, Switching
<1>3. CASE StartFirst(r, p)
  <2>1. /\ pc' = [pc EXCEPT ![r] = "routing"]
        /\ target' = [target EXCEPT ![r] = p]
        /\ UNCHANGED bound
    BY <1>3 DEF StartFirst
  <2>2. TypeOk' BY <1>1, <2>1
  <2>3. InFlight' BY <1>1, <1>2, <2>1 DEF InFlight, Switching
  <2>4. StatusMatchesServer' /\ BoundPortIsRecorded'
    BY <1>1, <2>1 DEF StatusMatchesServer, BoundPortIsRecorded
  <2>5. OneSwitchPerProject' BY <1>1, <1>2, <2>1 DEF OneSwitchPerProject, Switching
  <2>6. NobodyStuckHalfway'
    BY <1>1, <1>2, <2>1 DEF NobodyStuckHalfway, StatusMatchesServer
  <2> QED BY <2>2, <2>3, <2>4, <2>5, <2>6
<1>4. CASE StartAgain(r, p) /\ Listen(r, p)
  <2>1. /\ pc' = [pc EXCEPT ![r] = "listening"]
        /\ target' = [target EXCEPT ![r] = p]
        /\ p \in server
        /\ bound' = [bound EXCEPT ![p] = port[p]] \/ bound' = bound
    BY <1>4 DEF StartAgain, Listen
  <2>2. TypeOk' BY <1>1, <2>1
  <2>3. InFlight' BY <1>1, <1>2, <2>1 DEF InFlight, Switching
  <2>4. StatusMatchesServer' /\ BoundPortIsRecorded'
    BY <1>1, <2>1 DEF StatusMatchesServer, BoundPortIsRecorded
  <2>5. OneSwitchPerProject' BY <1>1, <1>2, <2>1 DEF OneSwitchPerProject, Switching
  <2>6. NobodyStuckHalfway'
    BY <1>1, <1>2, <2>1 DEF NobodyStuckHalfway, StatusMatchesServer
  <2> QED BY <2>2, <2>3, <2>4, <2>5, <2>6
<1>5. CASE StartAgain(r, p) /\ ListenThrows(r, p)
  <2>1. /\ pc' = [pc EXCEPT ![r] = "idle"]
        /\ target' = [target EXCEPT ![r] = NoProject]
        /\ UNCHANGED bound
    BY <1>5 DEF StartAgain, ListenThrows
  <2>2. TypeOk' BY <1>1, <2>1
  <2>3. InFlight' BY <1>1, <1>2, <2>1 DEF InFlight, Switching
  <2>4. StatusMatchesServer' /\ BoundPortIsRecorded'
    BY <1>1, <2>1 DEF StatusMatchesServer, BoundPortIsRecorded
  <2>5. OneSwitchPerProject' BY <1>1, <1>2, <2>1 DEF OneSwitchPerProject, Switching
  <2>6. NobodyStuckHalfway'
    BY <1>1, <1>2, <2>1 DEF NobodyStuckHalfway, StatusMatchesServer
  <2> QED BY <2>2, <2>3, <2>4, <2>5, <2>6
<1> QED BY <1>3, <1>4, <1>5 DEF StartAgain

\* The router of a first start is ready, or its databases cannot be opened.
LEMMA RouterInv ==
  ASSUME IInv, NEW r \in Request, RouterReady(r) \/ IpcRouterReady(r) \/ RouterFails(r)
  PROVE  IInv'
<1> DEFINE p == target[r]
<1> USE DEF IInv, TypeOk, Suspend, Answer, records, servers, Status, Pc
<1>1. /\ pc[r] = "routing" /\ p \in Project /\ status[p] = "STARTING"
      /\ UNCHANGED <<live, port, status>>
  BY DEF RouterReady, IpcRouterReady, RouterFails, InFlight
<1>2. \A s \in Request \ {r} : pc[s] \in Switching => target[s] # p
  BY <1>1 DEF OneSwitchPerProject, Switching
<1>3. bound[p] = NoPort
  BY <1>1, <1>2 DEF NobodyStuckHalfway, Switching
<1>4. ASSUME RouterReady(r) \/ IpcRouterReady(r), Listen(r, p) PROVE IInv'
  <2>1. /\ pc' = [pc EXCEPT ![r] = "listening"]
        /\ target' = [target EXCEPT ![r] = p]
        /\ bound' = [bound EXCEPT ![p] = port[p]] \/ bound' = bound
    BY <1>4 DEF Listen
  <2>2. server' = server \cup {p}
    BY <1>1, <1>4, <2>1 DEF RouterReady, IpcRouterReady, ListenThrows, Listen
  <2>3. TypeOk' BY <1>1, <2>1, <2>2
  <2>4. InFlight' BY <1>1, <1>2, <2>1, <2>2 DEF InFlight, Switching
  <2>5. StatusMatchesServer' /\ BoundPortIsRecorded'
    BY <1>1, <2>1, <2>2 DEF StatusMatchesServer, BoundPortIsRecorded
  <2>6. OneSwitchPerProject' BY <1>1, <1>2, <2>1 DEF OneSwitchPerProject, Switching
  <2>7. NobodyStuckHalfway' BY <1>1, <1>2, <2>1 DEF NobodyStuckHalfway, Switching
  <2> QED BY <2>3, <2>4, <2>5, <2>6, <2>7
<1>5. ASSUME \/ RouterFails(r)
             \/ (RouterReady(r) \/ IpcRouterReady(r)) /\ ListenThrows(r, p)
      PROVE  IInv'
  <2>1. /\ pc' = [pc EXCEPT ![r] = "idle"]
        /\ target' = [target EXCEPT ![r] = NoProject]
        /\ server' = server \/ server' = server \cup {p}
        /\ UNCHANGED bound
    BY <1>1, <1>5 DEF RouterReady, IpcRouterReady, RouterFails, ListenThrows, Listen
  <2>2. TypeOk' BY <1>1, <2>1
  <2>3. InFlight' BY <1>1, <2>1 DEF InFlight
  <2>4. StatusMatchesServer' /\ BoundPortIsRecorded'
    BY <1>1, <2>1 DEF StatusMatchesServer, BoundPortIsRecorded
  <2>5. OneSwitchPerProject' BY <1>1, <2>1 DEF OneSwitchPerProject, Switching
  <2>6. NobodyStuckHalfway' BY <1>1, <1>3, <2>1 DEF NobodyStuckHalfway
  <2> QED BY <2>2, <2>3, <2>4, <2>5, <2>6
<1>6. RouterReady(r) \/ IpcRouterReady(r) => Listen(r, p) \/ ListenThrows(r, p)
  BY DEF RouterReady, IpcRouterReady
<1> QED BY <1>4, <1>5, <1>6

\* The outcome of listen.
LEMMA ListenInv ==
  ASSUME IInv, NEW r \in Request, ListenSucceeds(r) \/ ListenFails(r)
  PROVE  IInv'
<1> DEFINE p == target[r]
<1> USE DEF IInv, TypeOk, Suspend, Answer, SetStatus, records, servers, Status, Pc
<1>1. /\ pc[r] = "listening" /\ p \in server /\ status[p] = "STARTING"
      /\ pc' = [pc EXCEPT ![r] = "idle"]
      /\ target' = [target EXCEPT ![r] = NoProject]
      /\ UNCHANGED <<live, port, server, bound>>
  BY DEF ListenSucceeds, ListenFails, InFlight
<1>2. \A s \in Request \ {r} : pc[s] \in Switching => target[s] # p
  BY <1>1 DEF OneSwitchPerProject, Switching
<1>3. \/ status' = status /\ bound[p] = NoPort
      \/ status' = [status EXCEPT ![p] = "STARTED"] /\ bound[p] # NoPort
  BY DEF ListenSucceeds, ListenFails
<1>4. TypeOk' BY <1>1, <1>3
<1>5. InFlight' BY <1>1, <1>2, <1>3 DEF InFlight, Switching
<1>6. StatusMatchesServer' /\ BoundPortIsRecorded'
  BY <1>1, <1>3 DEF StatusMatchesServer, BoundPortIsRecorded
<1>7. OneSwitchPerProject' BY <1>1 DEF OneSwitchPerProject, Switching
<1>8. NobodyStuckHalfway' BY <1>1, <1>3 DEF NobodyStuckHalfway
<1> QED BY <1>4, <1>5, <1>6, <1>7, <1>8

\* stop up to its await.
LEMMA StopInv ==
  ASSUME IInv, NEW r \in Request, NEW p \in Project, StopAccept(r, p)
  PROVE  IInv'
<1> USE DEF IInv, TypeOk, Suspend, SetStatus, records, Status, Pc, StopAccept
<1>1. \A s \in Request : pc[s] \in Switching => target[s] # p
  BY DEF InFlight, Switching
<1>2. TypeOk' OBVIOUS
<1>3. InFlight' BY <1>1 DEF InFlight, Switching
<1>4. StatusMatchesServer' /\ BoundPortIsRecorded'
  BY DEF StatusMatchesServer, BoundPortIsRecorded
<1>5. OneSwitchPerProject' BY <1>1 DEF OneSwitchPerProject, Switching
<1>6. NobodyStuckHalfway' BY <1>1 DEF NobodyStuckHalfway
<1> QED BY <1>2, <1>3, <1>4, <1>5, <1>6

\* The end of stopServer, with or without an error.
LEMMA CloseInv ==
  ASSUME IInv, NEW r \in Request, CloseEnds(r) \/ CloseFails(r)
  PROVE  IInv'
<1> DEFINE p == target[r]
<1> USE DEF IInv, TypeOk, Suspend, Answer, SetStatus, records, Status, Pc
<1>1. /\ pc[r] = "closing" /\ p \in Project /\ status[p] = "CLOSING"
      /\ pc' = [pc EXCEPT ![r] = "idle"]
      /\ target' = [target EXCEPT ![r] = NoProject]
      /\ UNCHANGED <<live, port, server, bound>>
  BY DEF CloseEnds, CloseFails, InFlight
<1>2. \A s \in Request \ {r} : pc[s] \in Switching => target[s] # p
  BY <1>1 DEF OneSwitchPerProject, Switching
<1>3. bound[p] = NoPort
  BY <1>1 DEF StatusMatchesServer
<1>4. status' = [status EXCEPT ![p] = "STOPPED"]
  BY <1>3 DEF CloseEnds, CloseFails
<1>5. TypeOk' BY <1>1, <1>4
<1>6. InFlight' BY <1>1, <1>2, <1>4 DEF InFlight, Switching
<1>7. StatusMatchesServer' /\ BoundPortIsRecorded'
  BY <1>1, <1>3, <1>4 DEF StatusMatchesServer, BoundPortIsRecorded
<1>8. OneSwitchPerProject' BY <1>1 DEF OneSwitchPerProject, Switching
<1>9. NobodyStuckHalfway' BY <1>1, <1>4 DEF NobodyStuckHalfway
<1> QED BY <1>5, <1>6, <1>7, <1>8, <1>9

\* delete touches no status and no server.
LEMMA DeleteInv ==
  ASSUME IInv, NEW r \in Request, NEW p \in Project,
         DeleteAccept(r, p) \/ DeleteDone(r) \/ DeleteFails(r)
  PROVE  IInv'
<1> USE DEF IInv, TypeOk, Suspend, Answer, records, servers, Pc,
            DeleteAccept, DeleteDone, DeleteFails
<1>1. /\ pc[r] \notin Switching
      /\ \/ pc' = [pc EXCEPT ![r] = "idle"] /\ target' = [target EXCEPT ![r] = NoProject]
         \/ pc' = [pc EXCEPT ![r] = "deleting"] /\ target' = [target EXCEPT ![r] = p]
      /\ live' \subseteq live
      /\ UNCHANGED <<port, servers>>
  BY DEF Switching
<1>2. TypeOk' BY <1>1
<1>3. InFlight' BY <1>1 DEF InFlight
<1>4. StatusMatchesServer' /\ BoundPortIsRecorded'
  BY <1>1 DEF StatusMatchesServer, BoundPortIsRecorded
<1>5. OneSwitchPerProject' BY <1>1 DEF OneSwitchPerProject, Switching
<1>6. NobodyStuckHalfway' BY <1>1 DEF NobodyStuckHalfway, Switching
<1> QED BY <1>2, <1>3, <1>4, <1>5, <1>6

\* A step of either build: the desktop build only registers its server earlier.
BuildNext == Next \/ \E r \in Request : IpcRouterReady(r)

LEMMA BuildStep == [HostNext]_hostVars => [BuildNext]_vars
<1>1. HostNext => BuildNext
  <2>1. IpcEdit => Edit
    BY DEF IpcEdit, Edit, IpcCreateProject, IpcUpdateProject
  <2>2. ASSUME NEW r \in Request, IpcAccept(r) PROVE Accept(r)
    BY <2>2 DEF IpcAccept, Accept, IpcStartFirst, IpcStartAgain, IpcStopAccept,
                IpcDeleteAccept
  <2>3. ASSUME NEW r \in Request, IpcResume(r) PROVE IpcRouterReady(r) \/ Resume(r)
    BY <2>3 DEF IpcResume, Resume, IpcRouterFails, IpcListenSucceeds, IpcListenFails,
                IpcCloseEnds, IpcCloseFails, IpcDeleteDone, IpcDeleteFails
  <2>4. IpcNext => BuildNext
    BY <2>1, <2>2, <2>3 DEF IpcNext, BuildNext, Next
  <2> QED BY <2>4 DEF HostNext, BuildNext
<1> QED BY <1>1 DEF hostVars

LEMMA NextInv == IInv /\ [BuildNext]_vars => IInv'
<1> SUFFICES ASSUME IInv, [BuildNext]_vars PROVE IInv'
  OBVIOUS
<1>1. CASE Edit
  BY <1>1, EditInv
<1>2. CASE \E r \in Request : Accept(r)
  <2>1. PICK r \in Request, p \in Project :
           StartFirst(r, p) \/ StartAgain(r, p) \/ StopAccept(r, p) \/ DeleteAccept(r, p)
    BY <1>2 DEF Accept
  <2> QED BY <2>1, StartInv, StopInv, DeleteInv
<1>3. CASE \E r \in Request : Resume(r) \/ IpcRouterReady(r)
  <2>1. PICK r \in Request : Resume(r) \/ IpcRouterReady(r)
    BY <1>3
  <2>2. target[r] \in Project
    BY <2>1 DEF IInv, InFlight, TypeOk, Pc, Resume, RouterReady, IpcRouterReady, RouterFails,
                ListenSucceeds, ListenFails, CloseEnds, CloseFails, DeleteDone, DeleteFails
  <2> QED BY <2>1, <2>2, RouterInv, ListenInv, CloseInv, DeleteInv DEF Resume
<1>4. CASE UNCHANGED vars
  BY <1>4 DEF IInv, TypeOk, InFlight, StatusMatchesServer, BoundPortIsRecorded,
              OneSwitchPerProject, NobodyStuckHalfway, vars
<1> QED BY <1>1, <1>2, <1>3, <1>4 DEF BuildNext, Next

-----------------------------------------------------------------------------
(* Theorems.                                                                *)

\* IInv holds in every reachable state of every instance.
THEOREM Invariant == HostSpec => []IInv
<1>1. HostInit => IInv
  BY InitInv DEF HostInit
<1>2. IInv /\ [HostNext]_hostVars => IInv'
  BY NextInv, BuildStep
<1> QED BY <1>1, <1>2, PTL DEF HostSpec

\* The state of projectController.ts and projectStatusManage.ts keeps its
\* types.
THEOREM TypeCorrect == HostSpec => []TypeOk
  BY Invariant, PTL DEF IInv

\* The status map and the real servers never disagree: a server listens only
\* in STARTING or STARTED, and STARTED means it listens and can be stopped.
THEOREM StatusIsTruthful == HostSpec => []StatusMatchesServer
  BY Invariant, PTL DEF IInv

\* Port edits cannot slip under a server that is being started or runs.
THEOREM BoundPortIsTheRecordedOne == HostSpec => []BoundPortIsRecorded
  BY Invariant, PTL DEF IInv

\* No two start or stop handlers work on the same project.
THEOREM SwitchesAreExclusive == HostSpec => []OneSwitchPerProject
  BY Invariant, PTL DEF IInv

\* CLOSING always has the handler that ends it, and a bound server the one
\* that announces it.
THEOREM NoHalfwayStateIsAbandoned == HostSpec => []NobodyStuckHalfway
  BY Invariant, PTL DEF IInv

-----------------------------------------------------------------------------
(* Refinement: the handlers implement ListenerControl.                      *)

\* Every step of a handler is one of ListenerControl's, or none.
LEMMA StepRefines ==
  IInv /\ [BuildNext]_vars => [Control!Next]_(Control!vars)
<1> SUFFICES ASSUME IInv, [BuildNext]_vars, ~UNCHANGED <<status, bound>>
             PROVE  Control!Next
  BY DEF Control!vars
<1> USE DEF IInv, TypeOk, Suspend, Answer, SetStatus, records, Status, Pc,
            Control!Enter
<1>1. PICK r \in Request, p \in Project :
         \/ StartFirst(r, p) \/ StartAgain(r, p) \/ StopAccept(r, p)
         \/ p = target[r] /\ (RouterReady(r) \/ IpcRouterReady(r))
         \/ p = target[r] /\ ListenSucceeds(r)
         \/ p = target[r] /\ (CloseEnds(r) \/ CloseFails(r))
  <2>1. CASE Edit
    BY <2>1 DEF Edit, CreateProject, UpdatePort, servers
  <2>2. CASE \E r \in Request : Accept(r)
    BY <2>2 DEF Accept, DeleteAccept, servers
  <2>3. CASE \E r \in Request : Resume(r) \/ IpcRouterReady(r)
    <3>1. PICK r \in Request : Resume(r) \/ IpcRouterReady(r)
      BY <2>3
    <3>2. target[r] \in Project
      BY <3>1 DEF InFlight, Resume, RouterReady, IpcRouterReady, RouterFails,
                  ListenSucceeds, ListenFails, CloseEnds, CloseFails, DeleteDone, DeleteFails
    <3> QED BY <3>1, <3>2 DEF Resume, RouterFails, ListenFails, DeleteDone, DeleteFails, servers
  <2>4. CASE UNCHANGED vars
    BY <2>4 DEF vars
  <2> QED BY <2>1, <2>2, <2>3, <2>4 DEF BuildNext, Next
<1> DEFINE serving == {q \in Project : bound[q] # NoPort}
<1>2. CASE StartFirst(r, p)
  <2>1. Control!Begin(p)
    BY <1>2 DEF StartFirst, CanStart, Control!Begin
  <2> QED BY <2>1 DEF Control!Next
<1>3. CASE StartAgain(r, p)
  <2>1. status[p] = "STOPPED" /\ status' = [status EXCEPT ![p] = "STARTING"]
    BY <1>3 DEF StartAgain, CanStart
  <2>2. bound' = [bound EXCEPT ![p] = port[p]] \/ bound' = bound
    BY <1>3 DEF StartAgain, Listen, ListenThrows
  <2>3. bound[p] = NoPort
    BY <2>1 DEF StatusMatchesServer
  <2>4. serving' = serving \/ serving' = serving \cup {p}
    BY <2>2, <2>3
  <2>5. Control!Begin(p)
    BY <2>1, <2>4 DEF Control!Begin
  <2> QED BY <2>5 DEF Control!Next
<1>4. CASE p = target[r] /\ (RouterReady(r) \/ IpcRouterReady(r))
  <2>1. status[p] = "STARTING" /\ UNCHANGED status
    BY <1>4 DEF RouterReady, IpcRouterReady, InFlight
  <2>2. bound' = [bound EXCEPT ![p] = port[p]] \/ bound' = bound
    BY <1>4 DEF RouterReady, IpcRouterReady, Listen, ListenThrows
  <2>3. bound[p] = NoPort
    BY <1>4, <2>1 DEF NobodyStuckHalfway, OneSwitchPerProject, Switching, RouterReady,
                      IpcRouterReady
  <2>4. serving' = serving \cup {p}
    BY <2>1, <2>2, <2>3
  <2>5. Control!Bind(p)
    BY <2>1, <2>4 DEF Control!Bind
  <2> QED BY <2>5 DEF Control!Next
<1>5. CASE StopAccept(r, p)
  <2>1. Control!Shut(p)
    BY <1>5 DEF StopAccept, Control!Shut
  <2> QED BY <2>1 DEF Control!Next
<1>6. CASE p = target[r] /\ ListenSucceeds(r)
  <2>1. Control!Announce(p)
    BY <1>6 DEF ListenSucceeds, InFlight, Control!Announce
  <2> QED BY <2>1 DEF Control!Next
<1>7. CASE p = target[r] /\ (CloseEnds(r) \/ CloseFails(r))
  <2>1. Control!End(p)
    BY <1>7 DEF CloseEnds, CloseFails, InFlight, StatusMatchesServer, Control!End
  <2> QED BY <2>1 DEF Control!Next
<1> QED BY <1>1, <1>2, <1>3, <1>4, <1>5, <1>6, <1>7

\* The handlers implement the order of phases that the dashboard relies on:
\* the safety part of the refinement ControlSpec.
THEOREM ImplementsListenerControl == HostSpec => ControlSafety
<1>1. HostInit => Control!Init
  BY DEF HostInit, Init, Control!Init
<1>2. IInv /\ [HostNext]_hostVars => [Control!Next]_(Control!vars)
  BY BuildStep, StepRefines
<1> QED BY <1>1, <1>2, Invariant, PTL DEF HostSpec, ControlSafety, Control!Safety
-----------------------------------------------------------------------------
(* The app bar.                                                            *)

Row == [id : Project, status : Status, port : Port \cup {NoPort}]

Handled == {"start", "stop", "delete"}
Stages == {"none", "sent", "handling", "answered", "refused"}
Locks == {"create", "save", "delete"}

Slot == [kind  : {"none", "list", "create", "save"} \cup Handled,
         id    : Project \cup {NoProject},
         port  : Port \cup {NoPort},
         stage : Stages,
         lock  : Locks \cup {"none"},
         rows  : SUBSET Row,
         goto  : SUBSET Project,
         clean : BOOLEAN]

SlotsTyped == shown \subseteq Row /\ call \in [Request -> Slot]

\* What an operation asks for is there.
AskedFor(c) ==
    /\ c.kind \notin {"none", "list"} => c.id \in Project
    /\ c.kind \in {"create", "save"} => c.port \in Port
    /\ c.kind = "delete" => c.id \notin Ids(c.rows)

SlotsAsk == \A r \in Request : AskedFor(call[r])

\* A suspended handler works for the call in its slot.
OwnCall ==
    \A r \in Request :
        /\ pc[r] # "idle" => call[r].stage = "handling" /\ call[r].kind \in Handled
        /\ call[r].kind = "none" => call[r].stage = "none"

\* A list on its way to the page is the stored one, or known to be overtaken.
ListsAreFresh ==
    \A r \in Request :
        call[r].kind = "list" /\ call[r].stage = "answered" /\ call[r].clean
            => call[r].rows = Listed

Owes(c) == c.stage \notin {"none", "sent"} \/ c.kind = "list"

\* What the page does not show yet, some call will make it fetch.
RefreshOwed == trusted => shown = Listed \/ \E r \in Request : Owes(call[r])

UrlIsShown == shown # {} => url \in Ids(shown)

ErasedIsGone == erased \cap Ids(shown) = {}

PageInv == RefreshOwed /\ UrlIsShown /\ ErasedIsGone

BarInv ==
    /\ IInv /\ BarTypeOk /\ SlotsTyped
    /\ SlotsAsk /\ OwnCall /\ ListsAreFresh
    /\ PageInv

-----------------------------------------------------------------------------
(* Lemmas.                                                                  *)

\* The bar of the desktop build takes the same steps.
LEMMA BuildsAgree == BarsNext => BarNext
<1>1. IpcUser => User
  BY DEF IpcUser, User, IpcOpenSettings, IpcCloseSettings, IpcAskToConfirm, IpcCancelConfirm,
         IpcSwitchProject, IpcOnToggleServer, IpcOnDeleteProject, IpcOnSaveProjectSettings,
         IpcOnCreateProject, IpcCreateFromWelcome
<1>2. ASSUME NEW r \in Request, IpcServe(r) PROVE Serve(r)
  BY <1>2 DEF IpcServe, Serve, IpcListAnswered
<1>3. ASSUME NEW r \in Request, IpcReceive(r) PROVE Receive(r)
  BY <1>3 DEF IpcReceive, Receive, IpcToggleAnswered, IpcCreateAnswered, IpcSaveAnswered,
              IpcDeleteAnswered, IpcListArrives, IpcFailed
<1> QED BY <1>1, <1>2, <1>3 DEF BarsNext, IpcBarNext, BarNext

LEMMA RowIds == ASSUME NEW rows \in SUBSET Row PROVE Ids(rows) \subseteq Project
  BY DEF Ids, Row

\* The rows that GET /project answers.
LEMMA ListedRows == ASSUME TypeOk PROVE Listed \in SUBSET Row /\ Ids(Listed) = live
<1>1. Listed \in SUBSET Row
  BY DEF TypeOk, Listed, Row
<1>2. \A x \in Listed : x.id \in live
  BY DEF Listed
<1>3. ASSUME NEW p \in live PROVE \E x \in Listed : x.id = p
  <2> DEFINE row == [id |-> p, status |-> status[p], port |-> port[p]]
  <2>1. row \in Listed /\ row.id = p
    BY DEF Listed
  <2> QED BY <2>1
<1>4. Ids(Listed) = live
  BY <1>2, <1>3 DEF Ids
<1> QED BY <1>1, <1>4

LEMMA SameList == UNCHANGED <<live, status, port>> => Listed' = Listed
  BY DEF Listed

LEMMA NoCallIsIdle == NoCall \in Slot /\ AskedFor(NoCall) /\ ~Owes(NoCall)
  BY DEF NoCall, Slot, Handled, Stages, Locks, AskedFor, Owes

LEMMA RefreshIsAsked ==
  ASSUME NEW goto \in SUBSET Project, NEW lock \in Locks \cup {"none"}
  PROVE  /\ Refresh(goto, lock) \in Slot
         /\ Refresh(goto, lock).kind = "list" /\ Refresh(goto, lock).stage = "sent"
  BY NoCallIsIdle DEF Refresh, NoCall, Slot, Stages

LEMMA AskIsAsked ==
  ASSUME NEW kind \in {"create", "save"} \cup Handled, NEW p \in Project,
         NEW n \in Port \cup {NoPort}, kind \in {"create", "save"} => n \in Port,
         NEW lock \in Locks \cup {"none"}, NEW rows \in SUBSET Row, p \notin Ids(rows)
  PROVE  LET c == [Ask(kind, p, n, lock) EXCEPT !.rows = rows]
         IN  c \in Slot /\ AskedFor(c) /\ c.stage = "sent" /\ c.kind = kind
  BY NoCallIsIdle DEF Ask, NoCall, Slot, Stages, Handled, AskedFor

-----------------------------------------------------------------------------
(* What the server does.                                                    *)

\* A turn of a handler: the page stays, the slot moves on with its handler,
\* and a list on its way is marked if the turn changed what it shows.
LEMMA StageInv ==
  ASSUME BarInv, IInv', NEW r \in Request, NEW s \in {"handling", "answered", "refused"},
         Stage(r, s),
         call[r].kind \notin {"none", "list"},
         \A t \in Request \ {r} : pc'[t] = pc[t],
         pc'[r] # "idle" => s = "handling" /\ call[r].kind \in Handled
  PROVE  BarInv'
<1> DEFINE late(t) == [call[t] EXCEPT !.clean =
                         @ /\ (Listed' = Listed \/ call[t].stage = "sent")]
<1>1. /\ call' = [t \in Request |->
                    IF t = r THEN [call[t] EXCEPT !.stage = s] ELSE late(t)]
      /\ UNCHANGED <<bar, erased, trusted>>
  BY DEF Stage
<1>2. UNCHANGED <<shown, url, dialog, draft, busy>>
  BY <1>1 DEF bar
<1> HIDE DEF late
<1>3. call \in [Request -> Slot]
  BY DEF BarInv, SlotsTyped
<1>4. \A t \in Request : /\ late(t) \in Slot
                         /\ late(t).kind = call[t].kind /\ late(t).stage = call[t].stage
                         /\ late(t).id = call[t].id /\ late(t).port = call[t].port
                         /\ late(t).rows = call[t].rows
                         /\ late(t).clean => call[t].clean
                         /\ late(t).clean => Listed' = Listed \/ call[t].stage = "sent"
  <2> SUFFICES ASSUME NEW t \in Request
               PROVE  /\ late(t) \in Slot
                      /\ late(t).kind = call[t].kind /\ late(t).stage = call[t].stage
                      /\ late(t).id = call[t].id /\ late(t).port = call[t].port
                      /\ late(t).rows = call[t].rows
                      /\ late(t).clean => call[t].clean
                      /\ late(t).clean => Listed' = Listed \/ call[t].stage = "sent"
    OBVIOUS
  <2> DEFINE still == call[t].clean /\ (Listed' = Listed \/ call[t].stage = "sent")
  <2>1. late(t) = [call[t] EXCEPT !.clean = still]
    BY DEF late
  <2>2. still \in BOOLEAN
    OBVIOUS
  <2>3. call[t] \in Slot
    BY <1>3
  <2>4. still => call[t].clean /\ (Listed' = Listed \/ call[t].stage = "sent")
    OBVIOUS
  <2> HIDE DEF still
  <2>5. /\ late(t) \in Slot
        /\ late(t).kind = call[t].kind /\ late(t).stage = call[t].stage
        /\ late(t).id = call[t].id /\ late(t).port = call[t].port
        /\ late(t).rows = call[t].rows
        /\ late(t).clean = still
    BY <2>1, <2>2, <2>3 DEF Slot
  <2> QED BY <2>4, <2>5
<1> DEFINE moved == [call[r] EXCEPT !.stage = s]
<1>5. /\ moved \in Slot /\ moved.stage = s
      /\ moved.kind = call[r].kind /\ moved.id = call[r].id
      /\ moved.port = call[r].port /\ moved.rows = call[r].rows
  BY <1>3 DEF Slot, Stages
<1>6. /\ call'[r] = moved
      /\ \A t \in Request \ {r} : call'[t] = late(t)
      /\ call' \in [Request -> Slot]
  BY <1>1, <1>4, <1>5
<1> HIDE DEF moved
<1>7. BarTypeOk' /\ SlotsTyped'
  BY <1>1, <1>2, <1>6 DEF BarInv, BarTypeOk, SlotsTyped, Ids, Slot, Stages
<1>8. SlotsAsk'
  BY <1>4, <1>5, <1>6 DEF BarInv, SlotsAsk, AskedFor, Ids
<1>9. OwnCall'
  BY <1>4, <1>5, <1>6 DEF BarInv, OwnCall
<1>10. ListsAreFresh'
  <2> SUFFICES ASSUME NEW t \in Request, call'[t].kind = "list",
                      call'[t].stage = "answered", call'[t].clean
               PROVE  call'[t].rows = Listed'
    BY DEF ListsAreFresh
  <2>1. t # r
    BY <1>5, <1>6
  <2> QED BY <2>1, <1>4, <1>6 DEF BarInv, ListsAreFresh
<1>11. RefreshOwed'
  BY <1>5, <1>6 DEF RefreshOwed, Owes
<1>12. UrlIsShown' /\ ErasedIsGone'
  BY <1>1, <1>2 DEF BarInv, PageInv, UrlIsShown, ErasedIsGone, Ids
<1> QED BY <1>7, <1>8, <1>9, <1>10, <1>11, <1>12 DEF BarInv, PageInv

\* Every turn of a handler is one of the lifecycle's: only its own request
\* moves.
LEMMA OneHandlerMoves ==
  ASSUME TypeOk, NEW r \in Request, NEW p \in Project,
         \/ StartFirst(r, p) \/ StartAgain(r, p) \/ StopAccept(r, p) \/ DeleteAccept(r, p)
         \/ IpcRouterReady(r) \/ Resume(r)
  PROVE  pc' \in [Request -> Pc] /\ \A t \in Request \ {r} : pc'[t] = pc[t]
<1>1. \E at \in Pc : pc' = [pc EXCEPT ![r] = at]
  BY DEF StartFirst, StartAgain, StopAccept, DeleteAccept, IpcRouterReady, Resume, RouterReady,
         RouterFails, ListenSucceeds, ListenFails, CloseEnds, CloseFails, DeleteDone,
         DeleteFails, Listen, ListenThrows, Suspend, Answer, Pc
<1> QED BY <1>1 DEF TypeOk

\* The answer to GET /project: what is stored now.
LEMMA ListAnsweredInv == ASSUME BarInv, NEW r \in Request, ListAnswered(r) PROVE BarInv'
<1> DEFINE answered == [call[r] EXCEPT !.stage = "answered", !.rows = Listed]
<1>1. /\ call[r].kind = "list" /\ call[r].stage = "sent"
      /\ call' = [call EXCEPT ![r] = answered]
      /\ UNCHANGED <<hostVars, bar, erased, trusted>>
  BY DEF ListAnswered
<1>2. UNCHANGED <<live, port, status, server, bound, pc, target, shown, url, dialog, draft, busy>>
  BY <1>1 DEF hostVars, vars, bar
<1>3. call \in [Request -> Slot] /\ Listed \in SUBSET Row
  BY ListedRows DEF BarInv, IInv, SlotsTyped
<1>4. /\ answered \in Slot /\ answered.kind = "list"
      /\ answered.stage = "answered" /\ answered.rows = Listed
  BY <1>1, <1>3 DEF Slot, Stages
<1> HIDE DEF answered
<1>5. /\ call'[r] = answered
      /\ \A t \in Request \ {r} : call'[t] = call[t]
      /\ call' \in [Request -> Slot]
  BY <1>1, <1>3, <1>4
<1>6. Listed' = Listed
  BY <1>2, SameList
<1>7. IInv'
  BY <1>2, NextInv DEF BarInv, vars
<1>8. BarTypeOk' /\ SlotsTyped'
  BY <1>1, <1>2, <1>5 DEF BarInv, BarTypeOk, SlotsTyped, Ids, Slot, Stages
<1>9. SlotsAsk'
  BY <1>4, <1>5 DEF BarInv, SlotsAsk, AskedFor, Ids
<1>10. OwnCall'
  BY <1>1, <1>2, <1>4, <1>5 DEF BarInv, OwnCall
<1>11. ListsAreFresh'
  BY <1>4, <1>5, <1>6 DEF BarInv, ListsAreFresh
<1>12. RefreshOwed'
  BY <1>4, <1>5 DEF RefreshOwed, Owes
<1>13. UrlIsShown' /\ ErasedIsGone'
  BY <1>1, <1>2 DEF BarInv, PageInv, UrlIsShown, ErasedIsGone, Ids
<1> QED BY <1>7, <1>8, <1>9, <1>10, <1>11, <1>12, <1>13 DEF BarInv, PageInv

\* Every turn of the server is a turn of the slot's own handler, or an answer.
LEMMA ServeInv == ASSUME BarInv, NEW r \in Request, Serve(r) PROVE BarInv'
<1> DEFINE p == call[r].id
<1>1. TypeOk /\ call[r] \in Slot /\ AskedFor(call[r])
  BY DEF BarInv, IInv, SlotsTyped, SlotsAsk
<1>2. pc[r] # "idle" => call[r].stage = "handling" /\ call[r].kind \in Handled
  BY DEF BarInv, OwnCall
<1>3. target[r] \in Project \/ pc[r] = "idle"
  BY DEF BarInv, IInv, InFlight
<1>4. CASE Begin(r)
  <2>1. /\ call[r].stage = "sent" /\ call[r].kind \in Handled
        /\ StartFirst(r, p) \/ StartAgain(r, p) \/ StopAccept(r, p) \/ DeleteAccept(r, p)
        /\ Stage(r, IF pc'[r] = "idle" THEN "refused" ELSE "handling")
    BY <1>4 DEF Begin, Handled
  <2>2. p \in Project
    BY <1>1, <2>1 DEF AskedFor, Handled
  <2>3. Accept(r)
    BY <2>1, <2>2 DEF Accept
  <2>4. IInv'
    BY <2>3, NextInv DEF BarInv, BuildNext, Next
  <2>5. \A t \in Request \ {r} : pc'[t] = pc[t]
    BY <1>1, <2>1, <2>2, OneHandlerMoves
  <2> QED BY <2>1, <2>4, <2>5, StageInv DEF Handled
<1>5. CASE Edited(r)
  <2>1. /\ call[r].stage = "sent" /\ call[r].kind \in {"create", "save"}
        /\ \/ CreateProject(p, call[r].port) \/ UpdatePort(p, call[r].port)
           \/ UNCHANGED vars
        /\ Stage(r, "answered")
    BY <1>5 DEF Edited
  <2>2. p \in Project /\ call[r].port \in Port
    BY <1>1, <2>1 DEF AskedFor
  <2>3. Edit \/ UNCHANGED vars
    BY <2>1, <2>2 DEF Edit
  <2>4. IInv'
    BY <2>3, NextInv DEF BarInv, BuildNext, Next
  <2>5. pc' = pc
    BY <2>1 DEF CreateProject, UpdatePort, handlers, vars
  <2> QED BY <1>2, <2>1, <2>4, <2>5, StageInv
<1>6. CASE Refused(r)
  <2>1. /\ call[r].stage = "sent" /\ call[r].kind \notin {"none", "list"}
        /\ UNCHANGED vars /\ Stage(r, "refused")
    BY <1>6 DEF Refused
  <2>2. IInv' /\ pc' = pc
    BY <2>1, NextInv DEF BarInv, vars
  <2> QED BY <1>2, <2>1, <2>2, StageInv
<1>7. CASE Routed(r) \/ Done(r) \/ NotDone(r)
  <2>1. IpcRouterReady(r) \/ Resume(r)
    BY <1>7 DEF Routed, Done, NotDone, Resume
  <2>2. pc[r] # "idle"
    BY <2>1 DEF IpcRouterReady, Resume, RouterReady, RouterFails, ListenSucceeds, ListenFails,
                CloseEnds, CloseFails, DeleteDone, DeleteFails
  <2>3. target[r] \in Project /\ call[r].kind \in Handled
    BY <1>2, <1>3, <2>2
  <2>4. IInv'
    BY <2>1, NextInv DEF BarInv, BuildNext, Next
  <2>5. \A t \in Request \ {r} : pc'[t] = pc[t]
    BY <1>1, <2>1, <2>3, OneHandlerMoves
  <2>6. \/ Stage(r, IF pc'[r] = "idle" THEN "refused" ELSE "handling")
        \/ pc'[r] = "idle" /\ \E s \in {"answered", "refused"} : Stage(r, s)
    BY <1>1, <1>7 DEF Routed, Done, NotDone, ListenSucceeds, ListenFails, CloseEnds, CloseFails,
                      DeleteDone, DeleteFails, Answer, Suspend, TypeOk
  <2> QED BY <2>3, <2>4, <2>5, <2>6, StageInv DEF Handled
<1>8. CASE ListAnswered(r)
  BY <1>8, ListAnsweredInv
<1> QED BY <1>4, <1>5, <1>6, <1>7, <1>8 DEF Serve

-----------------------------------------------------------------------------
(* What the answers do to the page.                                         *)

\* Show, whichever lock it releases and whether or not a dialog closes.
Shows(r, rows, next) ==
    /\ shown' = rows
    /\ busy' \subseteq busy
    /\ (dialog' = "none" /\ draft' = NoPort) \/ UNCHANGED <<dialog, draft>>
    /\ call' = [t \in Request |->
                  IF t = r THEN next
                  ELSE IF Remounted(rows) THEN [call[t] EXCEPT !.lock = "none"] ELSE call[t]]
    /\ UNCHANGED hostVars

\* The slot is free, or fetches the list.
Released(c) == c = NoCall \/ (c.kind = "list" /\ c.stage = "sent")

\* The part that every answer has in common: the slot is released, and the
\* others go on.
LEMMA ShowInv ==
  ASSUME BarInv, NEW r \in Request, NEW rows \in SUBSET Row, NEW next \in Slot,
         Shows(r, rows, next),
         call[r].stage \in {"answered", "refused"},
         Released(next),
         url' \in Project, erased' \subseteq Project, trusted' \in BOOLEAN
  PROVE  /\ IInv' /\ BarTypeOk' /\ SlotsTyped' /\ SlotsAsk' /\ OwnCall' /\ ListsAreFresh'
         /\ Listed' = Listed /\ shown' = rows
         /\ call'[r] = next
         /\ \A t \in Request \ {r} : Owes(call[t]) => Owes(call'[t])
<1> DEFINE other(t) == IF Remounted(rows) THEN [call[t] EXCEPT !.lock = "none"] ELSE call[t]
<1>1. /\ call' = [t \in Request |-> IF t = r THEN next ELSE other(t)]
      /\ shown' = rows
      /\ busy' \subseteq busy
      /\ (dialog' = "none" /\ draft' = NoPort) \/ UNCHANGED <<dialog, draft>>
      /\ UNCHANGED hostVars
  BY DEF Shows
<1> HIDE DEF other
<1>2. UNCHANGED <<live, port, status, server, bound, pc, target>>
  BY <1>1 DEF hostVars, vars
<1>3. call \in [Request -> Slot]
  BY DEF BarInv, SlotsTyped
<1>4. \A t \in Request : /\ other(t) \in Slot
                         /\ other(t).kind = call[t].kind /\ other(t).stage = call[t].stage
                         /\ other(t).id = call[t].id /\ other(t).port = call[t].port
                         /\ other(t).rows = call[t].rows /\ other(t).clean = call[t].clean
  BY <1>3 DEF Slot, other
<1>5. /\ call'[r] = next
      /\ \A t \in Request \ {r} : call'[t] = other(t)
      /\ call' \in [Request -> Slot]
  BY <1>1, <1>4
<1>6. Listed' = Listed
  BY <1>2, SameList
<1>7. IInv'
  BY <1>2, NextInv DEF BarInv, vars
<1>8. Ids(rows) \subseteq Project
  BY RowIds
<1>9. Ids(shown') \subseteq Project
  BY <1>1, <1>8
<1>10. BarTypeOk'
  BY <1>1, <1>5, <1>9 DEF BarInv, BarTypeOk, Ids, Slot, Stages
<1>11. SlotsTyped'
  BY <1>1, <1>5 DEF SlotsTyped
<1>12. AskedFor(next)
  BY NoCallIsIdle DEF AskedFor, Released
<1>13. SlotsAsk'
  BY <1>4, <1>5, <1>12 DEF BarInv, SlotsAsk, AskedFor, Ids
<1>14. pc[r] = "idle"
  BY DEF BarInv, OwnCall
<1>15. OwnCall'
  BY <1>2, <1>4, <1>5, <1>14 DEF BarInv, OwnCall, NoCall, Released
<1>16. ListsAreFresh'
  BY <1>4, <1>5, <1>6 DEF BarInv, ListsAreFresh, NoCall, Released
<1>17. \A t \in Request \ {r} : Owes(call[t]) => Owes(call'[t])
  BY <1>4, <1>5 DEF Owes
<1> QED BY <1>1, <1>5, <1>6, <1>7, <1>10, <1>11, <1>13, <1>15, <1>16, <1>17

\* An operation was done: its slot now fetches the list.
LEMMA AnsweredInv ==
  ASSUME BarInv, NEW r \in Request,
         ToggleAnswered(r) \/ CreateAnswered(r) \/ SaveAnswered(r)
  PROVE  BarInv'
<1>1. /\ call[r] \in Slot /\ AskedFor(call[r])
      /\ shown \in SUBSET Row
      /\ url \in Project /\ erased \subseteq Project /\ trusted \in BOOLEAN
  BY DEF BarInv, SlotsTyped, SlotsAsk, BarTypeOk
<1>2. UNCHANGED <<url, erased, trusted>>
  BY DEF ToggleAnswered, CreateAnswered, SaveAnswered
<1>3. PICK goto \in SUBSET Project, lock \in Locks \cup {"none"} :
         call[r].stage = "answered" /\ Shows(r, shown, Refresh(goto, lock))
  <2>1. CASE ToggleAnswered(r)
    <3>1. call[r].stage = "answered" /\ Shows(r, shown, Refresh({}, "none"))
      BY <2>1 DEF ToggleAnswered, AfterToggle, Received, Show, Shows
    <3> QED BY <3>1
  <2>2. CASE CreateAnswered(r)
    <3>1. {call[r].id} \in SUBSET Project /\ call[r].lock \in Locks \cup {"none"}
      BY <1>1, <2>2 DEF CreateAnswered, Received, AskedFor, Slot
    <3>2. call[r].stage = "answered" /\ Shows(r, shown, Refresh({call[r].id}, call[r].lock))
      BY <2>2 DEF CreateAnswered, Received, Show, Shows
    <3> QED BY <3>1, <3>2
  <2>3. CASE SaveAnswered(r)
    <3>1. call[r].stage = "answered" /\ Shows(r, shown, Refresh({}, "none"))
      BY <2>3 DEF SaveAnswered, Received, Show, Shows
    <3> QED BY <3>1
  <2> QED BY <2>1, <2>2, <2>3
<1> DEFINE next == Refresh(goto, lock)
<1>4. next \in Slot /\ next.kind = "list" /\ next.stage = "sent"
  BY RefreshIsAsked
<1>5. Shows(r, shown, next)
  BY <1>3
<1> HIDE DEF next
<1>6. /\ IInv' /\ BarTypeOk' /\ SlotsTyped' /\ SlotsAsk' /\ OwnCall' /\ ListsAreFresh'
      /\ shown' = shown /\ call'[r] = next
  BY <1>1, <1>2, <1>3, <1>4, <1>5, ShowInv DEF Released
<1>7. RefreshOwed'
  BY <1>4, <1>6 DEF RefreshOwed, Owes
<1>8. UrlIsShown' /\ ErasedIsGone'
  BY <1>2, <1>6 DEF BarInv, PageInv, UrlIsShown, ErasedIsGone, Ids
<1> QED BY <1>6, <1>7, <1>8 DEF BarInv, PageInv

\* A delete shows the rows it remembers, and counts its project as gone.
LEMMA DeleteAnsweredInv == ASSUME BarInv, NEW r \in Request, DeleteAnswered(r) PROVE BarInv'
<1> DEFINE c == call[r]
           next == Refresh(IF c.rows = {} THEN Project ELSE {}, "none")
<1>1. /\ c \in Slot /\ c.rows \in SUBSET Row
      /\ url \in Project /\ erased \subseteq Project /\ trusted \in BOOLEAN
  BY DEF BarInv, SlotsTyped, BarTypeOk, Slot
<1>2. c.kind = "delete" /\ c.stage = "answered" /\ Shows(r, c.rows, next)
  BY DEF DeleteAnswered, Received, Remaining, Show, Shows
<1>3. /\ url' \in IF c.rows = {} THEN {url} ELSE Ids(c.rows)
      /\ erased' = (erased \cup {c.id}) \ Ids(c.rows)
      /\ UNCHANGED trusted
  BY DEF DeleteAnswered, Remaining
<1>5. next \in Slot /\ next.kind = "list" /\ next.stage = "sent"
  BY RefreshIsAsked
<1> HIDE DEF next
<1>6. c.id \in Project /\ Ids(c.rows) \subseteq Project
  BY <1>1, <1>2, RowIds DEF BarInv, SlotsAsk, AskedFor
<1>7. url' \in Project /\ erased' \subseteq Project /\ trusted' \in BOOLEAN
  BY <1>1, <1>3, <1>6
<1>8. /\ IInv' /\ BarTypeOk' /\ SlotsTyped' /\ SlotsAsk' /\ OwnCall' /\ ListsAreFresh'
      /\ shown' = c.rows /\ call'[r] = next
  BY <1>1, <1>2, <1>5, <1>7, ShowInv DEF Released
<1>9. RefreshOwed'
  BY <1>5, <1>8 DEF RefreshOwed, Owes
<1>10. Ids(shown') = Ids(c.rows)
  BY <1>8
<1>11. UrlIsShown'
  BY <1>3, <1>8, <1>10 DEF UrlIsShown, Ids
<1>12. ErasedIsGone'
  BY <1>3, <1>10 DEF ErasedIsGone, Ids
<1> QED BY <1>8, <1>9, <1>11, <1>12 DEF BarInv, PageInv

\* A list is shown as it is.
LEMMA ListArrivesInv == ASSUME BarInv, NEW r \in Request, ListArrives(r) PROVE BarInv'
<1> DEFINE c == call[r]
           goal == c.goto \cap Ids(c.rows)
<1>1. /\ c \in Slot /\ c.rows \in SUBSET Row /\ c.clean \in BOOLEAN
      /\ url \in Project /\ erased \subseteq Project
  BY DEF BarInv, SlotsTyped, BarTypeOk, Slot
<1>2. c.kind = "list" /\ c.stage = "answered" /\ Shows(r, c.rows, NoCall)
  BY DEF ListArrives, Received, Show, Shows
<1>3. /\ url' \in IF goal # {} THEN goal ELSE Redirected(c.rows, url)
      /\ erased' = erased \ Ids(c.rows)
      /\ trusted' = c.clean
  BY DEF ListArrives
<1>4. Ids(c.rows) \subseteq Project
  BY <1>1, RowIds
<1>5. url' \in Project /\ (c.rows # {} => url' \in Ids(c.rows))
  BY <1>1, <1>3, <1>4 DEF Redirected
<1>6. erased' \subseteq Project /\ trusted' \in BOOLEAN
  BY <1>1, <1>3
<1>7. /\ IInv' /\ BarTypeOk' /\ SlotsTyped' /\ SlotsAsk' /\ OwnCall' /\ ListsAreFresh'
      /\ Listed' = Listed /\ shown' = c.rows
  <2>1. NoCall \in Slot /\ Released(NoCall)
    BY NoCallIsIdle DEF Released
  <2> QED BY <1>1, <1>2, <1>5, <1>6, <2>1, ShowInv
<1>8. RefreshOwed'
  BY <1>2, <1>3, <1>7 DEF BarInv, ListsAreFresh, RefreshOwed
<1>9. Ids(shown') = Ids(c.rows)
  BY <1>7
<1>10. UrlIsShown'
  BY <1>5, <1>7, <1>9 DEF UrlIsShown, Ids
<1>11. ErasedIsGone'
  BY <1>3, <1>9 DEF ErasedIsGone, Ids
<1> QED BY <1>7, <1>8, <1>10, <1>11 DEF BarInv, PageInv

\* A call failed: the page is no longer trusted to be up to date.
LEMMA FailedInv == ASSUME BarInv, NEW r \in Request, Failed(r) PROVE BarInv'
<1>1. /\ call[r] \in Slot /\ shown \in SUBSET Row
      /\ url \in Project /\ erased \subseteq Project
  BY DEF BarInv, SlotsTyped, BarTypeOk
<1>2. /\ call[r].stage = "refused" /\ Shows(r, shown, NoCall)
      /\ trusted' = FALSE /\ UNCHANGED <<url, erased>>
  BY DEF Failed, Show, Shows
<1>3. /\ IInv' /\ BarTypeOk' /\ SlotsTyped' /\ SlotsAsk' /\ OwnCall' /\ ListsAreFresh'
      /\ shown' = shown
  <2>1. NoCall \in Slot /\ Released(NoCall) /\ trusted' \in BOOLEAN
    BY <1>2, NoCallIsIdle DEF Released
  <2>2. url' \in Project /\ erased' \subseteq Project
    BY <1>1, <1>2
  <2> QED BY <1>1, <1>2, <2>1, <2>2, ShowInv
<1>4. RefreshOwed'
  BY <1>2 DEF RefreshOwed
<1>5. UrlIsShown' /\ ErasedIsGone'
  BY <1>2, <1>3 DEF BarInv, PageInv, UrlIsShown, ErasedIsGone, Ids
<1> QED BY <1>3, <1>4, <1>5 DEF BarInv, PageInv

LEMMA LostInv == ASSUME BarInv, NEW r \in Request, Lost(r) PROVE BarInv'
<1>1. /\ call' = [call EXCEPT ![r] = NoCall]
      /\ call[r].stage \in {"sent", "answered"}
      /\ busy' \subseteq busy /\ trusted' = FALSE
      /\ UNCHANGED <<hostVars, shown, url, dialog, draft, erased>>
  BY DEF Lost
<1>2. UNCHANGED <<live, port, status, server, bound, pc, target>>
  BY <1>1 DEF hostVars, vars
<1>3. call \in [Request -> Slot]
  BY DEF BarInv, SlotsTyped
<1>4. /\ call'[r] = NoCall
      /\ \A t \in Request \ {r} : call'[t] = call[t]
      /\ call' \in [Request -> Slot]
  BY <1>1, <1>3, NoCallIsIdle
<1>5. Listed' = Listed
  BY <1>2, SameList
<1>6. IInv'
  BY <1>2, NextInv DEF BarInv, vars
<1>7. BarTypeOk' /\ SlotsTyped'
  BY <1>1, <1>4 DEF BarInv, BarTypeOk, SlotsTyped, Ids, Slot, Stages
<1>8. SlotsAsk'
  BY <1>4, NoCallIsIdle DEF BarInv, SlotsAsk, AskedFor, Ids
<1>9. OwnCall' /\ ListsAreFresh'
  BY <1>1, <1>2, <1>4, <1>5 DEF BarInv, OwnCall, ListsAreFresh, NoCall
<1>10. PageInv'
  BY <1>1 DEF BarInv, PageInv, RefreshOwed, UrlIsShown, ErasedIsGone, Ids
<1> QED BY <1>6, <1>7, <1>8, <1>9, <1>10 DEF BarInv

LEMMA ReceiveInv == ASSUME BarInv, NEW r \in Request, Receive(r) PROVE BarInv'
  BY AnsweredInv, DeleteAnsweredInv, ListArrivesInv, FailedInv, LostInv DEF Receive

-----------------------------------------------------------------------------
(* What the user does.                                                      *)

\* A click sends at most one call from an idle slot.
LEMMA UserCalls ==
  ASSUME BarInv, User
  PROVE  \/ call' = call
         \/ \E r \in Request, c \in Slot :
              /\ call[r] = NoCall /\ call' = [call EXCEPT ![r] = c]
              /\ AskedFor(c) /\ c.stage = "sent" /\ c.kind \notin {"none", "list"}
<1> DEFINE Sent(r, c) == /\ call[r] = NoCall /\ call' = [call EXCEPT ![r] = c]
                         /\ AskedFor(c) /\ c.stage = "sent" /\ c.kind \notin {"none", "list"}
<1>1. url \in Project /\ shown \in SUBSET Row
  BY DEF BarInv, BarTypeOk, SlotsTyped
<1>2. ASSUME NEW r \in Request, NEW kind \in {"create", "save", "start", "stop"},
             NEW p \in Project, NEW n \in Port \cup {NoPort},
             kind \in {"create", "save"} => n \in Port, NEW lock \in Locks \cup {"none"},
             Send(r, Ask(kind, p, n, lock))
      PROVE  \E c \in Slot : Sent(r, c)
  <2> DEFINE c == Ask(kind, p, n, lock)
  <2>1. c \in Slot /\ c.stage = "sent" /\ c.kind = kind /\ c.id = p /\ c.port = n
    BY <1>2 DEF Ask, NoCall, Slot, Stages, Handled
  <2>2. AskedFor(c)
    BY <1>2, <2>1 DEF AskedFor
  <2> QED BY <1>2, <2>1, <2>2 DEF Send, Idle
<1>3. ASSUME NEW r \in Request, OnDeleteProject(r) PROVE \E c \in Slot : Sent(r, c)
  <2> DEFINE rest == {x \in shown : x.id # url}
             c == [Ask("delete", url, NoPort, "delete") EXCEPT !.rows = rest]
  <2>1. rest \in SUBSET Row /\ url \notin Ids(rest)
    BY <1>1 DEF Ids
  <2> HIDE DEF rest
  <2>2. c \in Slot /\ AskedFor(c) /\ c.stage = "sent" /\ c.kind = "delete"
    BY <1>1, <2>1, AskIsAsked DEF Handled, Locks
  <2>3. call[r] = NoCall /\ call' = [call EXCEPT ![r] = c]
    BY <1>3 DEF OnDeleteProject, Send, Idle, rest
  <2> QED BY <2>2, <2>3
<1>4. ASSUME NEW r \in Request, OnToggleServer(r) PROVE \E c \in Slot : Sent(r, c)
  BY <1>1, <1>2, <1>4 DEF OnToggleServer
<1>5. ASSUME NEW r \in Request, NEW n \in Port, OnSaveProjectSettings(r, n)
      PROVE  \E c \in Slot : Sent(r, c)
  BY <1>1, <1>2, <1>5 DEF OnSaveProjectSettings, Locks
<1>6. ASSUME NEW r \in Request, NEW n \in Port, NEW p \in Project,
             OnCreateProject(r, p, n) \/ CreateFromWelcome(r, p, n)
      PROVE  \E c \in Slot : Sent(r, c)
  BY <1>2, <1>6 DEF OnCreateProject, CreateFromWelcome, Create, Locks
<1> HIDE DEF Sent
<1>7. \/ \E r \in Request, c \in Slot : Sent(r, c)
      \/ OpenSettings \/ CloseSettings \/ AskToConfirm \/ CancelConfirm \/ SwitchProject
  BY <1>3, <1>4, <1>5, <1>6 DEF User
<1>8. CASE OpenSettings \/ CloseSettings \/ AskToConfirm \/ CancelConfirm \/ SwitchProject
  BY <1>8 DEF OpenSettings, CloseSettings, AskToConfirm, CancelConfirm, SwitchProject
<1> QED BY <1>7, <1>8 DEF Sent

\* The rest of a click.
LEMMA UserPage ==
  ASSUME BarInv, User
  PROVE  /\ UNCHANGED <<hostVars, shown, erased, trusted>>
         /\ url' = url \/ url' \in Ids(shown)
         /\ dialog' \in {"none", "settings", "confirm"}
         /\ draft' \in Port \cup {NoPort}
         /\ busy' \subseteq {"create", "save", "delete"}
<1>1. /\ dialog \in {"none", "settings", "confirm"} /\ draft \in Port \cup {NoPort}
      /\ busy \subseteq {"create", "save", "delete"} /\ shown \in SUBSET Row
  BY DEF BarInv, BarTypeOk, SlotsTyped
<1> USE DEF Click, Lock, bar
<1>2. CASE OpenSettings
  BY <1>1, <1>2 DEF OpenSettings, Row
<1>3. CASE CloseSettings \/ AskToConfirm \/ CancelConfirm
  BY <1>1, <1>3 DEF CloseSettings, AskToConfirm, CancelConfirm
<1>4. CASE SwitchProject
  BY <1>1, <1>4 DEF SwitchProject, Ids
<1>5. CASE \E r \in Request : OnToggleServer(r) \/ OnDeleteProject(r)
  BY <1>1, <1>5 DEF OnToggleServer, OnDeleteProject
<1>6. CASE \E r \in Request : \E n \in Port : OnSaveProjectSettings(r, n)
  BY <1>1, <1>6 DEF OnSaveProjectSettings
<1>7. CASE \E r \in Request : \E n \in Port, p \in Project :
             OnCreateProject(r, p, n) \/ CreateFromWelcome(r, p, n)
  BY <1>1, <1>7 DEF OnCreateProject, CreateFromWelcome, Create
<1> QED BY <1>2, <1>3, <1>4, <1>5, <1>6, <1>7 DEF User

\* A click changes nothing that the page has been told.
LEMMA UserInv == ASSUME BarInv, User PROVE BarInv'
<1>1. /\ UNCHANGED <<hostVars, shown, erased, trusted>>
      /\ url' = url \/ url' \in Ids(shown)
      /\ dialog' \in {"none", "settings", "confirm"} /\ draft' \in Port \cup {NoPort}
      /\ busy' \subseteq {"create", "save", "delete"}
  BY UserPage
<1>2. UNCHANGED <<live, port, status, server, bound, pc, target>>
  BY <1>1 DEF hostVars, vars
<1>3. Listed' = Listed
  BY <1>2, SameList
<1>4. IInv'
  BY <1>2, NextInv DEF BarInv, vars
<1>5. Ids(shown) \subseteq Project
  BY DEF BarInv, BarTypeOk
<1>6. UrlIsShown' /\ ErasedIsGone'
  BY <1>1 DEF BarInv, PageInv, UrlIsShown, ErasedIsGone, Ids
<1>7. CASE call' = call
  <2>1. BarTypeOk' /\ SlotsTyped' /\ SlotsAsk'
    BY <1>1, <1>5, <1>7 DEF BarInv, BarTypeOk, SlotsTyped, SlotsAsk, AskedFor, Ids
  <2>2. OwnCall' /\ ListsAreFresh' /\ RefreshOwed'
    BY <1>1, <1>2, <1>3, <1>7 DEF BarInv, PageInv, OwnCall, ListsAreFresh, RefreshOwed, Owes
  <2> QED BY <1>4, <1>6, <2>1, <2>2 DEF BarInv, PageInv
<1>8. ASSUME NEW r \in Request, NEW c \in Slot, call[r] = NoCall,
             call' = [call EXCEPT ![r] = c], AskedFor(c),
             c.stage = "sent" /\ c.kind \notin {"none", "list"}
      PROVE  BarInv'
  <2>1. /\ call'[r] = c
        /\ \A t \in Request \ {r} : call'[t] = call[t]
        /\ call' \in [Request -> Slot]
    BY <1>8 DEF BarInv, SlotsTyped
  <2>2. BarTypeOk' /\ SlotsTyped'
    BY <1>1, <1>5, <2>1 DEF BarInv, BarTypeOk, SlotsTyped, Ids, Slot, Stages
  <2>3. SlotsAsk'
    BY <1>8, <2>1 DEF BarInv, SlotsAsk, AskedFor, Ids
  <2>4. pc[r] = "idle"
    BY <1>8 DEF BarInv, OwnCall, NoCall
  <2>5. OwnCall' /\ ListsAreFresh'
    BY <1>2, <1>3, <1>8, <2>1, <2>4 DEF BarInv, OwnCall, ListsAreFresh
  <2>6. \A t \in Request : Owes(call[t]) => Owes(call'[t])
    BY <1>8, <2>1, NoCallIsIdle
  <2>7. RefreshOwed'
    BY <1>1, <1>3, <2>6 DEF BarInv, PageInv, RefreshOwed
  <2> QED BY <1>4, <1>6, <2>2, <2>3, <2>5, <2>7 DEF BarInv, PageInv
<1> QED BY <1>7, <1>8, UserCalls

-----------------------------------------------------------------------------
(* Theorems.                                                                *)

LEMMA BarInitInv == BarInit => BarInv
<1> SUFFICES ASSUME BarInit PROVE BarInv
  OBVIOUS
<1> USE BarAssumption
<1>1. IInv
  BY PortAssumption
  DEF BarInit, IInv, TypeOk, Status, Pc, InFlight, StatusMatchesServer,
      BoundPortIsRecorded, OneSwitchPerProject, Switching, NobodyStuckHalfway
<1>2. shown = Listed /\ Listed \in SUBSET Row /\ Ids(shown) = InitialProject
  BY <1>1, ListedRows DEF BarInit, IInv
<1>3. call \in [Request -> Slot] /\ \A r \in Request : call[r] = NoCall
  BY NoCallIsIdle DEF BarInit
<1>4. BarTypeOk /\ SlotsTyped
  BY <1>2, <1>3 DEF BarInit, BarTypeOk, SlotsTyped, NoCall
<1>5. SlotsAsk /\ OwnCall /\ ListsAreFresh
  BY <1>3, NoCallIsIdle DEF BarInit, SlotsAsk, OwnCall, ListsAreFresh, NoCall
<1>6. PageInv
  BY <1>2 DEF BarInit, PageInv, RefreshOwed, UrlIsShown, ErasedIsGone
<1> QED BY <1>1, <1>4, <1>5, <1>6 DEF BarInv

LEMMA BarStep == BarInv /\ [BarsNext]_barVars => BarInv'
<1> SUFFICES ASSUME BarInv, [BarsNext]_barVars PROVE BarInv'
  OBVIOUS
<1>1. CASE BarsNext
  BY <1>1, BuildsAgree, UserInv, ServeInv, ReceiveInv DEF BarNext
<1>2. CASE UNCHANGED barVars
  <2>1. /\ UNCHANGED <<live, port, status, server, bound, pc, target>>
        /\ UNCHANGED <<shown, url, dialog, draft, busy, call, erased, trusted>>
    BY <1>2 DEF barVars, hostVars, vars, bar
  <2>2. IInv' /\ Listed' = Listed
    BY <2>1, NextInv, SameList DEF BarInv, vars
  <2>3. BarTypeOk' /\ SlotsTyped' /\ SlotsAsk'
    BY <2>1 DEF BarInv, BarTypeOk, SlotsTyped, SlotsAsk, AskedFor, Ids
  <2>4. OwnCall' /\ ListsAreFresh' /\ PageInv'
    BY <2>1, <2>2 DEF BarInv, PageInv, OwnCall, ListsAreFresh, RefreshOwed, Owes,
                      UrlIsShown, ErasedIsGone, Ids
  <2> QED BY <2>2, <2>3, <2>4 DEF BarInv
<1> QED BY <1>1, <1>2

\* BarInv holds in every reachable state of the bar of either build, and with
\* it the lifecycle's own invariant: no sequence of clicks, answers and losses
\* takes the handlers anywhere their proofs did not foresee.
THEOREM BarInvariant == BarsSpec => []BarInv
  BY BarInitInv, BarStep, PTL DEF BarsSpec

\* The page's state keeps its types.
THEOREM BarTypeCorrect == BarsSpec => []BarTypeOk
  BY BarInvariant, PTL DEF BarInv

\* When no call is under way and none failed or was overtaken, the bar shows
\* the stored projects with their real status, and the URL names one of them.
THEOREM QuietBarsAreExact == BarsSpec => []QuietBarIsExact
<1>1. BarInv => QuietBarIsExact
  BY NoCallIsIdle DEF BarInv, PageInv, RefreshOwed, UrlIsShown, QuietBarIsExact, Idle
<1> QED BY <1>1, BarInvariant, PTL

\* A deleted project is not left selected, whatever calls are lost, late or
\* overlap, unless an answer that still holds it arrives later.
THEOREM DeletedProjectsAreNotSelected == BarsSpec => []DeletedNotSelected
<1>1. BarInv => DeletedNotSelected
  BY DEF BarInv, PageInv, ErasedIsGone, DeletedNotSelected
<1> QED BY <1>1, BarInvariant, PTL
=============================================================================
