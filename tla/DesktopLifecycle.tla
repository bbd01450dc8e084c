-------------------------- MODULE DesktopLifecycle --------------------------
(***************************************************************************)
(* The life of mock projects in both builds.  The main process of the      *)
(* desktop build has the handlers of ProjectLifecycle behind IPC; one of   *)
(* them differs: a start registers its server before it listens, so the    *)
(* server stays when listen throws.  Another difference shows only to the  *)
(* caller: start answers before the outcome of listen is known, see        *)
(* ProjectBar.                                                             *)
(***************************************************************************)
EXTENDS ProjectLifecycle

VARIABLE host   \* "web" or "desktop"

hostVars == <<vars, host>>

IpcCreateProject(p, n) == CreateProject(p, n)
IpcUpdateProject(p, n) == UpdatePort(p, n)
IpcStartFirst(r, p) == StartFirst(r, p)
IpcStartAgain(r, p) == StartAgain(r, p)
IpcRouterFails(r) == RouterFails(r)
IpcListenSucceeds(r) == ListenSucceeds(r)
IpcStopAccept(r, p) == StopAccept(r, p)
IpcCloseEnds(r) == CloseEnds(r)
IpcCloseFails(r) == CloseFails(r)
IpcDeleteAccept(r, p) == DeleteAccept(r, p)
IpcDeleteDone(r) == DeleteDone(r)
IpcDeleteFails(r) == DeleteFails(r)

\* The error is logged, and that is all.
IpcListenFails(r) == ListenFails(r)

IpcRouterReady(r) ==
    /\ pc[r] = "routing"
    /\ target[r] \notin BadId
    /\ server' = server \cup {target[r]}
    /\ Listen(r, target[r]) \/ ListenThrows(r, target[r])
    /\ UNCHANGED <<records, status>>

-----------------------------------------------------------------------------
IpcEdit ==
    \E p \in Project, n \in Port : IpcCreateProject(p, n) \/ IpcUpdateProject(p, n)

IpcAccept(r) ==
    \E p \in Project :
        \/ IpcStartFirst(r, p) \/ IpcStartAgain(r, p)
        \/ IpcStopAccept(r, p) \/ IpcDeleteAccept(r, p)

IpcResume(r) ==
    \/ IpcRouterReady(r) \/ IpcRouterFails(r)
    \/ IpcListenSucceeds(r) \/ IpcListenFails(r)
    \/ IpcCloseEnds(r) \/ IpcCloseFails(r)
    \/ IpcDeleteDone(r) \/ IpcDeleteFails(r)

IpcNext == IpcEdit \/ \E r \in Request : IpcAccept(r) \/ IpcResume(r)

HostInit == Init /\ host \in {"web", "desktop"}

HostNext ==
    /\ \/ host = "web" /\ Next
       \/ host = "desktop" /\ IpcNext
    /\ UNCHANGED host

HostSpec == HostInit /\ [][HostNext]_hostVars

\* Loading a database, listening and deleting files end, well or badly.  A
\* server may never report its close, but the timer of stopServer fires.
HostFairness ==
    \A r \in Request :
        /\ WF_hostVars(UNCHANGED host /\ (RouterReady(r) \/ RouterFails(r) \/ IpcRouterReady(r)))
        /\ WF_hostVars(UNCHANGED host /\ (ListenSucceeds(r) \/ ListenFails(r)))
        /\ WF_hostVars(UNCHANGED host /\ CloseEnds(r))
        /\ WF_hostVars(UNCHANGED host /\ (DeleteDone(r) \/ DeleteFails(r)))

FairHostSpec == HostSpec /\ HostFairness
=============================================================================
