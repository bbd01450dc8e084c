------------------------- MODULE DesktopMockRequest -------------------------
(***************************************************************************)
(* The life of a mock request in both builds.  The main process of the     *)
(* desktop build has its own copy of the mock server, of the actions and   *)
(* of the handlers that edit them.  As far as MockRequest looks they       *)
(* coincide: the copies differ in when a response text is computed and in  *)
(* whether an action can refuse websockets, and a websocket never enters   *)
(* this module (see RequestLog).  Each copy is an operator here, so that a *)
(* change of one build has its place.                                      *)
(***************************************************************************)
EXTENDS MockRequest

\* actionHandler.ts.
IpcCreateAction(a, k) == StoreAction(a, k)
IpcSwitchType(a, k) == SwitchType(a, k)
IpcUpdateAction == UpdateAction
IpcDeleteAction == DeleteAction

\* mockServer.ts.
DesktopArrive(r) == Arrive(r)
DesktopArrivePreflight(r) == ArrivePreflight(r)

\* CustomResponseAction.ts and StaticDirectoryAction.ts.
DesktopAnswerCustom(r) == AnswerCustom(r)
DesktopCustomThrows(r) == CustomThrows(r)
DesktopFileMissing(r) == FileMissing(r)
DesktopFileBegins(r) == FileBegins(r)
DesktopFileEnds(r) == FileEnds(r)

\* ProxyAction.ts; stopServer forces clients off.
DesktopBeginProxy(r) == BeginProxy(r)
DesktopTimerFires(r) == TimerFires(r)
DesktopUpstreamFails(r) == UpstreamFails(r)
DesktopUpstreamHeaders(r) == UpstreamHeaders(r)
DesktopHeadersRefused(r) == HeadersRefused(r)
DesktopUpstreamEnds(r) == UpstreamEnds(r)
DesktopUndecodable(r) == Undecodable(r)
DesktopUpstreamBreaks(r) == UpstreamBreaks(r)
DesktopClientLeaves(r) == ClientLeaves(r)

-----------------------------------------------------------------------------
IpcEdit ==
    \/ \E a \in Action, k \in Kind : IpcCreateAction(a, k) \/ IpcSwitchType(a, k)
    \/ IpcUpdateAction \/ IpcDeleteAction

DesktopServe(r) ==
    \/ DesktopArrive(r) \/ DesktopArrivePreflight(r)
    \/ DesktopAnswerCustom(r) \/ DesktopCustomThrows(r)
    \/ DesktopFileMissing(r) \/ DesktopFileBegins(r) \/ DesktopFileEnds(r)
    \/ DesktopBeginProxy(r) \/ DesktopTimerFires(r)
    \/ DesktopUpstreamHeaders(r) \/ DesktopHeadersRefused(r)
    \/ DesktopUpstreamEnds(r) \/ DesktopUndecodable(r)
    \/ DesktopUpstreamFails(r) \/ DesktopUpstreamBreaks(r)
    \/ DesktopClientLeaves(r)

DesktopNext == IpcEdit \/ \E r \in Request : DesktopServe(r)

\* A process is of one build; that its steps are steps of either is what
\* "coincide" means.
BothSpec == Init /\ [][Next \/ DesktopNext]_vars /\ Fairness
=============================================================================
