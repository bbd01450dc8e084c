------------------------- MODULE DesktopRequestLog --------------------------
(***************************************************************************)
(* The request log in both builds.  The main process of the desktop build  *)
(* carries a copy of the mock server, the log handlers, the trimming task  *)
(* and the listeners of RequestLog.  Two things differ: its listeners read *)
(* the directory the databases are in, and its websocket proxy never emits *)
(* CLOSED, so an id stays on the unclosed list until its log is trimmed.   *)
(***************************************************************************)
EXTENDS RequestLog

VARIABLE host   \* "web" or "desktop"

hostVars == <<vars, host>>

\* The mock server and the websocket proxy.
DesktopStart == StartProject
DesktopStop == StopProject
DesktopArrivePlain(r) == ArrivePlain(r)
DesktopArriveSocket(r) == ArriveSocket(r)
DesktopRespond(r) == Respond(r)
DesktopSocketOpens(r) == SocketOpens(r)
DesktopSocketMessage(r) == SocketMessage(r)
DesktopSocketCloses(r) == SocketEnds(r) /\ UNCHANGED unclosed

\* Trimming and clearing.
DesktopTrim == Trim
DesktopPruneTick ==
    /\ phase = "up" /\ started
    /\ DesktopTrim
    /\ UNCHANGED <<project, handler, id, ws, disk, process>>
DesktopDeleteAllLogs == DeleteAllLogs

\* Databases and the START listeners, which the window waits for.
DesktopSaveLog == SaveLog
DesktopSaveProject == SaveProject
DesktopRestart == Restart
DesktopBootTrim == BootTrim
DesktopResetBegins == ResetBegins
DesktopResetOne == ResetOne
DesktopBootDone == BootDone

-----------------------------------------------------------------------------
DesktopServe(r) ==
    \/ DesktopArrivePlain(r) \/ DesktopArriveSocket(r) \/ DesktopRespond(r)
    \/ DesktopSocketOpens(r) \/ DesktopSocketMessage(r) \/ DesktopSocketCloses(r)

DesktopNext ==
    \/ \E r \in Request : DesktopServe(r)
    \/ DesktopStart \/ DesktopStop \/ DesktopPruneTick \/ DesktopDeleteAllLogs
    \/ DesktopSaveLog \/ DesktopSaveProject \/ DesktopRestart
    \/ DesktopBootTrim \/ DesktopResetBegins \/ DesktopResetOne \/ DesktopBootDone

HostInit ==
    /\ Init
    /\ host \in {"web", "desktop"}
    /\ host = "desktop" => ListenersPath

HostNext ==
    /\ \/ host = "web" /\ Next
       \/ host = "desktop" /\ DesktopNext
    /\ UNCHANGED host

HostSpec == HostInit /\ [][HostNext]_hostVars
=============================================================================
