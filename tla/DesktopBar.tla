----------------------------- MODULE DesktopBar -----------------------------
(***************************************************************************)
(* The app bar in both builds.  The desktop's is a second copy of the code *)
(* over IPC: no call is lost, and a start is answered before its outcome   *)
(* (ProjectBar, NotDone).                                                  *)
(***************************************************************************)
EXTENDS ProjectBar

IpcOnToggleServer(r) == OnToggleServer(r)
IpcOnCreateProject(r, p, n) == OnCreateProject(r, p, n)
IpcCreateFromWelcome(r, p, n) == CreateFromWelcome(r, p, n)
IpcOpenSettings == OpenSettings
IpcCloseSettings == CloseSettings
IpcAskToConfirm == AskToConfirm
IpcCancelConfirm == CancelConfirm
IpcOnSaveProjectSettings(r, n) == OnSaveProjectSettings(r, n)
IpcOnDeleteProject(r) == OnDeleteProject(r)
IpcSwitchProject == SwitchProject

IpcListAnswered(r) == ListAnswered(r)

IpcToggleAnswered(r) == ToggleAnswered(r)
IpcCreateAnswered(r) == CreateAnswered(r)
IpcSaveAnswered(r) == SaveAnswered(r)
IpcDeleteAnswered(r) == DeleteAnswered(r)
IpcListArrives(r) == ListArrives(r)
IpcFailed(r) == Failed(r)

-----------------------------------------------------------------------------
IpcUser ==
    \/ IpcOpenSettings \/ IpcCloseSettings \/ IpcAskToConfirm \/ IpcCancelConfirm
    \/ IpcSwitchProject
    \/ \E r \in Request :
         \/ IpcOnToggleServer(r) \/ IpcOnDeleteProject(r)
         \/ \E n \in Port : IpcOnSaveProjectSettings(r, n)
         \/ \E n \in Port, p \in Project :
              IpcOnCreateProject(r, p, n) \/ IpcCreateFromWelcome(r, p, n)

IpcServe(r) ==
    \/ Begin(r) \/ Edited(r) \/ Refused(r) \/ Routed(r) \/ Done(r) \/ NotDone(r)
    \/ IpcListAnswered(r)

IpcReceive(r) ==
    \/ IpcToggleAnswered(r) \/ IpcCreateAnswered(r) \/ IpcSaveAnswered(r)
    \/ IpcDeleteAnswered(r) \/ IpcListArrives(r) \/ IpcFailed(r)

IpcBarNext == IpcUser \/ \E r \in Request : IpcServe(r) \/ IpcReceive(r)

BarsNext ==
    \/ host = "web" /\ BarNext
    \/ host = "desktop" /\ IpcBarNext

BarsSpec == BarInit /\ [][BarsNext]_barVars
=============================================================================
