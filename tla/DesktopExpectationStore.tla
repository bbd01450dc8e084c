----------------------- MODULE DesktopExpectationStore -----------------------
(***************************************************************************)
(* The handlers of the desktop application that edit expectations and      *)
(* groups (expectationHandler.ts, groupHandler.ts, matcherHandler.ts,      *)
(* actionHandler.ts).  They answer calls of the page over Electron's IPC   *)
(* instead of HTTP requests and are a second copy of the code that         *)
(* ExpectationStore models: no handler behaves differently.                *)
(***************************************************************************)
EXTENDS ExpectationStore

IpcCreateGroup(rank) == CreateGroup(rank)
IpcUpdateGroup(g) == UpdateGroup(g)
IpcDeleteGroup(g) == DeleteGroup(g)

IpcCreateExpectation(g, rank, key, content) == CreateExpectation(g, rank, key, content)
IpcUpdateExpectation(e) == UpdateExpectation(e)
IpcDeleteExpectation(e) == DeleteExpectation(e)
IpcEditMatcher(e) == EditMatcher(e)
IpcEditAction(e) == EditAction(e)

IpcImport(items, overwrite, time) ==
    \/ Import(items, overwrite, time)
    \/ overwrite /\ ImportFails(items)

IpcNext ==
    \/ \E rank \in Rank : IpcCreateGroup(rank)
    \/ \E g \in DOMAIN groups : IpcUpdateGroup(g) \/ IpcDeleteGroup(g)
    \/ \E g \in 0 .. lastGroup, rank \in Rank, k \in Key, c \in Content :
            IpcCreateExpectation(g, rank, k, c)
    \/ \E e \in DOMAIN exps :
            \/ IpcUpdateExpectation(e) \/ IpcEditMatcher(e)
            \/ IpcEditAction(e) \/ IpcDeleteExpectation(e)
    \/ \E items \in {f \in File : lastExp + lastGroup + Len(f) <= MaxDoc},
          overwrite \in BOOLEAN, time \in Time : IpcImport(items, overwrite, time)

\* What either build does.
BothSpec == Init /\ [][Next \/ IpcNext]_vars
=============================================================================
