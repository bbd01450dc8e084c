--------------------------- MODULE DesktopLogPage ---------------------------
(***************************************************************************)
(* The request log page of the desktop build.  It is the page of LogPage   *)
(* with another transport and more care: one window hears the events of    *)
(* all views as long as it lives; a page of an earlier project or view is  *)
(* dropped, and so is what follows a filter saved for another project; the *)
(* list is emptied at once when it is cleared; the log in the detail pane  *)
(* goes when it is deleted.                                                *)
(***************************************************************************)
EXTENDS LogPage

\* What the two pages do alike.
DesktopLoadMore == LoadMore
DesktopApplyPresetFilter == ApplyPresetFilter
DesktopSaveFilter == SaveFilter
DesktopRemoveFilter == RemoveFilter
DesktopClearLogs == ClearLogs
DesktopResume == Resume
DesktopPause == Pause
DesktopSelectRow == SelectRow
DesktopSwitchProject(p) == SwitchProject(p)
DesktopViewsArrive(r) == ViewsArrive(r)
DesktopFirstArrives(r) == FirstArrives(r)

\* The main process handles the invocations as the back end does its requests.
IpcListLogViewLogs(r) == ServeQuery(r)
IpcChangeLogFilter(r) == ServeFilter(r)
IpcDeleteAllRequestLogs(r) == ServeClear(r)

\* IPC needs no room: the page listens from the moment it is there.  Unless the
\* page is paused, a deleted log is deselected, by its id alone: the log may be
\* one of another view.
OnViewLog(event, selection) ==
  IF event.effect = "delete" /\ event.row.id = selection.id /\ ~paused
  THEN Nothing ELSE selection

IpcEvent ==
  /\ host = "desktop" /\ channel # <<>>
  /\ LET event == Head(channel)
         kept == OnViewLog(event, selected)
     IN  Deliver(IF event.update /\ event.row.of = project
                    /\ event.row.id = kept.id THEN event.row ELSE kept)

MayMerge(r) == rowsOf = r.of /\ viewRef = r.of

\* Variant: a dropped page leaves the page loading.
DesktopMoreArrivesBusy(r) ==
  \/ MayMerge(r) /\ MoreArrives(r)
  \/ /\ r \in pending /\ r.answered /\ r.kind = "more" /\ ~MayMerge(r)
     /\ pending' = pending \ {r}
     /\ UNCHANGED <<serverVars, listVars, chipVars, placeVars, channel, joined, paused>>

DesktopMoreArrives(r) ==
  \/ MayMerge(r) /\ MoreArrives(r)
  \/ /\ r \in pending /\ r.answered /\ r.kind = "more" /\ ~MayMerge(r)
     /\ loadingMore' = FALSE
     /\ pending' = pending \ {r}
     /\ UNCHANGED <<serverVars, rows, rowsOf, hasMore, selected, trusted, chipVars,
                    placeVars, channel, joined, paused>>

IsCurrentProject(p) == p = project

DesktopFilterSaved(r) ==
  \/ IsCurrentProject(r.of) /\ FilterSaved(r)
  \/ /\ r \in pending /\ r.answered /\ r.kind \in FilterKind \ {"preset"}
     /\ ~IsCurrentProject(r.of)
     /\ filterSaving' = FALSE
     /\ pending' = pending \ {r}
     /\ UNCHANGED <<serverVars, listVars, chips, chipsTrusted, placeVars,
                    channel, joined, paused>>

DesktopLogsCleared(r) ==
  /\ Done(r, "clear")
  /\ Show(project, <<>>, NoProject, Nothing)
  /\ hasMore' = FALSE /\ trusted' = FALSE
  /\ UNCHANGED loadingMore

DesktopArrives(r) ==
  host = "desktop" /\
    (DesktopViewsArrive(r) \/ DesktopFirstArrives(r) \/ DesktopMoreArrives(r)
       \/ DesktopFilterSaved(r) \/ PresetSaved(r) \/ DesktopLogsCleared(r))

-----------------------------------------------------------------------------
(* Both builds, and the bound on what happens to a page.                   *)

CONSTANT Budgets   \* bound: how often each kind of step is taken

Kind == {"change", "fetch", "save", "switch", "select", "fail"}

ASSUME BudgetAssumption == Budgets \subseteq [Kind -> Nat]

VARIABLE budget

pageVars == <<vars, budget>>

Spend(kind) ==
  budget[kind] > 0 /\ budget' = [budget EXCEPT ![kind] = @ - 1]

Free == UNCHANGED budget

Change == \E p \in Project : LogArrives(p) \/ LogUpdated(p) \/ LogTrimmed(p)

Handle(r) ==
  IF host = "desktop"
  THEN IpcListLogViewLogs(r) \/ IpcChangeLogFilter(r) \/ IpcDeleteAllRequestLogs(r)
  ELSE Serve(r)

Ends(r) == Handle(r) \/ Arrives(r) \/ DesktopArrives(r)

WebUser(kind) ==
  CASE kind = "fetch" -> LoadMore \/ ApplyPresetFilter \/ ClearLogs \/ Resume
    [] kind = "save" -> SaveFilter \/ RemoveFilter
    [] kind = "switch" -> \E p \in Project : SwitchProject(p)
    [] OTHER -> SelectRow \/ Pause

DesktopUser(kind) ==
  CASE kind = "fetch" -> DesktopLoadMore \/ DesktopApplyPresetFilter
                           \/ DesktopClearLogs \/ DesktopResume
    [] kind = "save" -> DesktopSaveFilter \/ DesktopRemoveFilter
    [] kind = "switch" -> \E p \in Project : DesktopSwitchProject(p)
    [] OTHER -> DesktopSelectRow \/ DesktopPause

Next ==
  \/ Change /\ Spend("change")
  \/ \E kind \in {"fetch", "save", "switch", "select"} :
       /\ Spend(kind)
       /\ \/ host = "web" /\ WebUser(kind)
          \/ host = "desktop" /\ DesktopUser(kind)
  \/ host # "blank" /\ (\E r \in pending : Fails(r)) /\ Spend("fail")
  \/ (Connect \/ SocketEvent \/ IpcEvent) /\ Free
  \/ (\E r \in pending : Ends(r)) /\ Free

PageInit == Init /\ budget \in Budgets

Spec == PageInit /\ [][Next]_pageVars

(***************************************************************************)
(* What the network and the server owe: a request that does not fail is    *)
(* handled, and its answer arrives.                                        *)
(***************************************************************************)
FairSpec ==
  Spec /\ \A kind \in {"more", "create", "edit", "remove"} :
            WF_pageVars(Free /\ \E r \in pending : r.kind = kind /\ Ends(r))

-----------------------------------------------------------------------------
\* In quiet times the list is right: when no event is on its way and nothing
\* has disturbed the list since its first page was asked for, it holds the
\* newest logs of the view of the shown project, each once, as they are now,
\* and all of them when there are no more to load.  Disturbances are those the
\* page has no answer to: a change while a page is under way, an event that is
\* not heard or is ignored, an answer meant for another project, an old log
\* that enters the view below the end of the list.
QuietPageIsExact ==
  trusted /\ channel = <<>> =>
    LET all == Newest(Listed(project))
    IN  /\ rows = SubSeq(all, 1, Len(rows))
        /\ ~hasMore => rows = all

\* In quiet times the filter bar shows the filters stored with the view, unless
\* one of them is being saved.
QuietChipsAreStored ==
  chipsTrusted /\ (\A r \in pending : r.kind \notin FilterKind)
    => chips = filters[project]

\* Loading more rows and saving a filter end, whatever becomes of the request.
BusyEnds ==
  /\ loadingMore ~> ~loadingMore
  /\ filterSaving ~> ~filterSaving
=============================================================================
