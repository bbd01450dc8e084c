------------------------------- MODULE LogPage -------------------------------
(***************************************************************************)
(* The request log page of the dashboard, against the server it follows.   *)
(*                                                                         *)
(* The page shows the newest rows of a project's log view.  It fetches     *)
(* pages over HTTP, and events of the view (insert, update, delete) reach  *)
(* it over a socket: two channels without any order between them.          *)
(* DesktopLogPage has the copy of the page in the desktop build.           *)
(*                                                                         *)
(* A row is a log as it was at some moment: its project, its id and a      *)
(* version that grows with every change.  Each project has one log view,   *)
(* which goes by the name of the project.                                  *)
(***************************************************************************)
EXTENDS Integers, Sequences, SequencesExt, FiniteSets

CONSTANTS Project,     \* projects, each with its log view
          NoProject,
          Busy,        \* the projects whose logs change; the others stand still
          MaxId,       \* bound: logs are numbered 1 .. MaxId
          MaxVersion,  \* bound: how often a log changes
          PageSize,    \* rows of a page
          FilterId,    \* composed filters
          NoFilter,
          MaxPending,  \* bound: requests in flight
          MaxChannel   \* bound: events in flight

ASSUME LogPageAssumption ==
  /\ NoProject \notin Project /\ Busy \subseteq Project
  /\ MaxId \in Nat \ {0} /\ MaxVersion \in Nat /\ PageSize \in Nat \ {0}
  /\ MaxPending \in Nat /\ MaxChannel \in Nat

Row == [of : Project, id : 1 .. MaxId, ver : 0 .. MaxVersion]

Nothing == [of |-> NoProject, id |-> 0, ver |-> 0]   \* no row is selected

\* What a change of a log means for the list, and whether it is an update, which
\* also goes to those who have selected the log.
Event == [effect : {"insert", "update", "delete", "none"}, row : Row, update : BOOLEAN]

FilterKind == {"create", "edit", "remove", "preset"}

VARIABLES
  host,          \* the build the page belongs to, or "blank" once it has thrown
  log,           \* the stored logs of each project
  listed,        \* the ids of those its view lists
  number,        \* the last id given out
  filters,       \* the composed filters on the record of the view
  channel,       \* events on their way to the page, oldest first
  joined,        \* the server has put the page's socket into the room of its view
  project,       \* the project the page shows
  viewRef,       \* logViewIdRef: the view whose events the page accepts
  known,         \* the projects whose view the query cache holds
  fetched,       \* those of whose list it has held a first page
  rows,          \* the list on the page
  rowsOf,        \* logsProjectIdRef: the project of the last first page
  hasMore, loadingMore, paused,
  selected,      \* selectedLogItem with selectedLogId
  chips,         \* logFilter: the composed filters shown
  filterSaving,
  pending,       \* requests in flight, with their answers once they have one
  trusted,       \* history: nothing has disturbed the list since its first page
  chipsTrusted   \* history: the same of the filters shown

serverVars == <<log, listed, number, filters>>
listVars == <<rows, rowsOf, hasMore, loadingMore, selected, trusted>>
chipVars == <<chips, filterSaving, chipsTrusted>>
placeVars == <<host, project, viewRef, known, fetched>>
vars == <<serverVars, listVars, chipVars, placeVars, channel, joined, paused,
          pending>>

Request ==
  [kind : {"views", "first", "more", "clear"} \cup FilterKind, of : Project,
   max : 1 .. MaxId + 1, filter : FilterId \cup {NoFilter}, clean : BOOLEAN,
   answered : BOOLEAN, rows : Seq(Row), chips : SUBSET FilterId]

TypeOk ==
  /\ host \in {"web", "desktop", "blank"}
  /\ log \in [Project -> SUBSET Row] /\ listed \in [Project -> SUBSET (1 .. MaxId)]
  /\ number \in [Project -> 0 .. MaxId]
  /\ filters \in [Project -> SUBSET FilterId]
  /\ channel \in Seq(Event) /\ joined \in BOOLEAN
  /\ project \in Project /\ viewRef \in Project \cup {NoProject}
  /\ known \subseteq Project /\ fetched \subseteq known
  /\ rows \in Seq(Row) /\ rowsOf \in Project \cup {NoProject}
  /\ {hasMore, loadingMore, paused, filterSaving, trusted, chipsTrusted} \subseteq BOOLEAN
  /\ selected \in Row \cup {Nothing}
  /\ chips \subseteq FilterId
  /\ pending \subseteq Request

-----------------------------------------------------------------------------
(* The server.  LogView has the pipeline of the view; what it lists is     *)
(* arbitrary here.                                                         *)

\* The rows of S, each once, by descending id.
Newest(S) ==
  CHOOSE list \in [1 .. Cardinality(S) -> S] :
     /\ \A row \in S : \E i \in DOMAIN list : list[i] = row
     /\ \A i, j \in DOMAIN list : i < j => list[i].id > list[j].id

Listed(p) == {row \in log[p] : row.id \in listed[p]}

\* A page of the view: the newest of its rows below an exclusive largest id.
LogViewLogs(p, max) ==
  LET found == Newest({row \in Listed(p) : row.id < max})
  IN  SubSeq(found, 1, IF Len(found) < PageSize THEN Len(found) ELSE PageSize)

\* The dynamic view reports what a change of a document means for its list.
ViewEffect(was, is) ==
  IF was THEN (IF is THEN "update" ELSE "delete")
         ELSE (IF is THEN "insert" ELSE "none")

\* Socket messages go to the room of the view; the desktop window gets all.
Heard(p) == host = "desktop" \/ (joined /\ p = project)

LogEvents(p, events) ==
  channel' = IF Heard(p) THEN channel \o events ELSE channel

\* Updates of the selected log go to its own room, which the page joins when it
\* selects the log; that the joining takes time is left out.
Selected(row) == row.of = project /\ row.id = selected.id

\* A change of the view spoils the pages of it that are on their way.
Spoil(p, requests) ==
  {IF r.of = p THEN [r EXCEPT !.clean = FALSE] ELSE r : r \in requests}

Disturb(p) ==
  /\ pending' = Spoil(p, pending)
  /\ trusted' = (trusted /\ (p = project => Heard(p)))

LogChange(p, row, is, update) ==
  /\ p \in Busy /\ Len(channel) < MaxChannel
  /\ log' = [log EXCEPT ![p] = {r \in @ : r.id # row.id} \cup {row}]
  /\ listed' = [listed EXCEPT ![p] = IF is THEN @ \cup {row.id} ELSE @ \ {row.id}]
  /\ LET event == [effect |-> ViewEffect(row.id \in listed[p], is), row |-> row,
                    update |-> update /\ Selected(row)]
     IN  LogEvents(p, IF event.effect = "none" /\ ~event.update THEN <<>> ELSE <<event>>)
  /\ Disturb(p)
  /\ UNCHANGED <<filters, rows, rowsOf, hasMore, loadingMore, selected, chipVars,
                 placeVars, joined, paused>>

LogArrives(p) ==
  /\ number[p] < MaxId
  /\ number' = [number EXCEPT ![p] = @ + 1]
  /\ \E is \in BOOLEAN : 
        LogChange(p, [of |-> p, id |-> number[p] + 1, ver |-> 0], is, FALSE)

LogUpdated(p) ==
  /\ \E row \in log[p], is \in BOOLEAN :
        /\ row.ver < MaxVersion
        /\ LogChange(p, [row EXCEPT !.ver = @ + 1], is, TRUE)
  /\ UNCHANGED number

\* Logs leave with an event for each the view listed: one by trimming, all by
\* the clear button.
LogsRemoved(p, gone) ==
  /\ log' = [log EXCEPT ![p] = @ \ gone]
  /\ listed' = [listed EXCEPT ![p] = @ \ {row.id : row \in gone}]
  /\ LET seen == Newest({row \in gone : row.id \in listed[p]})
     IN  LogEvents(p, [i \in DOMAIN seen |->
                        [effect |-> "delete", row |-> seen[i], update |-> FALSE]])

LogTrimmed(p) ==
  /\ p \in Busy /\ Len(channel) < MaxChannel
  /\ \E row \in log[p] :
        /\ \A other \in log[p] : row.id <= other.id
        /\ LogsRemoved(p, {row})
  /\ Disturb(p)
  /\ UNCHANGED <<number, filters, rows, rowsOf, hasMore, loadingMore, selected,
                 chipVars, placeVars, joined, paused>>

\* The server handles a request.  The answer is fixed now and arrives later.
Answer(r, others, page, stored) ==
  pending' = others \cup
    {[r EXCEPT !.answered = TRUE, !.rows = page, !.chips = stored]}

ServeQuery(r) ==
  /\ r \in pending /\ ~r.answered /\ r.kind \in {"views", "first", "more"}
  /\ Answer(r, pending \ {r},
            IF r.kind = "views" THEN <<>> ELSE LogViewLogs(r.of, r.max),
            IF r.kind = "views" THEN filters[r.of] ELSE {})
  /\ UNCHANGED <<serverVars, listVars, chipVars, placeVars, channel, joined, paused>>

\* A stored filter changes what the view lists, without any event.
ServeFilter(r) ==
  /\ r \in pending /\ ~r.answered /\ r.kind \in FilterKind
  /\ filters' = [filters EXCEPT ![r.of] =
       CASE r.kind = "create" -> @ \cup {r.filter}
         [] r.kind = "remove" -> @ \ {r.filter}
         [] OTHER -> @]
  /\ \E now \in SUBSET {row.id : row \in log[r.of]} :
        listed' = [listed EXCEPT ![r.of] = now]
  /\ Answer(r, Spoil(r.of, pending \ {r}), <<>>, {})
  /\ trusted' = (trusted /\ r.of # project)
  /\ UNCHANGED <<log, number, rows, rowsOf, hasMore, loadingMore, selected, chipVars,
                 placeVars, channel, joined, paused>>

ServeClear(r) ==
  /\ r \in pending /\ ~r.answered /\ r.kind = "clear"
  /\ LogsRemoved(r.of, log[r.of])
  /\ Answer(r, Spoil(r.of, pending \ {r}), <<>>, {})
  /\ trusted' = (trusted /\ (r.of = project => Heard(r.of)))
  /\ UNCHANGED <<number, filters, rows, rowsOf, hasMore, loadingMore, selected,
                 chipVars, placeVars, joined, paused>>

Serve(r) == ServeQuery(r) \/ ServeFilter(r) \/ ServeClear(r)

\* The server puts a socket into its room some time after the page opened it.
Connect ==
  /\ host = "web" /\ ~joined
  /\ joined' = TRUE
  /\ UNCHANGED <<serverVars, listVars, chipVars, placeVars, channel, paused, pending>>

-----------------------------------------------------------------------------
(* The list.  Ids alone tell rows apart.                                   *)

\* Variant: an inserted row goes to the top.
OnLogsInsertFirst(list, row) == <<row>> \o list

OnLogsInsert(list, row) ==
  LET below == {i \in DOMAIN list : list[i].id < row.id}
  IN  IF below = {} THEN Append(list, row)
      ELSE InsertAt(list, CHOOSE i \in below : \A j \in below : i <= j, row)

\* The index of an id in a descending list, or -1.  On a list that is not
\* descending it may miss the id, as any binary search.  Looking for an id above
\* all others may end left of the list, where nothing is: Throws.
Throws == -2

BinarySearch(list, id) ==
  LET find[range \in (1 .. Len(list) + 1) \X (0 .. Len(list))] ==
        LET lo == range[1]
            hi == range[2]
            m == (lo + hi) \div 2
        IN  IF m = 0 THEN Throws
            ELSE IF list[m].id = id THEN m
            ELSE IF lo >= hi THEN -1
            ELSE IF id > list[m].id THEN find[<<lo, m - 1>>]
            ELSE find[<<m + 1, hi>>]
  IN  IF list = <<>> THEN -1 ELSE find[<<1, Len(list)>>]

OnLogsUpdate(list, row) ==
  LET i == BinarySearch(list, row.id)
  IN  IF i \in DOMAIN list THEN [list EXCEPT ![i] = row] ELSE list

OnLogsDelete(list, id) ==
  LET at == {i \in DOMAIN list : list[i].id = id}
  IN  IF at = {} THEN list
      ELSE RemoveAt(list, CHOOSE i \in at : \A j \in at : i <= j)

Applied(list, event) ==
  CASE event.effect = "insert" -> OnLogsInsert(list, event.row)
    [] event.effect = "update" -> OnLogsUpdate(list, event.row)
    [] event.effect = "delete" -> OnLogsDelete(list, event.row.id)
    [] OTHER -> list

\* A fetched page is appended, without the ids that are on the list already.
Merged(list, page) ==
  LET add[n \in 0 .. Len(page)] ==
        IF n = 0 THEN list
        ELSE IF \E i \in DOMAIN list : list[i].id = page[n].id THEN add[n - 1]
        ELSE Append(add[n - 1], page[n])
  IN  add[Len(page)]

\* The newest row is selected once rows of the shown project are there.
Show(p, list, of, item) ==
  /\ rows' = list /\ rowsOf' = of
  /\ selected' = IF of = p /\ list # <<>> /\ item = Nothing
                 THEN list[1] ELSE item

-----------------------------------------------------------------------------
(* Requests of the page.                                                   *)

\* History: nothing is on its way that could disturb the answer.
Quiet(kind, others) ==
  IF kind = "views" THEN \A r \in others : r.kind \notin FilterKind
  ELSE /\ channel = <<>> /\ \A r \in others : r.kind = "views"
       /\ host = "desktop" \/ joined

Ask(kind, of, max, filter, others) ==
  [kind |-> kind, of |-> of, max |-> max, filter |-> filter,
   clean |-> Quiet(kind, others), answered |-> FALSE, rows |-> <<>>, chips |-> {}]

AskQuery(kind, of, others) == Ask(kind, of, MaxId + 1, NoFilter, others)

\* The query cache starts a query that is not under way.
Start(kind, of, others) ==
  others \cup (IF \E r \in others : r.kind = kind /\ r.of = of THEN {}
               ELSE {AskQuery(kind, of, others)})

\* refetch() starts the query of the shown project's first page anew once it has
\* ever been answered.  What it cancels still arrives.
Refetch(others) ==
  IF project \in fetched THEN others \cup {AskQuery("first", project, others)}
  ELSE IF project \in known THEN Start("first", project, others) ELSE others

LoadMore ==
  /\ project \in known /\ hasMore /\ ~loadingMore /\ rows # <<>>
  /\ Cardinality(pending) < MaxPending
  /\ loadingMore' = TRUE
  /\ pending' = pending \cup
       {Ask("more", project, rows[Len(rows)].id, NoFilter, pending)}
  /\ UNCHANGED <<serverVars, rows, rowsOf, hasMore, selected, trusted, chipVars,
                 placeVars, channel, joined, paused>>

SendFilter(kind, f) ==
  /\ project \in known /\ Cardinality(pending) < MaxPending
  /\ pending' = Spoil(project, pending) \cup
       {Ask(kind, project, MaxId + 1, f, pending)}
  /\ UNCHANGED <<serverVars, listVars, chips, chipsTrusted, placeVars, channel,
                 joined, paused>>

\* The editor saves a new filter or one of those shown.
SaveFilter ==
  /\ ~filterSaving
  /\ filterSaving' = TRUE
  /\ \/ \E f \in FilterId \ (chips \cup filters[project]) : SendFilter("create", f)
     \/ \E f \in chips : SendFilter("edit", f)

RemoveFilter ==
  /\ ~filterSaving
  /\ filterSaving' = TRUE
  /\ \E f \in chips : SendFilter("remove", f)

ApplyPresetFilter == SendFilter("preset", NoFilter) /\ UNCHANGED filterSaving

ClearLogs ==
  /\ Cardinality(pending) < MaxPending
  /\ pending' = pending \cup {Ask("clear", project, MaxId + 1, NoFilter, pending)}
  /\ UNCHANGED <<serverVars, listVars, chipVars, placeVars, channel, joined, paused>>

Pause ==
  /\ ~paused /\ paused' = TRUE
  /\ UNCHANGED <<serverVars, listVars, chipVars, placeVars, channel, joined, pending>>

Resume ==
  /\ paused /\ Cardinality(pending) < MaxPending
  /\ paused' = FALSE
  /\ pending' = Refetch(pending)
  /\ UNCHANGED <<serverVars, listVars, chipVars, placeVars, channel, joined>>

SelectRow ==
  /\ \E i \in DOMAIN rows : selected' = rows[i]
  /\ UNCHANGED <<serverVars, rows, rowsOf, hasMore, loadingMore, trusted, chipVars,
                 placeVars, channel, joined, paused, pending>>

\* The effect of another project in the URL.  The queries of the new project
\* start; logViewIdRef and loadingMore stay.  The socket is opened anew.
SwitchProject(p) ==
  /\ p # project /\ Cardinality(pending) + 2 <= MaxPending + 1
  /\ project' = p
  /\ Show(p, <<>>, NoProject, Nothing)
  /\ hasMore' = FALSE /\ chips' = {} /\ filterSaving' = FALSE
  /\ joined' = FALSE
  /\ channel' = IF host = "web" THEN <<>> ELSE channel
  /\ LET old == {[r EXCEPT !.clean = FALSE] : r \in pending}
         asked == Start("views", p, old)
     IN  pending' = IF p \in known THEN Start("first", p, asked) ELSE asked
  /\ trusted' = FALSE /\ chipsTrusted' = FALSE
  /\ UNCHANGED <<serverVars, host, viewRef, known, fetched, loadingMore, paused>>

-----------------------------------------------------------------------------
(* Events and answers reach the page.                                      *)

\* An inserted row below the end of a list that has more rows to load: the
\* rows between it and the end are skipped by the next page.
LeavesGap(event) ==
  /\ event.effect = "insert" /\ hasMore
  /\ \A i \in DOMAIN rows : event.row.id < rows[i].id

\* The page throws while it renders: React takes it down for good.
Breaks(event) ==
  /\ event.effect = "update" /\ ~paused /\ event.row.of = viewRef
  /\ BinarySearch(rows, event.row.id) = Throws

GoBlank ==
  /\ host' = "blank"
  /\ loadingMore' = FALSE /\ filterSaving' = FALSE
  /\ trusted' = FALSE /\ chipsTrusted' = FALSE
  /\ UNCHANGED <<serverVars, rows, rowsOf, hasMore, selected, chips, project, viewRef,
                 known, fetched, joined, paused, pending>>

\* A delivered event: the list takes it unless the page is paused or shows
\* another view, and the selected log follows its updates in any case.
Take(event, selection) ==
  LET ignored == paused \/ event.row.of # viewRef
  IN  /\ Show(project, IF ignored THEN rows ELSE Applied(rows, event), rowsOf, selection)
      /\ trusted' = /\ trusted
                    /\ event.row.of = project /\ event.effect # "none"
                         => ~ignored /\ ~LeavesGap(event)
                    /\ event.row.of # project => ignored
      /\ UNCHANGED <<serverVars, hasMore, loadingMore, chipVars, placeVars, joined,
                     paused, pending>>

Deliver(selection) ==
  /\ channel # <<>>
  /\ channel' = Tail(channel)
  /\ IF Breaks(Head(channel)) THEN GoBlank ELSE Take(Head(channel), selection)

\* updateLog: the selected log is replaced by its new state.
OnUpdateLog(event) ==
  IF event.update /\ event.row.of = project /\ event.row.id = selected.id
  THEN event.row ELSE selected

SocketEvent ==
  /\ host = "web" /\ channel # <<>>
  /\ Deliver(OnUpdateLog(Head(channel)))

\* The views of a project: its filters go to the filter bar, its id into the
\* ref, whatever project is shown by now.
ViewsArrive(r) ==
  /\ r \in pending /\ r.answered /\ r.kind = "views"
  /\ viewRef' = r.of /\ known' = known \cup {r.of}
  /\ chips' = r.chips
  /\ pending' = IF r.of = project /\ r.of \notin known
                THEN Start("first", r.of, pending \ {r}) ELSE pending \ {r}
  /\ trusted' = (trusted /\ r.of = project)
  /\ chipsTrusted' = (r.of = project /\ r.clean)
  /\ UNCHANGED <<serverVars, host, project, fetched, rows, rowsOf, hasMore, loadingMore,
                 selected, filterSaving, channel, joined, paused>>

FirstArrives(r) ==
  /\ r \in pending /\ r.answered /\ r.kind = "first"
  /\ Show(project, r.rows, r.of, selected)
  /\ hasMore' = (Len(r.rows) = PageSize)
  /\ pending' = pending \ {r}
  /\ fetched' = fetched \cup {r.of}
  /\ trusted' = (r.clean /\ r.of = project /\ viewRef = project)
  /\ UNCHANGED <<serverVars, loadingMore, chipVars, host, project, viewRef, known,
                 channel, joined, paused>>

MoreArrives(r) ==
  /\ r \in pending /\ r.answered /\ r.kind = "more"
  /\ Show(project, Merged(rows, r.rows), rowsOf, selected)
  /\ hasMore' = (Len(r.rows) = PageSize)
  /\ loadingMore' = FALSE
  /\ pending' = pending \ {r}
  /\ trusted' = (trusted /\ r.clean /\ r.of = project)
  /\ UNCHANGED <<serverVars, chipVars, placeVars, channel, joined, paused>>

\* Variant: a removed filter stays in the filter bar.
ChipsAfterKept(r) == IF r.kind = "create" THEN chips \cup {r.filter} ELSE chips

ChipsAfter(r) ==
  CASE r.kind = "create" -> chips \cup {r.filter}
    [] r.kind = "remove" -> chips \ {r.filter}
    [] OTHER -> chips

\* Saved: the filter bar and the editor are brought in line, the list fetched.
FilterSaved(r) ==
  /\ r \in pending /\ r.answered /\ r.kind \in FilterKind \ {"preset"}
  /\ chips' = ChipsAfter(r) /\ filterSaving' = FALSE
  /\ chipsTrusted' = (chipsTrusted /\ r.of = project)
  /\ pending' = Refetch(pending \ {r})
  /\ UNCHANGED <<serverVars, listVars, placeVars, channel, joined, paused>>

\* After a preset or the clear button the list is fetched again.
Done(r, kind) ==
  /\ r \in pending /\ r.answered /\ r.kind = kind
  /\ pending' = Refetch(pending \ {r})
  /\ UNCHANGED <<serverVars, chipVars, placeVars, channel, joined, paused>>

PresetSaved(r) == Done(r, "preset") /\ UNCHANGED listVars

LogsCleared(r) == Done(r, "clear") /\ UNCHANGED listVars

\* A request that fails for good, before or after the server handled it.  A query
\* is tried again first, which is the same as an answer that takes longer.
Fails(r) ==
  /\ r \in pending
  /\ pending' = pending \ {r}
  /\ loadingMore' = (loadingMore /\ r.kind # "more")
  /\ filterSaving' = (filterSaving /\ r.kind \notin FilterKind \ {"preset"})
  /\ chipsTrusted' = (chipsTrusted /\ r.kind \notin FilterKind)
  /\ UNCHANGED <<serverVars, rows, rowsOf, hasMore, selected, trusted, chips,
                 placeVars, channel, joined, paused>>

Arrives(r) ==
  host = "web" /\
    (ViewsArrive(r) \/ FirstArrives(r) \/ MoreArrives(r) \/ FilterSaved(r)
       \/ PresetSaved(r) \/ LogsCleared(r))

-----------------------------------------------------------------------------
Init ==
  /\ log = [p \in Project |->
              IF p \in Busy THEN {} ELSE {[of |-> p, id |-> 1, ver |-> 0]}]
  /\ listed = [p \in Project |-> IF p \in Busy THEN {} ELSE {1}]
  /\ number = [p \in Project |-> IF p \in Busy THEN 0 ELSE 1]
  /\ filters = [p \in Project |-> {}]
  /\ channel = <<>> /\ joined = FALSE
  /\ host \in {"web", "desktop"}
  /\ project \in Project /\ viewRef = NoProject /\ known = {} /\ fetched = {}
  /\ rows = <<>> /\ rowsOf = NoProject
  /\ hasMore = FALSE /\ loadingMore = FALSE /\ paused = FALSE
  /\ selected = Nothing
  /\ chips = {} /\ filterSaving = FALSE
  /\ trusted = FALSE /\ chipsTrusted = FALSE
  /\ pending = {[kind |-> "views", of |-> project, max |-> MaxId + 1, filter |-> NoFilter,
                 clean |-> TRUE, answered |-> FALSE, rows |-> <<>>, chips |-> {}]}
=============================================================================
