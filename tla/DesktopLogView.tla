--------------------------- MODULE DesktopLogView ---------------------------
(***************************************************************************)
(* The filters and queries of the request log in both builds.  The IPC     *)
(* handlers of the desktop build are the same as the routes of the back    *)
(* end, step by step; a behaviour of either build is one of this module,   *)
(* which therefore keeps no record of which build runs.                    *)
(***************************************************************************)
EXTENDS LogQuery

IpcAddLogFilter(f, active, c) == AddLogFilter(f, active, c)
IpcUpdateLogFilter(f, active, c) == UpdateLogFilter(f, active, c)
IpcDeleteLogFilter(f) == DeleteLogFilter(f)
IpcUpdatePresetLogFilter(name, f, c) == UpdatePresetLogFilter(name, f, c)
IpcOpen == Open
IpcLoadLog == LoadLog
IpcGoOn == GoOn

IpcEdit ==
    \/ \E f \in FilterId, c \in Criterion, active \in BOOLEAN :
          IpcAddLogFilter(f, active, c) \/ IpcUpdateLogFilter(f, active, c)
    \/ \E f \in FilterId : IpcDeleteLogFilter(f)
    \/ \E name \in Preset, f \in FilterId, c \in Criterion \cup {NoCriterion} :
          IpcUpdatePresetLogFilter(name, f, c)

IpcNext == IpcEdit \/ IpcLoadLog \/ IpcGoOn \/ IpcOpen

BothSpec == Init /\ [][Next \/ IpcNext]_vars

-----------------------------------------------------------------------------
(* Queries.                                                                 *)

IpcMatches(l, criterion) == Matches(l, criterion)

IpcTranslatable(f) == Translatable(f)
IpcAsked(c) == Asked(c)

IpcFilterQuery(sent) ==
    {l \in Log : \A f \in sent : f.activate => IpcMatches(l, IpcAsked(f.criterion))}

IpcLogQueryFilter(q) == LogQueryFilter(q)
IpcQueryStatus(t) == QueryStatus(t)
IpcSingleTime(texts) == SingleTime(texts)
IpcRunLogQuery(logs, max, limit) == RunLogQuery(logs, max, limit)

IpcQueryByFilters(sent, max, limit) ==
    IF \/ limit < 1 \/ Cardinality(sent) > MaxFilters
       \/ \E f \in sent : ~IpcTranslatable(f)
    THEN Refused ELSE IpcRunLogQuery(IpcFilterQuery(sent), max, limit)

IpcQueryLogs(q, max, limit) ==
    IF \/ limit < 1 \/ ~IpcSingleTime(q.since) \/ ~IpcSingleTime(q.until)
       \/ \E t \in QueryValues(q.status) : ~IpcQueryStatus(t)
    THEN Refused ELSE IpcRunLogQuery(IpcLogQueryFilter(q), max, limit)

-----------------------------------------------------------------------------
(* Properties.                                                              *)

\* logController.ts, "Active filters are ANDed, matching the dynamic-view
\* pipeline": whatever edits, restarts and waiting handlers have made of the
\* view, a client that sends its filters gets the page of the list the
\* dashboard shows; and so does one that states presets as parameters.  What a
\* query cannot repeat is named: FewFilters, PlainNames, NoDates.
QueriesShowTheList ==
    attached /\ waiting = << >> /\ torn = {} =>
        LET byFilters == {QueryByFilters(Sent, NoMax, PageSize),
                          IpcQueryByFilters(Sent, NoMax, PageSize)}
            byParameters == {QueryLogs(Parameters, NoMax, PageSize),
                             IpcQueryLogs(Parameters, NoMax, PageSize)}
            shown == {RunLogQuery(List, NoMax, PageSize)}
        IN  /\ FewFilters /\ PlainNames /\ NoDates => byFilters = shown
            /\ ByParameters => byParameters = shown
=============================================================================
