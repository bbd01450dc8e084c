------------------------------- MODULE LogView -------------------------------
(***************************************************************************)
(* The filters of one log view.  They are kept twice: as records of the    *)
(* view in logView.db, which the dashboard shows, and as entries of the    *)
(* filter pipeline of the Loki dynamic view in log.db, which decide what   *)
(* the dashboard's list contains.  The two files are saved independently.  *)
(*                                                                         *)
(* A handler changes the record, awaits the log database, and then brings  *)
(* the pipeline in line.  While the database is being loaded the handlers  *)
(* wait; they go on in the order of their requests, before anything else.  *)
(*                                                                         *)
(* A definition marked Variant is a faulty form of the definition after    *)
(* it.  It is used only to confirm that a property can fail.               *)
(***************************************************************************)
EXTENDS Naturals, Sequences

CONSTANTS
    FilterId,       \* the ids of filters; one that nobody knows any more may
                    \* stand for another fresh one
    Preset,         \* the names of preset filters
    NoPreset,       \* the preset of a filter the user composes
    Criterion,      \* what a filter asks of a log
    NoCriterion,    \* a preset without a value
    MaxWaiting,     \* bound of the model: handlers that wait for log.db
    MaxRestarts     \* bound of the model: how often the process restarts

ASSUME FilterAssumption == NoPreset \notin Preset /\ NoCriterion \notin Criterion
ASSUME BoundAssumption == MaxWaiting \in Nat /\ MaxRestarts \in Nat

VARIABLES
    filters,    \* logView.filters, by id
    pipeline,   \* the filterPipeline of the dynamic view, by uid
    loaded,     \* log.db is loaded
    attached,   \* the view went through the once of getLogDynamicView
    waiting,    \* the filters whose handlers wait for log.db
    disk,       \* the two in logView.db and log.db
    torn,       \* history: the ids whose saved copies disagreed at the restart
    restarts

vars == <<filters, pipeline, loaded, attached, waiting, disk, torn, restarts>>

Filter ==
    [preset : Preset \cup {NoPreset}, activate : BOOLEAN, criterion : Criterion]

\* What a handler does to the pipeline once it can.
Sync ==
    {s \in [id : FilterId, activate : BOOLEAN, criterion : Criterion \cup {NoCriterion}] :
        s.activate => s.criterion \in Criterion}

Partial(S, T) == UNION {[D -> T] : D \in SUBSET S}

TypeOk ==
    /\ filters \in Partial(FilterId, Filter)
    /\ pipeline \in Partial(FilterId, Criterion)
    /\ loaded \in BOOLEAN /\ attached \in BOOLEAN
    /\ waiting \in Seq(Sync)
    /\ disk.filters \in Partial(FilterId, Filter)
    /\ disk.pipeline \in Partial(FilterId, Criterion)
    /\ torn \subseteq FilterId
    /\ restarts \in 0 .. MaxRestarts

Nothing == [f \in {} |-> NoCriterion]

Init ==
    /\ filters = Nothing /\ pipeline = Nothing
    /\ loaded = FALSE /\ attached = FALSE
    /\ waiting = << >>
    /\ disk = [filters |-> filters, pipeline |-> pipeline]
    /\ torn = {} /\ restarts = 0

With(map, f, value) == [g \in DOMAIN map \cup {f} |-> IF g = f THEN value ELSE map[g]]
Without(map, f) == [g \in DOMAIN map \ {f} |-> map[g]]

-----------------------------------------------------------------------------
(* The dynamic view.                                                        *)

Active(record) == {f \in DOMAIN record : record[f].activate}

\* Variant: entries of filters that are gone or inactive stay.
ReconciledAddsOnly(record) ==
    [f \in Active(record) \cup DOMAIN pipeline |->
        IF f \in DOMAIN pipeline THEN pipeline[f] ELSE record[f].criterion]

\* The once of getLogDynamicView: active filters that are missing are applied,
\* entries of others are removed; an entry that is there is not looked at.
Reconciled(record) ==
    [f \in Active(record) |->
        IF f \in DOMAIN pipeline THEN pipeline[f] ELSE record[f].criterion]

View(record) == IF attached THEN pipeline ELSE Reconciled(record)

\* Variant: a filter the pipeline already has is not applied again.
SyncedOnce(map, s) ==
    IF ~s.activate THEN Without(map, s.id)
    ELSE IF s.id \in DOMAIN map THEN map
    ELSE With(map, s.id, s.criterion)

\* syncDynamicViewFilter and removeDynamicViewFilter.
Synced(map, s) ==
    IF s.activate THEN With(map, s.id, s.criterion) ELSE Without(map, s.id)

\* The rest of a handler, after getLogDynamicView.
Apply(record, s) ==
    /\ pipeline' = Synced(View(record), s)
    /\ attached' = TRUE
    /\ torn' = torn \ {s.id}

\* No handler is between its record and its pipeline, except to wait for the
\* file.
Settled == ~loaded \/ waiting = << >>

\* A handler that has changed the record.
Write(record, s) ==
    /\ Settled
    /\ filters' = record
    /\ \/ /\ loaded
          /\ Apply(record, s)
          /\ UNCHANGED waiting
       \/ /\ ~loaded /\ Len(waiting) < MaxWaiting
          /\ waiting' = Append(waiting, s)
          /\ UNCHANGED <<pipeline, attached, torn>>
    /\ UNCHANGED <<loaded, disk, restarts>>

\* log.db is loaded for whoever asked first: a handler, the log page, a start.
LoadLog ==
    /\ ~loaded
    /\ loaded' = TRUE
    /\ UNCHANGED <<filters, pipeline, attached, waiting, disk, torn, restarts>>

GoOn ==
    /\ loaded /\ waiting # << >>
    /\ Apply(filters, Head(waiting))
    /\ waiting' = Tail(waiting)
    /\ UNCHANGED <<filters, loaded, disk, restarts>>

\* The log page asks for logs, or the project is started.
Open ==
    /\ loaded /\ waiting = << >>
    /\ pipeline' = View(filters)
    /\ attached' = TRUE
    /\ UNCHANGED <<filters, loaded, waiting, disk, torn, restarts>>

-----------------------------------------------------------------------------
(* The handlers.                                                            *)

Known ==
    DOMAIN filters \cup DOMAIN pipeline \cup DOMAIN disk.filters
        \cup DOMAIN disk.pipeline \cup {waiting[n].id : n \in DOMAIN waiting}

Store(f, filter) ==
    Write(With(filters, f, filter),
          [id |-> f, activate |-> filter.activate, criterion |-> filter.criterion])

Remove(f) ==
    Write(Without(filters, f), [id |-> f, activate |-> FALSE, criterion |-> NoCriterion])

\* The dashboard adds composed filters only, with an id of their own.
AddLogFilter(f, active, c) ==
    /\ f \notin Known
    /\ Store(f, [preset |-> NoPreset, activate |-> active, criterion |-> c])

UpdateLogFilter(f, active, c) ==
    /\ f \in DOMAIN filters /\ filters[f].preset = NoPreset
    /\ Store(f, [preset |-> NoPreset, activate |-> active, criterion |-> c])

DeleteLogFilter(f) ==
    /\ f \in DOMAIN filters
    /\ Remove(f)

\* Variant: the stored filter is looked up by the id the client drew.
StoredPresetById(name) == {}

StoredPreset(name) == {f \in DOMAIN filters : filters[f].preset = name}

\* A value replaces that of the stored filter of the name, which keeps its id;
\* an empty one removes it.
UpdatePresetLogFilter(name, f, c) ==
    \/ /\ c # NoCriterion /\ StoredPreset(name) = {} /\ f \notin Known
       /\ Store(f, [preset |-> name, activate |-> TRUE, criterion |-> c])
    \/ /\ c # NoCriterion
       /\ \E g \in StoredPreset(name) : Store(g, [filters[g] EXCEPT !.criterion = c])
    \/ /\ c = NoCriterion
       /\ \E g \in StoredPreset(name) : Remove(g)

-----------------------------------------------------------------------------
(* Persistence and restart.                                                 *)

SaveView ==
    /\ Settled
    /\ disk' = [disk EXCEPT !.filters = filters]
    /\ UNCHANGED <<filters, pipeline, loaded, attached, waiting, torn, restarts>>

SaveLog ==
    /\ loaded /\ waiting = << >>
    /\ disk' = [disk EXCEPT !.pipeline = pipeline]
    /\ UNCHANGED <<filters, pipeline, loaded, attached, waiting, torn, restarts>>

\* Handlers that wait, and what was not saved, are lost.
Restart ==
    /\ restarts < MaxRestarts /\ restarts' = restarts + 1
    /\ filters' = disk.filters /\ pipeline' = disk.pipeline
    /\ loaded' = FALSE /\ attached' = FALSE /\ waiting' = << >>
    /\ torn' = {f \in DOMAIN disk.filters \cap DOMAIN disk.pipeline :
                  disk.filters[f].criterion # disk.pipeline[f]}
    /\ UNCHANGED disk

Edit ==
    \/ \E f \in FilterId, c \in Criterion, active \in BOOLEAN :
          AddLogFilter(f, active, c) \/ UpdateLogFilter(f, active, c)
    \/ \E f \in FilterId : DeleteLogFilter(f)
    \/ \E name \in Preset, f \in FilterId, c \in Criterion \cup {NoCriterion} :
          UpdatePresetLogFilter(name, f, c)

Next == Edit \/ LoadLog \/ GoOn \/ Open \/ SaveView \/ SaveLog \/ Restart

Spec == Init /\ [][Next]_vars

-----------------------------------------------------------------------------
(* Properties.                                                              *)

\* new-ui-log-filter/spec.md:189, the reconciliation "skips filters with
\* activate === false and removes pipeline entries for filters that are
\* inactive or no longer present": whatever the two files held and however
\* handlers waited for one of them, the list is narrowed by the active filters
\* of the record and by no others.
ActiveFiltersNarrow ==
    attached /\ waiting = << >> => DOMAIN pipeline = Active(filters)

\* And by their present criteria, unless the saved copies of a filter
\* disagreed when the process started and nobody has touched it since.
EditsReachTheList ==
    attached /\ waiting = << >> =>
        \A f \in DOMAIN pipeline : f \in torn \/ pipeline[f] = filters[f].criterion

\* The dashboard has one control per preset: no two filters of one name are
\* stored, although the handler searches before it appends and waits after.
OnePresetEach ==
    \A f, g \in DOMAIN filters :
        filters[f].preset = filters[g].preset /\ filters[f].preset # NoPreset => f = g
=============================================================================
