---------------------------- MODULE LogViewProofs ----------------------------
(***************************************************************************)
(* Proofs about LogView for any number of filters, presets, waiting        *)
(* handlers and restarts.  The idea: a filter that no waiting handler is   *)
(* about is in step, in record and pipeline; of the handlers that are      *)
(* about the same filter, the last one carries what the record says.       *)
(***************************************************************************)
EXTENDS DesktopLogView, TLAPS

Pending == {waiting[n].id : n \in DOMAIN waiting}

\* What the handler is about to do to the pipeline is what the record says.
Recorded(s) ==
    IF s.activate
    THEN s.id \in Active(filters) /\ filters[s.id].criterion = s.criterion
    ELSE s.id \notin Active(filters)

LastWordsRecorded ==
    \A n \in DOMAIN waiting :
        \/ Recorded(waiting[n])
        \/ \E m \in DOMAIN waiting : m > n /\ waiting[m].id = waiting[n].id

\* Whether filter f narrows, and by what, is the same in record and pipeline.
\* A view that nobody asked for yet may still hold entries of other filters.
InStep(f) ==
    /\ attached => (f \in DOMAIN pipeline <=> f \in Active(filters))
    /\ f \in DOMAIN pipeline \cap Active(filters) =>
          f \in torn \/ pipeline[f] = filters[f].criterion

OnePreset(record) ==
    \A f, g \in DOMAIN record :
        record[f].preset = record[g].preset /\ record[f].preset # NoPreset => f = g

IInv ==
    /\ TypeOk
    /\ attached => loaded
    /\ LastWordsRecorded
    /\ \A f \in FilterId \ Pending : InStep(f)
    /\ OnePreset(filters) /\ OnePreset(disk.filters)

-----------------------------------------------------------------------------
(* Maps whose domain is some part of a set.                                 *)

LEMMA PartialMap ==
  ASSUME NEW S, NEW T, NEW map
  PROVE  map \in Partial(S, T) <=> DOMAIN map \subseteq S /\ map \in [DOMAIN map -> T]
BY DEF Partial

LEMMA WithMap ==
  ASSUME NEW S, NEW T, NEW map \in Partial(S, T), NEW f \in S, NEW value \in T
  PROVE  /\ With(map, f, value) \in Partial(S, T)
         /\ DOMAIN With(map, f, value) = DOMAIN map \cup {f}
         /\ With(map, f, value)[f] = value
         /\ \A g \in DOMAIN map : g # f => With(map, f, value)[g] = map[g]
BY PartialMap DEF With

LEMMA WithoutMap ==
  ASSUME NEW S, NEW T, NEW map \in Partial(S, T), NEW f \in S
  PROVE  /\ Without(map, f) \in Partial(S, T)
         /\ DOMAIN Without(map, f) = DOMAIN map \ {f}
         /\ \A g \in DOMAIN map : g # f => Without(map, f)[g] = map[g]
BY PartialMap DEF Without

-----------------------------------------------------------------------------
(* What a handler does to the pipeline.                                     *)

\* The record changed at most at one filter.
ChangedAt(id) ==
    \A g \in FilterId \ {id} :
        /\ g \in Active(filters)' <=> g \in Active(filters)
        /\ g \in Active(filters) => filters'[g].criterion = filters[g].criterion

LEMMA Viewed ==
  ASSUME NEW record, record \in Partial(FilterId, Filter), TypeOk
  PROVE  /\ View(record) \in Partial(FilterId, Criterion)
         /\ attached => View(record) = pipeline
         /\ ~attached => /\ DOMAIN View(record) = Active(record)
                         /\ \A f \in Active(record) :
                               View(record)[f] = IF f \in DOMAIN pipeline THEN pipeline[f]
                                                 ELSE record[f].criterion
<1>1. /\ pipeline \in Partial(FilterId, Criterion)
      /\ DOMAIN pipeline \subseteq FilterId /\ pipeline \in [DOMAIN pipeline -> Criterion]
  BY PartialMap DEF TypeOk
<1>2. /\ DOMAIN record \subseteq FilterId /\ record \in [DOMAIN record -> Filter]
  BY PartialMap
<1>3. Reconciled(record) \in Partial(FilterId, Criterion)
  <2>1. Active(record) \subseteq FilterId
    BY <1>2 DEF Active
  <2>2. Reconciled(record) \in [Active(record) -> Criterion]
    BY <1>1, <1>2 DEF Reconciled, Active, Filter
  <2> QED BY <2>1, <2>2, PartialMap
<1> QED BY <1>1, <1>3 DEF View, Reconciled

LEMMA Applied ==
  ASSUME TypeOk, filters' \in Partial(FilterId, Filter),
         NEW s \in Sync, Apply(filters', s), ChangedAt(s.id)
  PROVE  /\ pipeline' \in Partial(FilterId, Criterion) /\ torn' \subseteq FilterId
         /\ Recorded(s)' => InStep(s.id)'
         /\ \A f \in FilterId \ {s.id} : InStep(f) => InStep(f)'
<1> DEFINE before == View(filters')
<1>1. /\ s.id \in FilterId /\ s.activate \in BOOLEAN
      /\ s.activate => s.criterion \in Criterion
  BY DEF Sync
<1>2. /\ before \in Partial(FilterId, Criterion)
      /\ attached => before = pipeline
      /\ ~attached => /\ DOMAIN before = Active(filters')
                      /\ \A f \in Active(filters') :
                            before[f] = IF f \in DOMAIN pipeline THEN pipeline[f]
                                        ELSE filters'[f].criterion
  BY Viewed
<1>3. pipeline' = Synced(before, s) /\ attached' = TRUE /\ torn' = torn \ {s.id}
  BY DEF Apply
<1> HIDE DEF before
<1>4. /\ pipeline' \in Partial(FilterId, Criterion)
      /\ s.activate => s.id \in DOMAIN pipeline' /\ pipeline'[s.id] = s.criterion
      /\ ~s.activate => s.id \notin DOMAIN pipeline'
      /\ \A f \in FilterId \ {s.id} :
            /\ f \in DOMAIN pipeline' <=> f \in DOMAIN before
            /\ f \in DOMAIN pipeline' => pipeline'[f] = before[f]
  <2>1. CASE s.activate
    <3>1. pipeline' = With(before, s.id, s.criterion)
      BY <1>3, <2>1 DEF Synced
    <3>2. /\ With(before, s.id, s.criterion) \in Partial(FilterId, Criterion)
          /\ DOMAIN With(before, s.id, s.criterion) = DOMAIN before \cup {s.id}
          /\ With(before, s.id, s.criterion)[s.id] = s.criterion
          /\ \A g \in DOMAIN before :
                g # s.id => With(before, s.id, s.criterion)[g] = before[g]
      BY <1>1, <1>2, <2>1, WithMap
    <3> QED BY <2>1, <3>1, <3>2
  <2>2. CASE ~s.activate
    <3>1. pipeline' = Without(before, s.id)
      BY <1>3, <2>2 DEF Synced
    <3>2. /\ Without(before, s.id) \in Partial(FilterId, Criterion)
          /\ DOMAIN Without(before, s.id) = DOMAIN before \ {s.id}
          /\ \A g \in DOMAIN before : g # s.id => Without(before, s.id)[g] = before[g]
      BY <1>1, <1>2, WithoutMap
    <3> QED BY <2>2, <3>1, <3>2
  <2> QED BY <2>1, <2>2
<1>5. Active(filters)' = Active(filters')
  BY DEF Active
<1>6. Recorded(s)' => InStep(s.id)'
  BY <1>1, <1>3, <1>4 DEF Recorded, InStep
<1>7. ASSUME NEW f \in FilterId \ {s.id}, InStep(f)
      PROVE  InStep(f)'
  <2>1. /\ f \in Active(filters)' <=> f \in Active(filters)
        /\ f \in Active(filters) => filters'[f].criterion = filters[f].criterion
    BY <1>7 DEF ChangedAt
  <2>2. f \in DOMAIN before <=> f \in Active(filters)'
    BY <1>2, <1>5, <1>7, <2>1 DEF InStep
  <2>3. f \in DOMAIN before =>
           f \in torn \/ before[f] = filters'[f].criterion
    BY <1>2, <1>5, <1>7, <2>1, <2>2 DEF InStep
  <2> QED BY <1>3, <1>4, <1>7, <2>2, <2>3 DEF InStep
<1> QED BY <1>3, <1>4, <1>6, <1>7 DEF TypeOk
-----------------------------------------------------------------------------
(* The steps.                                                               *)

LEMMA Initially == Init => IInv
<1> SUFFICES ASSUME Init PROVE IInv
  OBVIOUS
<1>1. filters \in Partial(FilterId, Filter) /\ pipeline \in Partial(FilterId, Criterion)
  BY PartialMap DEF Init, Nothing
<1>2. TypeOk
  <2>1. waiting \in Seq(Sync) /\ restarts \in 0 .. MaxRestarts
    BY BoundAssumption DEF Init
  <2>2. disk.filters = filters /\ disk.pipeline = pipeline
    BY DEF Init
  <2> QED BY <1>1, <2>1, <2>2 DEF Init, TypeOk
<1>3. LastWordsRecorded /\ \A f \in FilterId \ Pending : InStep(f)
  BY DEF Init, Nothing, LastWordsRecorded, InStep
<1>4. OnePreset(filters) /\ OnePreset(disk.filters)
  BY DEF Init, Nothing, OnePreset
<1> QED BY <1>2, <1>3, <1>4 DEF Init, IInv

\* A handler up to its end, or to the wait for the log database.
LEMMA Written ==
  ASSUME IInv, NEW record \in Partial(FilterId, Filter), NEW s \in Sync,
         Write(record, s), ChangedAt(s.id), Recorded(s)', OnePreset(record)
  PROVE  IInv'
<1>1. /\ filters' = record
      /\ filters' \in Partial(FilterId, Filter)
      /\ UNCHANGED <<loaded, disk, restarts>>
  BY DEF Write
<1>2. OnePreset(filters)' /\ OnePreset(disk.filters)'
  BY <1>1 DEF IInv, OnePreset
<1>3. /\ TypeOk
      /\ waiting \in Seq(Sync)
  BY DEF IInv, TypeOk
<1>4. CASE loaded
  <2>1. waiting = << >> /\ waiting' = << >> /\ Apply(filters', s)
    BY <1>1, <1>4 DEF Write, Settled
  <2>2. /\ pipeline' \in Partial(FilterId, Criterion) /\ torn' \subseteq FilterId
        /\ InStep(s.id)'
        /\ \A f \in FilterId \ {s.id} : InStep(f) => InStep(f)'
    BY <1>1, <1>3, <2>1, Applied
  <2>3. \A f \in FilterId : InStep(f)'
    <3>1. Pending = {}
      BY <2>1 DEF Pending
    <3> QED BY <2>2, <3>1 DEF IInv
  <2>4. TypeOk'
    BY <1>1, <1>3, <2>1, <2>2 DEF TypeOk, Apply
  <2>5. LastWordsRecorded' /\ (attached => loaded)'
    BY <1>1, <1>4, <2>1 DEF LastWordsRecorded
  <2> QED BY <1>2, <2>3, <2>4, <2>5 DEF IInv
<1>5. CASE ~loaded
  <2>1. /\ waiting' = Append(waiting, s)
        /\ UNCHANGED <<pipeline, attached, torn>>
        /\ attached = FALSE
    BY <1>5 DEF Write, IInv, TypeOk
  <2>2. /\ waiting' \in Seq(Sync)
        /\ DOMAIN waiting' = DOMAIN waiting \cup {Len(waiting) + 1}
        /\ waiting'[Len(waiting) + 1] = s
        /\ \A n \in DOMAIN waiting :
              n \in Nat /\ n < Len(waiting) + 1 /\ waiting'[n] = waiting[n]
    BY <1>3, <2>1
  <2>3. TypeOk'
    BY <1>1, <1>3, <2>1, <2>2 DEF TypeOk
  <2>4. LastWordsRecorded'
    <3> SUFFICES ASSUME NEW n \in DOMAIN waiting'
                 PROVE  \/ Recorded(waiting[n])'
                        \/ \E m \in DOMAIN waiting' : m > n /\ waiting'[m].id = waiting'[n].id
      BY DEF LastWordsRecorded
    <3>1. CASE n = Len(waiting) + 1
      BY <2>2, <3>1 DEF Recorded
    <3>2. CASE n \in DOMAIN waiting /\ waiting[n].id = s.id
      BY <1>3, <2>2, <3>2
    <3>3. CASE n \in DOMAIN waiting /\ waiting[n].id # s.id
      <4>1. CASE Recorded(waiting[n])
        <5>1. waiting[n].id \in FilterId
          BY <1>3, <3>3 DEF Sync
        <5> QED BY <2>2, <3>3, <4>1, <5>1 DEF Recorded, ChangedAt
      <4>2. CASE \E m \in DOMAIN waiting : m > n /\ waiting[m].id = waiting[n].id
        BY <2>2, <3>3, <4>2
      <4> QED BY <3>3, <4>1, <4>2 DEF IInv, LastWordsRecorded
    <3> QED BY <2>2, <3>1, <3>2, <3>3
  <2>5. ASSUME NEW f \in FilterId \ Pending'
        PROVE  InStep(f)'
    <3>1. f \in FilterId \ Pending /\ f # s.id
      BY <1>3, <2>2, <2>5 DEF Pending
    <3>2. InStep(f)
      BY <3>1 DEF IInv
    <3> QED BY <2>1, <3>1, <3>2 DEF InStep, ChangedAt
  <2> QED BY <1>1, <1>2, <2>1, <2>3, <2>4, <2>5 DEF IInv
<1> QED BY <1>4, <1>5
LEMMA OnePresetWith ==
  ASSUME filters \in Partial(FilterId, Filter), OnePreset(filters),
         NEW f \in FilterId, NEW filter \in Filter,
         \A g \in DOMAIN filters \ {f} :
            filters[g].preset = filter.preset => filter.preset = NoPreset
  PROVE  OnePreset(With(filters, f, filter))
<1>1. /\ With(filters, f, filter) \in Partial(FilterId, Filter)
      /\ DOMAIN With(filters, f, filter) = DOMAIN filters \cup {f}
      /\ With(filters, f, filter)[f] = filter
      /\ \A g \in DOMAIN filters : g # f => With(filters, f, filter)[g] = filters[g]
  BY WithMap
<1> QED BY <1>1 DEF OnePreset

LEMMA Stored ==
  ASSUME IInv, NEW f \in FilterId, NEW filter \in Filter, Store(f, filter),
         OnePreset(With(filters, f, filter))
  PROVE  IInv'
<1>1. filters \in Partial(FilterId, Filter) /\ DOMAIN filters \subseteq FilterId
  BY PartialMap DEF IInv, TypeOk
<1>2. /\ With(filters, f, filter) \in Partial(FilterId, Filter)
      /\ DOMAIN With(filters, f, filter) = DOMAIN filters \cup {f}
      /\ With(filters, f, filter)[f] = filter
      /\ \A g \in DOMAIN filters : g # f => With(filters, f, filter)[g] = filters[g]
  BY <1>1, PartialMap DEF With
<1> DEFINE s == [id |-> f, activate |-> filter.activate, criterion |-> filter.criterion]
<1>3. Write(With(filters, f, filter), s) /\ filters' = With(filters, f, filter)
  BY DEF Store, Write
<1>4. s \in Sync /\ s.id = f /\ s.activate = filter.activate /\ s.criterion = filter.criterion
  BY DEF Sync, Filter
<1> HIDE DEF s
<1>5. ChangedAt(s.id)
  BY <1>1, <1>2, <1>3, <1>4 DEF ChangedAt, Active
<1>6. Recorded(s)'
  BY <1>2, <1>3, <1>4 DEF Recorded, Active
<1> QED BY <1>2, <1>3, <1>4, <1>5, <1>6, Written

LEMMA Removed ==
  ASSUME IInv, NEW f \in DOMAIN filters, Remove(f)
  PROVE  IInv'
<1>1. /\ filters \in Partial(FilterId, Filter) /\ DOMAIN filters \subseteq FilterId
      /\ f \in FilterId
  BY PartialMap DEF IInv, TypeOk
<1>2. /\ Without(filters, f) \in Partial(FilterId, Filter)
      /\ DOMAIN Without(filters, f) = DOMAIN filters \ {f}
      /\ \A g \in DOMAIN filters : g # f => Without(filters, f)[g] = filters[g]
  BY <1>1, PartialMap DEF Without
<1> DEFINE s == [id |-> f, activate |-> FALSE, criterion |-> NoCriterion]
<1>3. Write(Without(filters, f), s) /\ filters' = Without(filters, f)
  BY DEF Remove, Write
<1>4. s \in Sync /\ s.id = f /\ s.activate = FALSE
  BY <1>1 DEF Sync
<1> HIDE DEF s
<1>5. ChangedAt(s.id)
  BY <1>1, <1>2, <1>3, <1>4 DEF ChangedAt, Active
<1>6. Recorded(s)'
  BY <1>2, <1>3, <1>4 DEF Recorded, Active
<1>7. OnePreset(Without(filters, f))
  BY <1>2 DEF OnePreset, IInv
<1> QED BY <1>2, <1>3, <1>4, <1>5, <1>6, <1>7, Written

\* Presets are stored under one id each because the handler looks by name.
LEMMA Edited == IInv /\ Edit => IInv'
<1> SUFFICES ASSUME IInv, Edit PROVE IInv'
  OBVIOUS
<1>1. /\ filters \in Partial(FilterId, Filter)
      /\ DOMAIN filters \subseteq FilterId /\ filters \in [DOMAIN filters -> Filter]
      /\ OnePreset(filters)
  BY PartialMap DEF IInv, TypeOk
<1>2. ASSUME NEW f \in FilterId, NEW c \in Criterion, NEW active \in BOOLEAN,
             \/ AddLogFilter(f, active, c)
             \/ UpdateLogFilter(f, active, c)
      PROVE  IInv'
  <2> DEFINE filter == [preset |-> NoPreset, activate |-> active, criterion |-> c]
  <2>1. filter \in Filter /\ filter.preset = NoPreset /\ Store(f, filter)
    BY <1>2 DEF AddLogFilter, UpdateLogFilter, Filter
  <2> HIDE DEF filter
  <2>2. OnePreset(With(filters, f, filter))
    BY <1>1, <2>1, OnePresetWith
  <2> QED BY <2>1, <2>2, Stored
<1>3. ASSUME NEW f \in FilterId, DeleteLogFilter(f)
      PROVE  IInv'
  BY <1>3, Removed DEF DeleteLogFilter
<1>4. ASSUME NEW name \in Preset, NEW f \in FilterId, NEW c \in Criterion \cup {NoCriterion},
             UpdatePresetLogFilter(name, f, c)
      PROVE  IInv'
  <2>1. ASSUME c # NoCriterion, StoredPreset(name) = {}, f \notin Known,
               Store(f, [preset |-> name, activate |-> TRUE, criterion |-> c])
        PROVE  IInv'
    <3> DEFINE filter == [preset |-> name, activate |-> TRUE, criterion |-> c]
    <3>1. filter \in Filter /\ filter.preset = name /\ Store(f, filter)
      BY <2>1 DEF Filter
    <3> HIDE DEF filter
    <3>2. OnePreset(With(filters, f, filter))
      BY <1>1, <2>1, <3>1, OnePresetWith DEF StoredPreset
    <3> QED BY <3>1, <3>2, Stored
  <2>2. ASSUME c # NoCriterion, NEW g \in StoredPreset(name),
               Store(g, [filters[g] EXCEPT !.criterion = c])
        PROVE  IInv'
    <3> DEFINE filter == [filters[g] EXCEPT !.criterion = c]
    <3>1. g \in DOMAIN filters /\ g \in FilterId
      BY <1>1 DEF StoredPreset
    <3>2. filter \in Filter /\ filter.preset = filters[g].preset /\ Store(g, filter)
      BY <1>1, <2>2, <3>1 DEF Filter
    <3> HIDE DEF filter
    <3>3. OnePreset(With(filters, g, filter))
      BY <1>1, <3>1, <3>2, OnePresetWith DEF OnePreset
    <3> QED BY <3>1, <3>2, <3>3, Stored
  <2>3. ASSUME NEW g \in StoredPreset(name), Remove(g)
        PROVE  IInv'
    BY <2>3, Removed DEF StoredPreset
  <2> QED BY <1>4, <2>1, <2>2, <2>3 DEF UpdatePresetLogFilter
<1> QED BY <1>2, <1>3, <1>4 DEF Edit
LEMMA WentOn == IInv /\ GoOn => IInv'
<1> SUFFICES ASSUME IInv, GoOn, NEW s, s = Head(waiting)
             PROVE  IInv'
  OBVIOUS
<1>1. /\ TypeOk /\ waiting \in Seq(Sync) /\ waiting # << >>
      /\ waiting' = Tail(waiting) /\ Apply(filters, s)
      /\ UNCHANGED <<filters, loaded, disk, restarts>>
      /\ loaded
  BY DEF GoOn, IInv, TypeOk
<1>2. /\ 1 \in DOMAIN waiting /\ s = waiting[1] /\ s \in Sync
      /\ waiting' \in Seq(Sync)
      /\ \A n \in DOMAIN waiting' :
            n \in Nat /\ n + 1 \in DOMAIN waiting /\ waiting'[n] = waiting[n + 1]
      /\ \A n \in DOMAIN waiting : n > 1 => n - 1 \in DOMAIN waiting'
      /\ \A n \in DOMAIN waiting : n \in Nat /\ n >= 1
  BY <1>1
<1>3. ChangedAt(s.id) /\ filters' \in Partial(FilterId, Filter) /\ Apply(filters', s)
  BY <1>1 DEF ChangedAt, Active, TypeOk
<1>4. /\ pipeline' \in Partial(FilterId, Criterion) /\ torn' \subseteq FilterId
      /\ Recorded(s)' => InStep(s.id)'
      /\ \A f \in FilterId \ {s.id} : InStep(f) => InStep(f)'
  BY <1>1, <1>2, <1>3, Applied
<1>5. TypeOk'
  BY <1>1, <1>2, <1>4 DEF TypeOk, Apply
<1>6. LastWordsRecorded'
  <2> SUFFICES ASSUME NEW n \in DOMAIN waiting'
               PROVE  \/ Recorded(waiting[n])'
                      \/ \E m \in DOMAIN waiting' : m > n /\ waiting'[m].id = waiting'[n].id
    BY DEF LastWordsRecorded
  <2>1. n \in Nat /\ n + 1 \in DOMAIN waiting /\ waiting'[n] = waiting[n + 1]
    BY <1>2
  <2>2. CASE Recorded(waiting[n + 1])
    BY <1>1, <2>1, <2>2 DEF Recorded, Active
  <2>3. CASE \E m \in DOMAIN waiting : m > n + 1 /\ waiting[m].id = waiting[n + 1].id
    <3>1. PICK m \in DOMAIN waiting : m > n + 1 /\ waiting[m].id = waiting[n + 1].id
      BY <2>3
    <3>2. m \in Nat /\ m - 1 \in DOMAIN waiting' /\ m - 1 > n /\ (m - 1) + 1 = m
      BY <1>2, <2>1, <3>1
    <3> QED BY <1>2, <2>1, <3>1, <3>2, SMTT(30)
  <2> QED BY <2>1, <2>2, <2>3 DEF IInv, LastWordsRecorded
<1>7. ASSUME NEW f \in FilterId \ Pending'
      PROVE  InStep(f)'
  <2>1. ASSUME NEW n \in DOMAIN waiting, n > 1
        PROVE  waiting[n].id # f
    <3>1. n \in Nat /\ n - 1 \in DOMAIN waiting' /\ (n - 1) + 1 = n
      BY <1>2, <2>1
    <3> QED BY <1>2, <1>7, <3>1 DEF Pending
  <2>2. CASE f = s.id
    <3>1. Recorded(s)
      BY <1>2, <2>1, <2>2 DEF IInv, LastWordsRecorded
    <3>2. Recorded(s)'
      BY <1>1, <3>1 DEF Recorded, Active
    <3> QED BY <1>4, <2>2, <3>2
  <2>3. CASE f # s.id
    <3>1. f \notin Pending
      <4> SUFFICES ASSUME NEW n \in DOMAIN waiting PROVE waiting[n].id # f
        BY DEF Pending
      <4> QED BY <1>2, <2>1, <2>3
    <3> QED BY <1>4, <2>3, <3>1 DEF IInv
  <2> QED BY <2>2, <2>3
<1>8. OnePreset(filters)' /\ OnePreset(disk.filters)'
  BY <1>1 DEF IInv, OnePreset
<1> QED BY <1>1, <1>5, <1>6, <1>7, <1>8 DEF IInv

LEMMA Opened == IInv /\ Open => IInv'
<1> SUFFICES ASSUME IInv, Open PROVE IInv'
  OBVIOUS
<1>1. /\ waiting = << >> /\ pipeline' = View(filters) /\ attached' = TRUE /\ loaded
      /\ UNCHANGED <<filters, loaded, waiting, disk, torn, restarts>>
  BY DEF Open
<1>2. /\ TypeOk /\ filters \in Partial(FilterId, Filter)
      /\ \A f \in FilterId : InStep(f)
  BY <1>1 DEF IInv, TypeOk, Pending
<1>3. /\ View(filters) \in Partial(FilterId, Criterion)
      /\ attached => View(filters) = pipeline
      /\ ~attached => /\ DOMAIN View(filters) = Active(filters)
                      /\ \A f \in Active(filters) :
                            View(filters)[f] = IF f \in DOMAIN pipeline THEN pipeline[f]
                                               ELSE filters[f].criterion
  BY <1>2, Viewed
<1>4. TypeOk'
  BY <1>1, <1>2, <1>3 DEF TypeOk
<1>5. ASSUME NEW f \in FilterId
      PROVE  InStep(f)'
  <2>1. Active(filters)' = Active(filters)
    BY <1>1 DEF Active
  <2> QED BY <1>1, <1>2, <1>3, <2>1 DEF InStep
<1>6. LastWordsRecorded' /\ OnePreset(filters)' /\ OnePreset(disk.filters)'
  BY <1>1 DEF IInv, LastWordsRecorded, OnePreset
<1> QED BY <1>1, <1>4, <1>5, <1>6 DEF IInv

\* Loading and saving change neither record nor pipeline.
LEMMA KeepsFilters ==
  ASSUME IInv, TypeOk', (attached => loaded)', OnePreset(disk.filters)',
         UNCHANGED <<filters, pipeline, attached, waiting, torn>>
  PROVE  IInv'
<1>1. Pending' = Pending /\ Active(filters)' = Active(filters)
  BY DEF Pending, Active
<1>2. LastWordsRecorded' /\ OnePreset(filters)'
  BY <1>1 DEF IInv, LastWordsRecorded, Recorded, OnePreset
<1>3. \A f \in FilterId \ Pending' : InStep(f)'
  BY <1>1 DEF IInv, InStep
<1> QED BY <1>2, <1>3 DEF IInv

LEMMA Restarted == IInv /\ Restart => IInv'
<1> SUFFICES ASSUME IInv, Restart PROVE IInv'
  OBVIOUS
<1>1. /\ filters' = disk.filters /\ pipeline' = disk.pipeline
      /\ loaded' = FALSE /\ attached' = FALSE /\ waiting' = << >> /\ disk' = disk
      /\ torn' = {f \in DOMAIN disk.filters \cap DOMAIN disk.pipeline :
                    disk.filters[f].criterion # disk.pipeline[f]}
      /\ restarts' = restarts + 1 /\ restarts < MaxRestarts
  BY DEF Restart
<1>2. /\ disk.filters \in Partial(FilterId, Filter) /\ DOMAIN disk.filters \subseteq FilterId
      /\ disk.pipeline \in Partial(FilterId, Criterion)
      /\ restarts \in 0 .. MaxRestarts
  BY PartialMap DEF IInv, TypeOk
<1>3. TypeOk'
  <2>1. waiting' \in Seq(Sync) /\ restarts' \in 0 .. MaxRestarts /\ torn' \subseteq FilterId
    BY <1>1, <1>2, BoundAssumption
  <2> QED BY <1>1, <1>2, <2>1 DEF TypeOk
<1>4. LastWordsRecorded' /\ (attached => loaded)'
  BY <1>1 DEF LastWordsRecorded
<1>5. \A f \in FilterId : InStep(f)'
  BY <1>1 DEF InStep, Active
<1>6. OnePreset(filters)' /\ OnePreset(disk.filters)'
  BY <1>1 DEF IInv, OnePreset
<1> QED BY <1>3, <1>4, <1>5, <1>6 DEF IInv

-----------------------------------------------------------------------------
(* The theorems.                                                            *)

\* Every filter that no handler waits for is the same in record and pipeline.
THEOREM Invariant == Spec => []IInv
<1>1. Init => IInv
  BY Initially
<1>2. IInv /\ [Next]_vars => IInv'
  <2> SUFFICES ASSUME IInv, [Next]_vars PROVE IInv'
    OBVIOUS
  <2>1. CASE Edit
    BY <2>1, Edited
  <2>2. CASE GoOn
    BY <2>2, WentOn
  <2>3. CASE Open
    BY <2>3, Opened
  <2>4. CASE Restart
    BY <2>4, Restarted
  <2>5. CASE LoadLog
    <3>1. TypeOk' /\ (attached => loaded)' /\ OnePreset(disk.filters)'
      BY <2>5 DEF LoadLog, IInv, TypeOk, OnePreset
    <3> QED BY <2>5, <3>1, KeepsFilters DEF LoadLog
  <2>6. CASE SaveView
    <3>1. TypeOk' /\ (attached => loaded)'
      BY <2>6 DEF SaveView, IInv, TypeOk
    <3>2. OnePreset(disk.filters)'
      BY <2>6 DEF SaveView, IInv, TypeOk, OnePreset
    <3> QED BY <2>6, <3>1, <3>2, KeepsFilters DEF SaveView
  <2>7. CASE SaveLog
    <3>1. TypeOk' /\ (attached => loaded)'
      BY <2>7 DEF SaveLog, IInv, TypeOk
    <3>2. OnePreset(disk.filters)'
      BY <2>7 DEF SaveLog, IInv, TypeOk, OnePreset
    <3> QED BY <2>7, <3>1, <3>2, KeepsFilters DEF SaveLog
  <2>8. CASE UNCHANGED vars
    <3>1. TypeOk' /\ (attached => loaded)' /\ OnePreset(disk.filters)'
      BY <2>8 DEF vars, IInv, TypeOk, OnePreset
    <3> QED BY <2>8, <3>1, KeepsFilters DEF vars
  <2> QED BY <2>1, <2>2, <2>3, <2>4, <2>5, <2>6, <2>7, <2>8 DEF Next
<1> QED BY <1>1, <1>2, PTL DEF Spec

\* Every variable keeps its type.
THEOREM TypeCorrect == Spec => []TypeOk
<1>1. IInv => TypeOk
  BY DEF IInv
<1> QED BY <1>1, Invariant, PTL

LEMMA ActiveFollows == IInv => ActiveFiltersNarrow
<1> SUFFICES ASSUME IInv, attached, waiting = << >>
             PROVE  DOMAIN pipeline = Active(filters)
  BY DEF ActiveFiltersNarrow
<1>1. DOMAIN pipeline \subseteq FilterId /\ Active(filters) \subseteq FilterId
  BY PartialMap DEF IInv, TypeOk, Active
<1>2. ASSUME NEW f \in FilterId
      PROVE  f \in DOMAIN pipeline <=> f \in Active(filters)
  <2>1. InStep(f)
    BY DEF IInv, Pending
  <2> QED BY <2>1 DEF InStep
<1> QED BY <1>1, <1>2

LEMMA EditsFollow == IInv => EditsReachTheList
<1> SUFFICES ASSUME IInv, attached, waiting = << >>, NEW f \in DOMAIN pipeline
             PROVE  f \in torn \/ pipeline[f] = filters[f].criterion
  BY DEF EditsReachTheList
<1>1. f \in FilterId
  BY PartialMap DEF IInv, TypeOk
<1>2. InStep(f)
  BY <1>1 DEF IInv, Pending
<1> QED BY <1>2 DEF InStep

\* The list is narrowed by the active filters and by no others, however many
\* handlers waited and whatever the files held.
THEOREM ActiveOnesNarrow == Spec => []ActiveFiltersNarrow
BY ActiveFollows, Invariant, PTL

\* The last edit of a filter is what narrows the list, unless the two files
\* disagreed about that filter and nobody has edited it since.
THEOREM LastEditNarrows == Spec => []EditsReachTheList
BY EditsFollow, Invariant, PTL

\* No sequence of edits and restarts stores a preset under two ids.
THEOREM PresetsAreSingle == Spec => []OnePresetEach
<1>1. IInv => OnePresetEach
  BY DEF IInv, OnePreset, OnePresetEach
<1> QED BY <1>1, Invariant, PTL

-----------------------------------------------------------------------------
\* The IPC handlers of the desktop build keep a LogView too.
THEOREM DesktopImplements == BothSpec => Spec
<1>1. IpcNext => Next
  BY DEF IpcNext, IpcEdit, Next, Edit, IpcAddLogFilter, IpcUpdateLogFilter,
         IpcDeleteLogFilter, IpcUpdatePresetLogFilter, IpcOpen, IpcLoadLog, IpcGoOn
<1>2. [Next \/ IpcNext]_vars => [Next]_vars
  BY <1>1
<1> QED BY <1>2, PTL DEF BothSpec, Spec

-----------------------------------------------------------------------------
(* The queries.                                                             *)

\* What the active filters of the record leave is what the pipeline leaves.
LEMMA RecordShowsTheList ==
  ASSUME IInv, attached, waiting = << >>, torn = {}
  PROVE  /\ List = {l \in Log : \A f \in Active(filters) : Matches(l, filters[f].criterion)}
         /\ \A f \in Active(filters) : f \in DOMAIN filters /\ filters[f].criterion \in Criterion
<1>1. DOMAIN pipeline = Active(filters)
  BY ActiveFollows DEF ActiveFiltersNarrow
<1>2. \A f \in DOMAIN pipeline : pipeline[f] = filters[f].criterion
  BY EditsFollow DEF EditsReachTheList
<1>3. \A f \in Active(filters) : f \in DOMAIN filters /\ filters[f].criterion \in Criterion
  <2>1. filters \in [DOMAIN filters -> Filter]
    BY PartialMap DEF IInv, TypeOk
  <2> QED BY <2>1 DEF Active, Filter
<1> QED BY <1>1, <1>2, <1>3 DEF List

\* A filter without dates whose name is plain is asked as it is shown.
LEMMA AskedAsShown ==
  ASSUME NEW c \in Criterion, c.property \notin {""} \cup Unsendable \cup DOMAIN TrimOf,
         c.property \in TimeProperties =>
            \A v \in Values(c) :
                IsText(v) /\ v.text \in DOMAIN TimeOf => Trim(v.text) \in Digits \cup Signed
  PROVE  \A l \in Log : Matches(l, Asked(c)) <=> Matches(l, c)
<1>1. Trim(c.property) = c.property
  BY DEF Trim
<1>2. \A v \in Values(c) : Normalized(c.property, v) = v
  BY DEF Normalized
<1>3. CASE c.condition \in {"IN", "FAMILY"}
  <2>1. {Normalized(c.property, v) : v \in c.value} = c.value
    BY <1>2, <1>3 DEF Values
  <2>2. /\ Asked(c).property = c.property /\ Asked(c).condition = c.condition
        /\ Asked(c).value = c.value
    BY <1>1, <1>3, <2>1 DEF Asked
  <2> QED BY <2>2 DEF Matches
<1>4. CASE c.condition \notin {"IN", "FAMILY"}
  <2>1. Normalized(c.property, c.value) = c.value
    BY <1>2, <1>4 DEF Values
  <2>2. /\ Asked(c).property = c.property /\ Asked(c).condition = c.condition
        /\ Asked(c).value = c.value
    BY <1>1, <1>4, <2>1 DEF Asked
  <2> QED BY <2>2 DEF Matches
<1> QED BY <1>3, <1>4

\* A client that sends the filters it is shown gets the list, if a query can
\* repeat them.
LEMMA FiltersAnswer ==
  ASSUME IInv, attached, waiting = << >>, torn = {}, FewFilters, PlainNames, NoDates
  PROVE  /\ QueryByFilters(Sent, NoMax, PageSize) = RunLogQuery(List, NoMax, PageSize)
         /\ IpcQueryByFilters(Sent, NoMax, PageSize) = RunLogQuery(List, NoMax, PageSize)
<1> DEFINE S(f) == [id |-> f,
                    type |-> IF filters[f].preset = NoPreset
                             THEN "SIMPLE_FILTER" ELSE "PRESET_FILTER",
                    activate |-> filters[f].activate, criterion |-> filters[f].criterion]
<1>1. Sent = {S(f) : f \in DOMAIN filters}
  BY DEF Sent
<1>2. \A f \in DOMAIN filters :
        /\ S(f).activate = filters[f].activate /\ S(f).criterion = filters[f].criterion
        /\ S(f).type \in {"SIMPLE_FILTER", "PRESET_FILTER"}
  OBVIOUS
<1> HIDE DEF S
<1>3. ~(PageSize < 1)
  BY QueryAssumption
<1>4. \A f \in DOMAIN filters : filters[f].criterion \in Criterion
  <2>1. filters \in [DOMAIN filters -> Filter]
    BY PartialMap DEF IInv, TypeOk
  <2> QED BY <2>1 DEF Filter
<1>5. ASSUME NEW s \in Sent PROVE Translatable(s)
  <2>1. PICK f \in DOMAIN filters : s = S(f)
    BY <1>1
  <2>2. PICK c \in Criterion : c = filters[f].criterion
    BY <1>4
  <2>3. c.condition \in Conditions /\ None \notin Values(c)
    BY QueryAssumption
  <2>4. Trim(c.property) \notin {""} \cup Unsendable
    BY <2>2 DEF PlainNames, Trim
  <2>5. s.criterion = c /\ s.type \in {"SIMPLE_FILTER", "PRESET_FILTER"}
    BY <1>2, <2>1, <2>2
  <2> QED BY <2>3, <2>4, <2>5 DEF Translatable
<1>6. FilterQuery(Sent) = List
  <2>1. \A f \in Active(filters) :
          \A l \in Log : Matches(l, Asked(filters[f].criterion)) <=> Matches(l, filters[f].criterion)
    <3> TAKE f \in Active(filters)
    <3>1. PICK c \in Criterion : c = filters[f].criterion
      BY <1>4 DEF Active
    <3>2. c.property \notin {""} \cup Unsendable \cup DOMAIN TrimOf
      BY <3>1 DEF PlainNames, Active
    <3>3. c.property \in TimeProperties =>
            \A v \in Values(c) :
                IsText(v) /\ v.text \in DOMAIN TimeOf => Trim(v.text) \in Digits \cup Signed
      BY <3>1 DEF NoDates
    <3>4. \A l \in Log : Matches(l, Asked(c)) <=> Matches(l, c)
      BY <3>2, <3>3, AskedAsShown
    <3> QED BY <3>1, <3>4
  <2>2. Active(filters) = {f \in DOMAIN filters : filters[f].activate}
    BY DEF Active
  <2>3. \A l \in Log :
          (\A s \in Sent : s.activate => Matches(l, Asked(s.criterion)))
            <=> \A f \in Active(filters) : Matches(l, Asked(filters[f].criterion))
    BY <1>1, <1>2, <2>2
  <2> QED BY <2>1, <2>3, RecordShowsTheList DEF FilterQuery
<1>7. IpcFilterQuery(Sent) = FilterQuery(Sent)
  BY DEF IpcFilterQuery, FilterQuery, IpcMatches, IpcAsked
<1>8. QueryByFilters(Sent, NoMax, PageSize) = RunLogQuery(FilterQuery(Sent), NoMax, PageSize)
  BY <1>3, <1>5 DEF QueryByFilters, FewFilters
<1>9. IpcQueryByFilters(Sent, NoMax, PageSize) = RunLogQuery(IpcFilterQuery(Sent), NoMax, PageSize)
  BY <1>3, <1>5 DEF IpcQueryByFilters, IpcTranslatable, IpcRunLogQuery, FewFilters
<1> QED BY <1>6, <1>7, <1>8, <1>9

\* The values asked for of a property are those of its one filter, if it has one.
LEMMA ValuesOfOne ==
  ASSUME NEW p, NEW c,
         \A f, g \in Active(filters) :
            filters[f].criterion.property = p /\ filters[g].criterion.property = p => f = g,
         \A f \in Active(filters) :
            filters[f].criterion.property = p => filters[f].criterion.condition = c
  PROVE  /\ \A f \in Active(filters) :
              filters[f].criterion.property = p => ValuesOf(p, c) = filters[f].criterion.value
         /\ (\A f \in Active(filters) : filters[f].criterion.property # p) => ValuesOf(p, c) = {}
<1>1. ASSUME NEW f \in Active(filters), filters[f].criterion.property = p
      PROVE  ValuesOf(p, c) = filters[f].criterion.value
  <2>1. {g \in Active(filters) : /\ filters[g].criterion.property = p
                                 /\ filters[g].criterion.condition = c} = {f}
    BY <1>1
  <2> QED BY <2>1 DEF ValuesOf
<1>2. ASSUME \A f \in Active(filters) : filters[f].criterion.property # p
      PROVE  ValuesOf(p, c) = {}
  BY <1>2 DEF ValuesOf
<1> QED BY <1>1, <1>2

\* What a parameter can state reaches the query as it is.
LEMMA StatedIsRead ==
  ASSUME NEW p, NEW V, \A v \in V : Stated(p, v)
  PROVE  /\ QueryValues({v.text : v \in V}) = {v.text : v \in V}
         /\ p = "req.method" => {Upper(t) : t \in {v.text : v \in V}} = {v.text : v \in V}
         /\ \A v \in V : v = Text(v.text)
         /\ {Text(t) : t \in {v.text : v \in V}} = V
<1> DEFINE texts == {v.text : v \in V}
<1>1. \A t \in texts : t # "" /\ t \notin DOMAIN TrimOf
  BY DEF Stated
<1>2. p = "req.method" => \A t \in texts : t \notin DOMAIN UpperOf
  BY DEF Stated
<1>3. \A v \in V : v = Text(v.text)
  <2> TAKE v \in V
  <2>1. v \in [text : STRING]
    BY DEF Stated
  <2>2. v = [text |-> v.text]
    BY <2>1
  <2> QED BY <2>2 DEF Text
<1>4. {Text(t) : t \in texts} = V
  BY <1>3
<1> HIDE DEF texts
<1>5. \A t \in texts : Trim(t) = t
  BY <1>1 DEF Trim
<1>6. QueryValues(texts) = texts
  BY <1>1, <1>5 DEF QueryValues
<1>7. p = "req.method" => \A t \in texts : Upper(t) = t
  BY <1>2 DEF Upper
<1>8. p = "req.method" => {Upper(t) : t \in texts} = texts
  BY <1>7
<1> QED BY <1>3, <1>4, <1>6, <1>8 DEF texts

\* A method is a text: one of several is what $in finds.
LEMMA MethodIsAmong ==
  ASSUME NEW l \in Log, NEW V, \A v \in V : Stated("req.method", v)
  PROVE  Holds(Field(l, "req.method"), "IN", V)
           <=> \E t \in {v.text : v \in V} : Field(l, "req.method") = Text(t)
<1> DEFINE m == Field(l, "req.method")
<1>1. DOMAIN m = {"text"}
  BY QueryAssumption DEF IsText
<1>2. \A v \in V : v = Text(v.text)
  BY StatedIsRead
<1> HIDE DEF m
<1>3. \A n : m # Num(n)
  BY <1>1 DEF Num
<1>4. \A v \in V : Exactly(m, v) <=> m = v
  BY <1>3 DEF Exactly
<1>5. Holds(m, "IN", V) <=> \E v \in V : m = v
  BY <1>4 DEF Holds
<1>6. (\E v \in V : m = v) <=> \E t \in {v.text : v \in V} : m = Text(t)
  BY <1>2
<1> QED BY <1>5, <1>6 DEF m

\* A client that states presets as parameters gets it too.
LEMMA ParametersAnswer ==
  ASSUME IInv, attached, waiting = << >>, torn = {}, ByParameters
  PROVE  /\ QueryLogs(Parameters, NoMax, PageSize) = RunLogQuery(List, NoMax, PageSize)
         /\ IpcQueryLogs(Parameters, NoMax, PageSize) = RunLogQuery(List, NoMax, PageSize)
<1> DEFINE M == ValuesOf("req.method", "IN")
           S == ValuesOf("res.status", "FAMILY")
           methods == {v.text : v \in M}
           codes == {v.text : v \in S}
           C(f) == filters[f].criterion
           Narrowed(l) == /\ M = {} \/ Holds(Field(l, "req.method"), "IN", M)
                          /\ S = {} \/ Holds(Field(l, "res.status"), "FAMILY", S)
<1>1. \A f \in Active(filters) :
        /\ \/ C(f).property = "req.method" /\ C(f).condition = "IN"
           \/ C(f).property = "res.status" /\ C(f).condition = "FAMILY"
        /\ C(f).value # {}
        /\ \A v \in C(f).value : Stated(C(f).property, v)
  BY DEF ByParameters
<1>2. \A f, g \in Active(filters) : C(f).property = C(g).property => f = g
  BY DEF ByParameters
<1>3. /\ \A f \in Active(filters) : C(f).property = "req.method" => M = C(f).value
      /\ (\A f \in Active(filters) : C(f).property # "req.method") => M = {}
  BY <1>1, <1>2, ValuesOfOne
<1>4. /\ \A f \in Active(filters) : C(f).property = "res.status" => S = C(f).value
      /\ (\A f \in Active(filters) : C(f).property # "res.status") => S = {}
  BY <1>1, <1>2, ValuesOfOne
<1>5. /\ Parameters.method = methods /\ Parameters.status = codes
      /\ Parameters.path = {} /\ Parameters.pathContains = {} /\ Parameters.expectationId = {}
      /\ Parameters.since = {} /\ Parameters.until = {}
  BY DEF Parameters
<1> HIDE DEF M, S
<1>6. \A v \in M : Stated("req.method", v)
  BY <1>1, <1>3
<1>7. \A v \in S : Stated("res.status", v)
  BY <1>1, <1>4
<1>8. QueryValues(methods) = methods /\ {Upper(t) : t \in methods} = methods
  BY <1>6, StatedIsRead
<1>9. QueryValues(codes) = codes /\ {Text(t) : t \in codes} = S
  BY <1>7, StatedIsRead
<1>10. \A t \in codes : QueryStatus(t)
  BY <1>7 DEF Stated
<1>11. /\ methods = {} <=> M = {}
       /\ codes = {} <=> S = {}
  OBVIOUS
<1>12. \A l \in Log : Holds(Field(l, "req.method"), "IN", M)
         <=> \E t \in methods : Field(l, "req.method") = Text(t)
  BY <1>6, MethodIsAmong
<1> HIDE DEF methods, codes
<1>13. QueryValues({}) = {}
  BY DEF QueryValues
<1>14. ASSUME NEW l \in Log
       PROVE  Narrowed(l) <=> \A f \in Active(filters) : Matches(l, C(f))
  <2>1. ASSUME NEW f \in Active(filters), C(f).property = "req.method"
        PROVE  Matches(l, C(f)) <=> M = {} \/ Holds(Field(l, "req.method"), "IN", M)
    BY <1>1, <1>3, <2>1 DEF Matches
  <2>2. ASSUME NEW f \in Active(filters), C(f).property = "res.status"
        PROVE  Matches(l, C(f)) <=> S = {} \/ Holds(Field(l, "res.status"), "FAMILY", S)
    BY <1>1, <1>4, <2>2 DEF Matches
  <2> HIDE DEF C
  <2> QED BY <1>1, <1>3, <1>4, <2>1, <2>2
<1>15. ASSUME NEW l \in Log
       PROVE  l \in LogQueryFilter(Parameters) <=> Narrowed(l)
  <2>1. AmongTexts(Field(l, "req.method"), methods)
          <=> M = {} \/ Holds(Field(l, "req.method"), "IN", M)
    BY <1>11, <1>12 DEF AmongTexts
  <2>2. \A x : AmongTexts(x, {})
    BY DEF AmongTexts
  <2> QED BY <1>5, <1>8, <1>9, <1>11, <1>13, <2>1, <2>2 DEF LogQueryFilter
<1>16. LogQueryFilter(Parameters) = List
  BY <1>14, <1>15, RecordShowsTheList DEF LogQueryFilter
<1>17. ~(PageSize < 1)
  BY QueryAssumption
<1>18. SingleTime({})
  BY <1>13 DEF SingleTime
<1>19. ~\E t \in QueryValues(Parameters.status) : ~QueryStatus(t)
  BY <1>5, <1>9, <1>10
<1> QED
  BY <1>5, <1>16, <1>17, <1>18, <1>19
  DEF QueryLogs, IpcQueryLogs, IpcRunLogQuery, IpcLogQueryFilter, IpcQueryStatus, IpcSingleTime

\* logController.ts: whatever edits, restarts and waiting handlers have made of
\* the view, filters sent as they are shown, or presets stated as parameters,
\* are answered with the page of the list that the dashboard shows; except when
\* there are too many filters, or some have names that are trimmed or refused,
\* or dates for times, which a query reads and the list does not.
THEOREM QueriesAgreeWithTheView == BothSpec => []QueriesShowTheList
<1>1. IInv => QueriesShowTheList
  <2>1. CASE attached /\ waiting = << >> /\ torn = {}
    BY <2>1, FiltersAnswer, ParametersAnswer DEF QueriesShowTheList
  <2>2. CASE ~(attached /\ waiting = << >> /\ torn = {})
    BY <2>2 DEF QueriesShowTheList
  <2> QED BY <2>1, <2>2
<1> QED BY <1>1, DesktopImplements, Invariant, PTL
=============================================================================
