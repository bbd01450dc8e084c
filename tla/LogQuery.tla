------------------------------ MODULE LogQuery ------------------------------
(***************************************************************************)
(* The queries of the request log (logController.ts): filters in the shape *)
(* of a view's, or parameters, over the logs of a project, answered page   *)
(* by page.  A query reads the collection, never the saved view.  Here the *)
(* collection stands still; LogPage has pages of a changing one.           *)
(***************************************************************************)
EXTENDS LogView, LogFilter, FiniteSets

CONSTANTS
    Log,            \* the stored logs: an id and their properties
    PageSize,       \* QUERY_PAGE_SIZE
    MaxFilters,     \* MAX_QUERY_FILTERS
    NoMax,          \* no maximal id
    \* How texts read:
    Digits,         \* those of digits only
    Signed,         \* those of a minus sign and digits
    TimeOf,         \* those Date.parse can read, and their times
    TrimOf,         \* those with blanks around them, and what trim() leaves
    UpperOf,        \* those toUpperCase changes, and what it makes of them
    Unsendable      \* names of properties that start with $ or are too long

TimeProperties == {"req.requestTime", "res.responseTime"}
Conditions == {"EQUAL", "NOT_EQUAL", "CONTAINS", "GREATER", "LESS", "IN", "FAMILY"}

\* A filter holds one value, with IN and FAMILY several.
Values(c) == IF c.condition \in {"IN", "FAMILY"} THEN c.value ELSE {c.value}

\* What a filter asks, as the dashboard and the MCP server compose it; and
\* every log has the method of its request.
ASSUME QueryAssumption ==
    /\ PageSize \in Nat \ {0}
    /\ Digits \cup Signed \subseteq DOMAIN NumberOf
    /\ \A c \in Criterion :
          /\ DOMAIN c = {"property", "condition", "value"}
          /\ c.condition \in Conditions /\ None \notin Values(c)
    /\ \A l \in Log : IsText(Field(l, "req.method"))

Trim(t) == IF t \in DOMAIN TrimOf THEN TrimOf[t] ELSE t
Upper(t) == IF t \in DOMAIN UpperOf THEN UpperOf[t] ELSE t

-----------------------------------------------------------------------------
(* Answers.                                                                 *)

NewestFirst(logs) ==
    [n \in 1 .. Cardinality(logs) |->
        CHOOSE l \in logs : Cardinality({k \in logs : k.id >= l.id}) = n]

Refused == [logs |-> << >>, hasMore |-> FALSE, status |-> 400]

\* queryLimit: a positive integer, cut to the page size.
Limit(n) == IF n > PageSize THEN PageSize ELSE n

\* runLogQuery: one more is read than is shown.
RunLogQuery(logs, max, limit) ==
    LET found == NewestFirst({l \in logs : max = NoMax \/ l.id < max})
        more == Len(found) > Limit(limit)
    IN  [logs |-> IF more THEN SubSeq(found, 1, Limit(limit)) ELSE found,
         hasMore |-> more, status |-> 200]

-----------------------------------------------------------------------------
(* buildFilterQuery.                                                        *)

\* Refusals, of filters that are not active too.  A type that is absent is
\* SIMPLE_FILTER.
Translatable(f) ==
    /\ f.type \in {"SIMPLE_FILTER", "PRESET_FILTER"}
    /\ f.criterion.condition \in Conditions
    /\ Trim(f.criterion.property) \notin {""} \cup Unsendable
    /\ None \notin Values(f.criterion)

\* normalizeFilterValue: times are numbers in a log, and may be dates in a query.
Normalized(property, v) ==
    IF /\ property \in TimeProperties
       /\ IsText(v) /\ v.text \in DOMAIN TimeOf /\ Trim(v.text) \notin Digits \cup Signed
    THEN Num(TimeOf[v.text]) ELSE v

\* What a query asks of a log for a filter.
Asked(c) ==
    LET property == Trim(c.property)
    IN  [property |-> property, condition |-> c.condition,
         value |-> IF c.condition \in {"IN", "FAMILY"}
                   THEN {Normalized(property, v) : v \in c.value}
                   ELSE Normalized(property, c.value)]

\* Variant: whether a filter is active is not looked at.
FilterQueryAll(sent) == {l \in Log : \A f \in sent : Matches(l, Asked(f.criterion))}

FilterQuery(sent) ==
    {l \in Log : \A f \in sent : f.activate => Matches(l, Asked(f.criterion))}

QueryByFilters(sent, max, limit) ==
    IF \/ limit < 1 \/ Cardinality(sent) > MaxFilters
       \/ \E f \in sent : ~Translatable(f)
    THEN Refused
    ELSE RunLogQuery(FilterQuery(sent), max, limit)

-----------------------------------------------------------------------------
(* logQueryFilter.  A parameter is a set of texts; one that is not given is *)
(* the empty set.                                                           *)

QueryValues(texts) == {Trim(t) : t \in texts} \ {""}

\* queryStatuses: a code or a family.
QueryStatus(t) == t \in DOMAIN FamilyOf \/ (t \in Digits /\ NumberOf[t] \in 0 .. 999)

\* queryTime: a number, or a date.
IsTime(t) == t \in Digits \cup Signed \cup DOMAIN TimeOf
QueryTime(t) == IF t \in Digits \cup Signed THEN NumberOf[t] ELSE TimeOf[t]

\* A parameter that may only appear once.
SingleTime(texts) ==
    /\ \A t, u \in texts : t = u
    /\ \A t \in QueryValues(texts) : IsTime(t)

\* $in, where a parameter without values asks for nothing.
AmongTexts(v, texts) == texts = {} \/ \E t \in texts : v = Text(t)

LogQueryFilter(q) ==
    {l \in Log :
        /\ AmongTexts(Field(l, "req.method"), {Upper(t) : t \in QueryValues(q.method)})
        /\ AmongTexts(Field(l, "req.path"), QueryValues(q.path))
        /\ \/ QueryValues(q.pathContains) = {}
           \/ \E t \in QueryValues(q.pathContains) :
                 Holds(Field(l, "req.path"), "CONTAINS", Text(t))
        /\ \/ QueryValues(q.status) = {}
           \/ Holds(Field(l, "res.status"), "FAMILY", {Text(t) : t \in QueryValues(q.status)})
        /\ AmongTexts(Field(l, "expectationId"), QueryValues(q.expectationId))
        /\ \A t \in QueryValues(q.since) :
              ~Gt(Num(QueryTime(t)), Field(l, "req.requestTime"))
        /\ \A t \in QueryValues(q.until) :
              Gt(Num(QueryTime(t)), Field(l, "req.requestTime"))}

QueryLogs(q, max, limit) ==
    IF \/ limit < 1 \/ ~SingleTime(q.since) \/ ~SingleTime(q.until)
       \/ \E t \in QueryValues(q.status) : ~QueryStatus(t)
    THEN Refused
    ELSE RunLogQuery(LogQueryFilter(q), max, limit)

\* Every page in turn, as an MCP client asks for them.
AllPages(logs, limit) ==
    LET from[max \in {NoMax} \cup {l.id : l \in Log}] ==
            LET page == RunLogQuery(logs, max, limit)
            IN  IF page.hasMore
                THEN page.logs \o from[page.logs[Len(page.logs)].id]
                ELSE page.logs
    IN  from[NoMax]

-----------------------------------------------------------------------------
(* The view and a client that asks for what it shows.                       *)

\* What the dynamic view contains.
List == {l \in Log : \A f \in DOMAIN pipeline : Matches(l, pipeline[f])}

\* The filters as the log view lists them.
Sent ==
    {[id |-> f,
      type |-> IF filters[f].preset = NoPreset THEN "SIMPLE_FILTER" ELSE "PRESET_FILTER",
      activate |-> filters[f].activate, criterion |-> filters[f].criterion] :
        f \in DOMAIN filters}

\* Three things a view can hold and a query cannot repeat: more filters than a
\* query may have, a name that is refused or trimmed, and a time written as a
\* date, which narrows the list as a text.
FewFilters == ~(Cardinality(Sent) > MaxFilters)
PlainNames ==
    \A f \in DOMAIN filters :
        filters[f].criterion.property \notin {""} \cup Unsendable \cup DOMAIN TrimOf
NoDates ==
    \A f \in Active(filters) :
        filters[f].criterion.property \in TimeProperties =>
            \A v \in Values(filters[f].criterion) :
                IsText(v) /\ v.text \in DOMAIN TimeOf => Trim(v.text) \in Digits \cup Signed

\* The values that the active filters of a property ask for.
ValuesOf(property, condition) ==
    UNION {filters[f].criterion.value : f \in
        {g \in Active(filters) : /\ filters[g].criterion.property = property
                                 /\ filters[g].criterion.condition = condition}}

\* Parameters are as good as filters if each property has one filter, with the
\* condition of its preset and values that a parameter can have.
Stated(property, v) ==
    /\ v \in [text : STRING]
    /\ v.text # "" /\ v.text \notin DOMAIN TrimOf
    /\ property = "req.method" => v.text \notin DOMAIN UpperOf
    /\ property = "res.status" => QueryStatus(v.text)

ByParameters ==
    /\ \A f \in Active(filters) :
          <<filters[f].criterion.property, filters[f].criterion.condition>> \in
              {<<"req.method", "IN">>, <<"res.status", "FAMILY">>}
    /\ \A f \in Active(filters) :
          /\ filters[f].criterion.value # {}
          /\ \A v \in filters[f].criterion.value : Stated(filters[f].criterion.property, v)
    /\ \A f, g \in Active(filters) :
          filters[f].criterion.property = filters[g].criterion.property => f = g

Parameters ==
    [method |-> {v.text : v \in ValuesOf("req.method", "IN")},
     status |-> {v.text : v \in ValuesOf("res.status", "FAMILY")},
     path |-> {}, pathContains |-> {}, expectationId |-> {}, since |-> {}, until |-> {}]
=============================================================================
