----------------------------- MODULE MCLogView -----------------------------
(* Instances of DesktopLogView for TLC. *)
EXTENDS DesktopLogView, TLC

Ids == Permutations(FilterId)

Numbers ==
    "" :> 0 @@ "2" :> 2 @@ "200" :> 200 @@ "404" :> 404 @@ "1000" :> 1000
    @@ "-5" :> -5 @@ "1e2" :> 100
Wholes == {"2", "200", "404", "1000"}
Negatives == {"-5"}
Noon == "1970-01-01T00:00:00.002Z"
Times == Noon :> 2
Blanks == " " :> "" @@ " GET " :> "GET" @@ " req.method " :> "req.method"
Uppers == "get" :> "GET"
Families == "2xx" :> 2 @@ "4xx" :> 4
InsidePairs == {<<"/a/b", "/a">>, <<"/a/b", "/a/b">>, <<"/a", "/a">>}

LogOf(id, method, path, status) ==
    [id |-> id] @@
    ("req.method" :> Text(method) @@ "req.path" :> Text(path)
     @@ "res.status" :> status @@ "expectationId" :> Text("e")
     @@ "req.requestTime" :> Num(id))

\* Answered, refused and not yet answered ones.
Logs ==
    {LogOf(1, "GET", "/a", Num(200)), LogOf(2, "POST", "/a/b", Num(299)),
     LogOf(3, "GET", "/a/b", Num(404)), LogOf(4, "GET", "/a", None)}

Asks(property, condition, value) ==
    [property |-> property, condition |-> condition, value |-> value]

Criteria ==
    {Asks("req.method", "IN", {Text("GET")}),
     Asks("res.status", "FAMILY", {Text("2xx"), Text("404")}),
     Asks("req.requestTime", "GREATER", Text(Noon))}

\* The values filters are made with in the dashboard are texts.
Typed == {Text(t) : t \in {"", "200", "404", "GET", "/a", "2xx"}}
Found == {None, Text("GET"), Text("/a"), Text("200"), Num(0), Num(200), Num(299), Num(404)}

\* The conditions agree with each other: NOT_EQUAL is the opposite of EQUAL,
\* IN asks for one of several, GREATER and LESS exclude each other, and a
\* family is what has its first digit.
ASSUME ConditionsAgree ==
    \A p \in Found, v \in Typed :
        /\ Holds(p, "NOT_EQUAL", v) <=> ~Holds(p, "EQUAL", v)
        /\ Holds(p, "IN", {v}) <=> Holds(p, "EQUAL", v)
        /\ ~(Holds(p, "GREATER", v) /\ Holds(p, "LESS", v))
        /\ v # Text("2xx") => (Holds(p, "FAMILY", {v}) <=> Holds(p, "IN", {v}))
        /\ Holds(p, "FAMILY", {Text("2xx")}) <=>
              IsNumberString(p) /\ Number(p) \div 100 = 2

\* Whatever the limit, the pages together are the answer.
ASSUME PagesAreComplete ==
    \A logs \in SUBSET Logs, limit \in 1 .. PageSize + 1 :
        AllPages(logs, limit) = NewestFirst(logs)

\* The parameters of a query narrow independently, blanks and the case of a
\* method do not count; time is a half-open range.
Query == [method |-> {}, path |-> {}, pathContains |-> {}, status |-> {},
          expectationId |-> {}, since |-> {}, until |-> {}]
IdsOf(q) == {l.id : l \in LogQueryFilter(q)}
ASSUME ParametersNarrow ==
    /\ IdsOf(Query) = {1, 2, 3, 4}
    /\ IdsOf([Query EXCEPT !.path = {"/a", " "}]) = {1, 4}
    /\ IdsOf([Query EXCEPT !.pathContains = {"/a/b", "/c"}]) = {2, 3}
    /\ IdsOf([Query EXCEPT !.since = {"2"}, !.until = {"404"}]) = {2, 3, 4}
    /\ IdsOf([Query EXCEPT !.until = {Noon}, !.method = {" "}]) = {1}
    /\ \A m \in {"GET", "get", " GET "} :
          IdsOf([Query EXCEPT !.method = {m}, !.status = {"2xx"}]) = {1}
    /\ \A t \in {"9xx", "1e2", "-5", "1000"} :
          QueryLogs([Query EXCEPT !.status = {t}], NoMax, 1) = Refused
    /\ QueryLogs([Query EXCEPT !.status = {" "}], NoMax, 1) = QueryLogs(Query, NoMax, 1)
    /\ QueryLogs([Query EXCEPT !.since = {"GET"}], NoMax, 1) = Refused
    /\ QueryLogs([Query EXCEPT !.since = {"2", Noon}], NoMax, 1) = Refused
    /\ QueryLogs(Query, NoMax, 0) = Refused

\* A filter is read anew: its name is trimmed, its date becomes a number (in
\* the pipeline it stays a text, which no number exceeds), and what cannot be
\* read is refused although it is not active.
SentOf(id, active, c) == [id |-> id, type |-> "SIMPLE_FILTER", activate |-> active, criterion |-> c]
AnswerOf(sent) == QueryByFilters(sent, NoMax, 4)
ASSUME FiltersAreRead ==
    LET methods == Asks("req.method", "EQUAL", Text("GET"))
        dates == Asks("req.requestTime", "GREATER", Text(Noon))
    IN  /\ {l.id : l \in FilterQuery({SentOf(1, TRUE, dates)})} = {3, 4}
        /\ {l \in Log : Matches(l, dates)} = {}
        /\ AnswerOf({SentOf(1, TRUE, [methods EXCEPT !.property = " req.method "])})
              = AnswerOf({SentOf(1, TRUE, methods)})
        /\ \A c \in {[methods EXCEPT !.property = "$or"], [methods EXCEPT !.property = " "],
                      [methods EXCEPT !.condition = "LIKE"], [methods EXCEPT !.value = None]} :
              AnswerOf({SentOf(1, FALSE, c)}) = Refused
        /\ AnswerOf({[SentOf(1, TRUE, methods) EXCEPT !.type = "GROUP_FILTER"]}) = Refused
        /\ AnswerOf({SentOf(n, TRUE, methods) : n \in 1 .. MaxFilters + 1}) = Refused
=============================================================================
