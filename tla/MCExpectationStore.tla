------------------------- MODULE MCExpectationStore -------------------------
(* Instances of ExpectationStore, and of the parsers of imported files. *)
EXTENDS DesktopExpectationStore, ImportParsers, TLC

\* An older and a newer document of one priority, and an old one above both.
ThreeRanks == {<<0, 1>>, <<0, 2>>, <<1, 1>>}

-----------------------------------------------------------------------------
(* Files.                                                                   *)

Lit(t) == [text |-> t, param |-> FALSE]
Par(t) == [text |-> t, param |-> TRUE]

NoSchema == [kind |-> "none"]
Ref(name) == [kind |-> "ref", to |-> name]
Media(type, example, schema) ==
    [type |-> type, isJson |-> type # "text/plain", examples |-> << >>,
     example |-> example, schema |-> schema]

\* A list that refers to itself, and the sample made of it.
Schemas ==
    "list" :> [kind |-> "allOf", parts |-> <<Ref("node"), Ref("gone")>>] @@
    "node" :> [kind |-> "object",
               properties |-> "n" :> [kind |-> "scalar", text |-> "1"] @@
                              "next" :> [kind |-> "oneOf", parts |-> <<Ref("list")>>]]
One == Obj("n" :> Scalar("1") @@ "next" :> EmptyObject)
Two == Obj("n" :> Scalar("2") @@ "next" :> EmptyObject)

\* The error that is documented first is not what a mock answers, and neither
\* is a medium of which nothing is known.
Sampled ==
    <<[code |-> 4, content |-> <<Media("application/json", Two, NoSchema)>>],
      [code |-> Default, content |-> << >>],
      [code |-> 200,
       content |-> <<Media("text/plain", NoValue, NoSchema),
                     Media("application/hal+json", NoValue, Ref("list"))>>]>>
Answer(value) ==
    IF value = One THEN Sampled
    ELSE <<[code |-> 200, content |-> <<Media("application/json", value, Ref("list"))>>]>>

\* The prefix of a server whose URL has a variable is dropped.
Spec3(paths) == [paths |-> paths, schemas |-> Schemas,
                 servers |-> <<[templated |-> TRUE, path |-> <<Lit("v1")>>]>>]
OpenApi(paths) == [marks |-> {"openapi3"}, spec |-> Spec3(paths)]
Swagger(paths) == [marks |-> {"swagger2", "postman"}, spec |-> << >>,
                   converted |-> <<Spec3(paths)>>]

Get_(param, value) ==
    [path |-> <<Lit("a"), Par(param)>>, operations |-> "GET" :> Answer(value)]
PutAndGet(param) ==
    [path |-> <<Lit("a"), Par(param)>>,
     operations |-> "GET" :> Answer(Two) @@ "PUT" :> Answer(One)]

Part(t) == [text |-> t, param |-> FALSE, variable |-> "none"]
Var(v) == [text |-> "none", param |-> FALSE, variable |-> v]
Url(scheme, path) == [scheme |-> scheme, host |-> "base", path |-> path]
Leaf(url, response) ==
    [folder |-> FALSE, disabled |-> FALSE, method |-> "PUT", url |-> url,
     response |-> response]
Saved(code, body) == [code |-> code, body |-> body]

A == Part("a")
Id == [Part("id") EXCEPT !.param = TRUE]

\* Of its requests only the one with a saved success comes through.
Collection ==
    [marks |-> {"postman"},
     spec |->
        [variable |-> <<[key |-> "base", hasValue |-> TRUE, path |-> <<Lit("b")>>],
                        [key |-> "base", hasValue |-> TRUE, path |-> <<Lit("a")>>],
                        [key |-> "unknown", hasValue |-> FALSE, path |-> << >>]>>,
         item |-> <<[folder |-> TRUE,
                     item |-> <<Leaf(Url("ws", <<A>>), << >>),
                                Leaf(Url("http", <<Var("unknown")>>), << >>),
                                Leaf(Url("none", <<Id>>), <<Saved(404, One), Saved(200, Two)>>)>>],
                    [Leaf(Url("http", <<A>>), << >>) EXCEPT !.disabled = TRUE]>>]]

\* A file with one operation, one whose two paths differ only in the name of
\* the parameter, and one with such a pair after an operation of another key.
Documents ==
    {OpenApi(<<Get_("id", One)>>),
     OpenApi(<<Get_("id", One), Get_("name", Two)>>),
     Swagger(<<PutAndGet("id"), Get_("name", One)>>),
     Collection,
     [marks |-> {"swagger2"}, spec |-> << >>, converted |-> << >>]}
Imports == BatchImport(Documents)
Files == Imports   \* a name of its own, so that TLC computes the set once

GetKey == <<"GET", <<"a", "*">>>>
Keys == {GetKey, <<"PUT", <<"a", "*">>>>}
ContentOf(value) ==
    [glob |-> TRUE, response |-> [status |-> 200, type |-> "json", value |-> value]]
Contents == {ContentOf(One), ContentOf(Two)}

\* Bound: keys and contents differ in a store of two documents; in a larger
\* one they do not, since the order of answers looks at neither.
LargeIsAlike ==
    lastExp + lastGroup > 2 =>
        \A e \in DOMAIN exps : exps[e].key = GetKey /\ exps[e].content = ContentOf(One)

-----------------------------------------------------------------------------
(* Samples.                                                                 *)

RECURSIVE Nesting(_)
Nesting(v) ==
    LET inner == IF v.json = "object" THEN {Nesting(v.fields[n]) : n \in DOMAIN v.fields}
                 ELSE IF v.json = "array" THEN {Nesting(v.items[1])} ELSE {}
    IN  IF inner = {} THEN 0 ELSE 1 + CHOOSE d \in inner : \A e \in inner : e <= d

RECURSIVE Nest(_, _)
Nest(n, schema) ==
    IF n = 0 THEN schema ELSE [kind |-> "array", items |-> Nest(n - 1, schema)]

Shapes ==
    {Ref("y"), Nest(3, Ref("x")), Nest(4, Ref("y")), Nest(9, NoSchema)}
    \cup {[kind |-> "allOf", parts |-> <<Ref(r), Ref("y")>>] : r \in {"x", "z"}}
    \cup {[kind |-> "object", properties |-> "p" :> Ref("x") @@ "q" :> Ref(r)] :
            r \in {"x", "y"}}

\* sample.ts: however three schemas refer to each other and to themselves, a
\* sample is found, and it is no deeper than the limit allows.
ASSUME SamplesAreShallow ==
    \A schemas \in [{"x", "y", "z"} -> Shapes] :
        Nesting(SampleFromSchema(Ref("x"), schemas)) <= MaxDepth + 1
=============================================================================
