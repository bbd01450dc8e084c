---------------------------- MODULE ImportParsers ----------------------------
(***************************************************************************)
(* What the parsers of core/import make of a file: one expectation for     *)
(* every operation of an OpenAPI or Swagger description and for every      *)
(* request of a Postman collection.                                        *)
(*                                                                         *)
(* A path is a sequence of segments, each a text or a parameter ("{id}" in *)
(* OpenAPI, ":id" in Postman).  A JSON value is an object, an array or a   *)
(* scalar.  Names of expectations and the wording of failures are left     *)
(* out.                                                                    *)
(***************************************************************************)
EXTENDS Naturals, Sequences, SequencesExt, FiniteSets

Obj(fields) == [json |-> "object", fields |-> fields]
Arr(items) == [json |-> "array", items |-> items]
Scalar(text) == [json |-> "scalar", text |-> text]
EmptyObject == Obj(<< >>)
NoValue == [json |-> "none"]        \* nothing, or a blank text

-----------------------------------------------------------------------------
(* detect.ts, path.ts.                                                      *)

\* marks are the formats whose distinguishing members the document has.
DetectImportFormat(doc) ==
    IF "openapi3" \in doc.marks THEN "openapi3"
    ELSE IF "swagger2" \in doc.marks THEN "swagger2"
    ELSE IF "postman" \in doc.marks THEN "postman"
    ELSE "unknown"

Converted(path) == [i \in DOMAIN path |-> IF path[i].param THEN "*" ELSE path[i].text]

ConvertOpenApiPath(path) ==
    [value |-> Converted(path), glob |-> \E i \in DOMAIN path : path[i].param]

\* Here a star that the file spells out is a pattern too.
ConvertPostmanPath(path) ==
    [value |-> Converted(path), glob |-> \E i \in DOMAIN path : Converted(path)[i] = "*"]

\* An expectation: the key of its two matchers, and the rest of it.
Imported(method, path, response) ==
    [key |-> <<method, path.value>>,
     content |-> [glob |-> path.glob, response |-> response]]

-----------------------------------------------------------------------------
(* sample.ts.  A schema is a reference, a fixed value (its example, its      *)
(* default or the first of its enum), a combination or a type.               *)

MaxDepth == 6

\* Object.assign of the objects in order; if they have no field, the first
\* value that is not an object.
MergeAll(values) ==
    LET holders(n) == {i \in DOMAIN values :
                         values[i].json = "object" /\ n \in DOMAIN values[i].fields}
        names == UNION {DOMAIN values[i].fields :
                         i \in {j \in DOMAIN values : values[j].json = "object"}}
        others == SelectSeq(values, LAMBDA v : v.json # "object")
    IN  IF names # {}
        THEN Obj([n \in names |->
                    values[CHOOSE i \in holders(n) :
                              \A j \in holders(n) : j <= i].fields[n]])
        ELSE IF others # << >> THEN others[1] ELSE EmptyObject

\* What a type alone gives: a text, a number or a truth value.
SampleScalar(schema) == Scalar(schema.text)

\* Only references into the document itself are resolved.
Resolvable(schema, schemas) == schema.to \in DOMAIN schemas

\* A reference costs no depth: only seen, the references being followed,
\* keeps it from being followed for ever.
RECURSIVE Sample(_, _, _, _)
Sample(schema, schemas, depth, seen) ==
    LET inner(s) == Sample(s, schemas, depth + 1, seen)
    IN  IF depth > MaxDepth THEN EmptyObject
        ELSE CASE schema.kind = "ref" ->
                    IF ~Resolvable(schema, schemas) \/ schema.to \in seen
                    THEN EmptyObject
                    ELSE Sample(schemas[schema.to], schemas, depth, seen \cup {schema.to})
               [] schema.kind = "fixed" -> schema.value
               [] schema.kind = "allOf" ->
                    MergeAll([i \in DOMAIN schema.parts |-> inner(schema.parts[i])])
               [] schema.kind = "oneOf" -> inner(schema.parts[1])
               [] schema.kind = "object" ->
                    Obj([n \in DOMAIN schema.properties |-> inner(schema.properties[n])])
               [] schema.kind = "array" -> Arr(<<inner(schema.items)>>)
               [] schema.kind = "scalar" -> SampleScalar(schema)
               [] schema.kind = "none" -> EmptyObject

SampleFromSchema(schema, schemas) == Sample(schema, schemas, 0, {})

-----------------------------------------------------------------------------
(* openapi.ts.                                                              *)

\* Keys of an object that look like integers come first, in ascending order;
\* Default and ranges such as 4XX are numbers below 100 here.
Default == 0
Numeric(codes) == {c \in codes : c >= 100}
Least(S) == CHOOSE c \in S : \A d \in S : c <= d

PickCode(responses) ==
    LET codes == {responses[i].code : i \in DOMAIN responses}
        success == codes \cap (200 .. 299)
    IN  IF success # {}
        THEN IF 200 \in success THEN 200 ELSE IF 201 \in success THEN 201 ELSE Least(success)
        ELSE IF Default \in codes THEN Default
        ELSE IF Numeric(codes) # {} THEN Least(Numeric(codes))
        ELSE responses[1].code

PickMediaType(content) ==
    LET json == SelectSeq(content, LAMBDA m : m.type = "application/json")
        filled == SelectSeq(content, LAMBDA m :
                    m.examples # << >> \/ m.example # NoValue \/ m.schema.kind # "none")
    IN  (json \o filled \o content)[1]

PickMediaValue(media, schemas) ==
    IF media.examples # << >> THEN media.examples[1]
    ELSE IF media.example # NoValue THEN media.example
    ELSE SampleFromSchema(media.schema, schemas)

PickResponse(operation, schemas) ==
    IF operation = << >> THEN [status |-> 200, type |-> "json", value |-> NoValue]
    ELSE LET code == PickCode(operation)
             content == SelectSeq(operation, LAMBDA r : r.code = code)[1].content
             status == IF code >= 100 THEN code ELSE 200
         IN  IF content = << >> THEN [status |-> status, type |-> "json", value |-> NoValue]
             ELSE LET media == PickMediaType(content)
                  IN  [status |-> status,
                       type |-> IF media.isJson THEN "json" ELSE "text",
                       value |-> PickMediaValue(media, schemas)]

HttpMethods == <<"GET", "PUT", "POST", "DELETE", "OPTIONS", "HEAD", "PATCH", "TRACE">>

\* The path of the first server; one with a variable in its URL gives none.
GetServerPathPrefix(spec) ==
    IF spec.servers = << >> \/ spec.servers[1].templated THEN << >>
    ELSE spec.servers[1].path

ParseOpenApi(spec, preserveServerPrefix) ==
    LET prefix == IF preserveServerPrefix THEN GetServerPathPrefix(spec) ELSE << >>
        build(p, method) ==
            Imported(method, ConvertOpenApiPath(prefix \o p.path),
                     PickResponse(p.operations[method], spec.schemas))
        operations(p) ==
            LET methods == SelectSeq(HttpMethods, LAMBDA m : m \in DOMAIN p.operations)
            IN  [n \in DOMAIN methods |-> build(p, methods[n])]
    IN  FlattenSeq([n \in DOMAIN spec.paths |-> operations(spec.paths[n])])

-----------------------------------------------------------------------------
(* postman.ts.                                                              *)

\* walkItems: folders are flattened.
RECURSIVE Leaves(_)
Leaves(items) ==
    FlattenSeq([i \in DOMAIN items |->
        IF items[i].folder THEN Leaves(items[i].item) ELSE <<items[i]>>])

\* Entries without a value are no variables; the last of two entries counts.
VariableMap(collection) ==
    LET set == {i \in DOMAIN collection.variable : collection.variable[i].hasValue}
        entries(k) == {i \in set : collection.variable[i].key = k}
    IN  [k \in {collection.variable[i].key : i \in set} |->
            collection.variable[CHOOSE i \in entries(k) :
                                  \A j \in entries(k) : j <= i].path]

\* A variable stands for the path segments in its value.
Resolve(parts, variables) ==
    FlattenSeq([i \in DOMAIN parts |->
        IF parts[i].variable = "none" THEN <<[text |-> parts[i].text, param |-> parts[i].param]>>
        ELSE variables[parts[i].variable]])

\* The host is dropped, but not the path in the value of a variable that
\* stands for the host.
ToPath(url, variables) ==
    (IF url.host \in DOMAIN variables THEN variables[url.host] ELSE << >>)
        \o Resolve(url.path, variables)

\* The scheme is looked at before the variables are resolved.  An unknown host
\* is dropped like any other, unless nothing tells it from a path.
Refuses(item, variables) ==
    \/ item.disabled
    \/ item.url.scheme \in {"missing", "ws", "grpc"}
    \/ \E i \in DOMAIN item.url.path :
            item.url.path[i].variable \notin DOMAIN variables \cup {"none"}
    \/ /\ item.url.scheme = "none" /\ item.url.path = << >>
       /\ item.url.host \notin DOMAIN variables \cup {"none"}

\* The first saved example that is a success.
PickSaved(item) ==
    LET success == SelectSeq(item.response, LAMBDA r : r.code \in 200 .. 299)
    IN  IF success = << >> THEN [status |-> 200, type |-> "json", value |-> EmptyObject]
        ELSE [status |-> success[1].code,
              type |-> IF success[1].body.json = "scalar" THEN "text" ELSE "json",
              value |-> IF success[1].body = NoValue THEN EmptyObject ELSE success[1].body]

BuildExpectation(item, path) == Imported(item.method, path, PickSaved(item))

\* A request without a method is a GET.
ParseItem(item, variables) ==
    BuildExpectation(item, ConvertPostmanPath(ToPath(item.url, variables)))

ParsePostman(collection) ==
    LET leaves == Leaves(collection.item)
        variables == VariableMap(collection)
        good == SelectSeq(leaves, LAMBDA i : ~Refuses(i, variables))
    IN  [expectations |-> [n \in DOMAIN good |-> ParseItem(good[n], variables)],
         failures |-> Len(leaves) - Len(good)]

-----------------------------------------------------------------------------
(* index.ts.                                                                *)

\* The library swagger2openapi: converted holds the description it returns, or
\* nothing.
ConvertSwagger2ToOpenApi3(doc) == doc.converted

ParseImportContent(doc, preserveServerPrefix) ==
    LET format == DetectImportFormat(doc)
        spec == IF format = "swagger2" THEN ConvertSwagger2ToOpenApi3(doc)[1] ELSE doc.spec
    IN  IF format = "postman" THEN ParsePostman(spec)
        ELSE [expectations |-> ParseOpenApi(spec, preserveServerPrefix), failures |-> 0]

\* A file of another format, or one that swagger2openapi gives up, is refused
\* as a whole.
Readable(doc) ==
    \/ DetectImportFormat(doc) \in {"openapi3", "postman"}
    \/ DetectImportFormat(doc) = "swagger2" /\ ConvertSwagger2ToOpenApi3(doc) # << >>

\* What files bring in, with and without the server's path prefix.
BatchImport(files) ==
    {ParseImportContent(doc, preserve).expectations :
        doc \in {d \in files : Readable(d)}, preserve \in BOOLEAN}
=============================================================================
