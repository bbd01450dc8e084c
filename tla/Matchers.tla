------------------------------ MODULE Matchers ------------------------------
(***************************************************************************)
(* What the matchers of an expectation accept (matcher/ of the back end;   *)
(* the desktop build has the same files).                                  *)
(*                                                                         *)
(* Texts are plain values; how two of them relate as strings is given by   *)
(* sets of pairs.  A query or body is the function from the key path of    *)
(* every leaf to its value.  A key is a sequence too, because it may hold  *)
(* dots: the key "a.b" is <<"a", "b">>.  Containers without a leaf, forms  *)
(* with files, header matchers and what lodash finds on prototypes (every  *)
(* object has a function under "constructor") are left out.                *)
(***************************************************************************)
EXTENDS Naturals, Sequences, SequencesExt

CONSTANTS
    Infix, Prefix, Suffix,  \* pairs <<s, t>>: t is inside s, starts s, ends s
    Regex, Glob,            \* pairs <<s, t>>: the pattern t matches s
    Cut,                    \* name with brackets -> the segments lodash cuts it into
    Inner                   \* <<text, keys>> -> what a string has there: a character
                            \* under its index, its length

ASSUME TextAssumption == Prefix \cup Suffix \subseteq Infix

Condition == {"IS", "IS_NOT", "CONTAINS", "NOT_CONTAINS", "START_WITH", "END_WITH",
              "MATCH_REGEX", "NOT_MATCH_REGEX", "MATCH_GLOB", "NO_MATCH_GLOB",
              "SHOWED", "NOT_SHOWED"}

-----------------------------------------------------------------------------
(* Values.                                                                  *)

\* A leaf is a string, or a number, boolean or null with its text.
String(t) == [kind |-> "string", text |-> t]
Scalar(t) == [kind |-> "scalar", text |-> t]
Null == Scalar("")

Absent == [kind |-> "absent"]
Object == [kind |-> "object"]
Array(items) == [kind |-> "array", items |-> items]

\* The strings among the elements of the array at keys.
Items(doc, keys) ==
    {doc.leaf[k].text : k \in {j \in DOMAIN doc.leaf :
        Front(j) = keys /\ doc.leaf[j].kind = "string"}}

At(doc, keys) ==
    IF keys \in DOMAIN doc.leaf THEN doc.leaf[keys]
    ELSE IF \A k \in DOMAIN doc.leaf : ~IsPrefix(keys, k) THEN Absent
    ELSE IF keys \in DOMAIN doc.arrays THEN Array(Items(doc, keys)) ELSE Object

\* castPath: the whole name as a key of the outermost object if it has one,
\* otherwise one key per segment.
Path(doc, name) ==
    LET segments == IF name \in DOMAIN Cut THEN Cut[name] ELSE name
    IN  IF At(doc, <<name>>) # Absent THEN <<name>>
        ELSE [i \in DOMAIN segments |-> <<segments[i]>>]

\* A path goes on inside a string: to a character, to the length.
InText(doc, k, keys) ==
    /\ IsStrictPrefix(k, keys) /\ doc.leaf[k].kind = "string"
    /\ <<doc.leaf[k].text, SubSeq(keys, Len(k) + 1, Len(keys))>> \in DOMAIN Inner

\* What strings and arrays have besides the nodes of the document; the length
\* of the array at a path is doc.arrays.
Builtin(doc, keys) ==
    IF \E k \in DOMAIN doc.leaf : InText(doc, k, keys)
    THEN LET k == CHOOSE j \in DOMAIN doc.leaf : InText(doc, j, keys)
         IN  Inner[<<doc.leaf[k].text, SubSeq(keys, Len(k) + 1, Len(keys))>>]
    ELSE IF \E a \in DOMAIN doc.arrays : keys = Append(a, <<"length">>)
    THEN Scalar(doc.arrays[Front(keys)]) ELSE Absent

\* _.get
Get(doc, name) ==
    LET path == Path(doc, name)
    IN  IF At(doc, path) # Absent THEN At(doc, path) ELSE Builtin(doc, path)

-----------------------------------------------------------------------------
(* Conditions.                                                              *)

\* stringMatchCondition is only called with a string: it is never null.
\* micromatch throws on an empty pattern: neither condition holds then (nor is
\* any later expectation tried).
StringMatch(s, condition, t) ==
    CASE condition = "IS" -> s = t
      [] condition = "IS_NOT" -> s # t
      [] condition = "CONTAINS" -> <<s, t>> \in Infix
      [] condition = "NOT_CONTAINS" -> <<s, t>> \notin Infix
      [] condition = "START_WITH" -> <<s, t>> \in Prefix
      [] condition = "END_WITH" -> <<s, t>> \in Suffix
      [] condition = "MATCH_REGEX" -> <<s, t>> \in Regex
      [] condition = "NOT_MATCH_REGEX" -> <<s, t>> \notin Regex
      [] condition = "MATCH_GLOB" -> t # "" /\ <<s, t>> \in Glob
      [] condition = "NO_MATCH_GLOB" -> t # "" /\ <<s, t>> \notin Glob
      [] condition = "SHOWED" -> FALSE
      [] condition = "NOT_SHOWED" -> TRUE

MatchAnyValue(value, condition, t) ==
    \/ value.kind = "absent" /\ condition = "NOT_SHOWED"
    \/ value.kind \in {"string", "scalar"} /\ StringMatch(value.text, condition, t)
    \/ /\ value.kind = "array"
       /\ \/ condition \in {"CONTAINS", "SHOWED"} /\ t \in value.items
          \/ condition \in {"NOT_CONTAINS", "NOT_SHOWED"} /\ t \notin value.items

\* A method is compared in upper case: methods are upper-case texts here.
MethodMatches(req, m) == StringMatch(req.method, m.condition, m.value)

PathMatches(req, m) == StringMatch(req.path, m.condition, m.value)

QueryMatches(req, m) == MatchAnyValue(Get(req.query, m.name), m.condition, m.value)

\* Only a body of a type that is parsed has fields.
ParamMatches(req, m) ==
    req.hasFields /\ MatchAnyValue(Get(req.body, m.name), m.condition, m.value)

Matches(req, m) ==
    CASE m.type = "method" -> MethodMatches(req, m)
      [] m.type = "path" -> PathMatches(req, m)
      [] m.type = "query" -> QueryMatches(req, m)
      [] m.type = "param" -> ParamMatches(req, m)

\* An expectation without matchers accepts every request.
Accepts(matchers, req) == \A m \in matchers : Matches(req, m)
=============================================================================
