------------------------------ MODULE LogFilter ------------------------------
(***************************************************************************)
(* What a filter asks of a log (changeToLokijsFilter in log/logUtils.ts,   *)
(* with the meaning Loki gives its operators).                             *)
(*                                                                         *)
(* A value is a number, a text or nothing.  Texts are compared by value;   *)
(* how they relate as strings is given by constants.  A filter holds one   *)
(* value, and with the conditions IN and FAMILY a set of them: a single    *)
(* value there stands for its set.  Bodies and headers, whose values may   *)
(* be objects, are left out.                                               *)
(***************************************************************************)
EXTENDS Integers

CONSTANTS
    NumberOf,   \* the texts that read as numbers, and their numbers
    FamilyOf,   \* the texts like "2xx", and their hundreds
    Inside      \* pairs <<s, t>>: the text t is inside s

\* Number("") is 0, and "2xx" is no number.
ASSUME TextAssumption ==
    /\ "" \in DOMAIN NumberOf /\ NumberOf[""] = 0
    /\ DOMAIN FamilyOf \cap DOMAIN NumberOf = {}

Num(n) == [num |-> n]
Text(t) == [text |-> t]
None == [none |-> TRUE]

IsText(v) == DOMAIN v = {"text"}

IsNumberString(v) ==
    DOMAIN v = {"num"} \/ (IsText(v) /\ v.text \in DOMAIN NumberOf)

\* Number(v)
Number(v) == IF IsText(v) THEN NumberOf[v.text] ELSE v.num

-----------------------------------------------------------------------------
(* The operators of Loki.                                                   *)

\* $aeq, the == of JavaScript.
Aeq(a, b) ==
    \/ a = b /\ a # None
    \/ /\ IsNumberString(a) /\ IsNumberString(b)
       /\ ~(IsText(a) /\ IsText(b))
       /\ Number(a) = Number(b)

\* Nothing is below "", "" below the numbers, they below other texts.
Rank(v) ==
    IF v = None THEN 0
    ELSE IF v = Text("") THEN 1
    ELSE IF IsNumberString(v) THEN 2 ELSE 3

\* $gt; texts that are no numbers are not ordered here.
Gt(a, b) ==
    \/ Rank(a) > Rank(b)
    \/ Rank(a) = 2 /\ Rank(b) = 2 /\ Number(a) > Number(b)

-----------------------------------------------------------------------------
(* changeToLokijsFilter.                                                    *)

Exactly(p, v) == p = v \/ (IsNumberString(v) /\ p = Num(Number(v)))

InFamily(p, v) ==
    /\ IsText(v) /\ v.text \in DOMAIN FamilyOf
    /\ ~Gt(Num(100 * FamilyOf[v.text]), p)
    /\ ~Gt(p, Num(100 * FamilyOf[v.text] + 99))

Holds(p, condition, value) ==
    CASE condition = "EQUAL" -> Aeq(p, value)
      [] condition = "NOT_EQUAL" -> ~Exactly(p, value)
      [] condition = "CONTAINS" -> IsText(p) /\ <<p.text, value.text>> \in Inside
      [] condition = "GREATER" -> Gt(p, value)
      [] condition = "LESS" -> Gt(value, p)
      [] condition = "IN" -> \E v \in value : Exactly(p, v)
      [] condition = "FAMILY" ->
            \E v \in value :
                IF IsText(v) /\ v.text \in DOMAIN FamilyOf
                THEN InFamily(p, v) ELSE Exactly(p, v)

\* A property that a log does not have is undefined.
Field(log, p) == IF p \in DOMAIN log THEN log[p] ELSE None

Matches(log, criterion) ==
    Holds(Field(log, criterion.property), criterion.condition, criterion.value)
=============================================================================
