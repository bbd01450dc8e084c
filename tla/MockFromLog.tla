----------------------------- MODULE MockFromLog -----------------------------
(***************************************************************************)
(* The dialog that makes an expectation from a logged request              *)
(* (core/import/fromLog.ts, MockFromLogModal.tsx): the draft built from    *)
(* the log, its edits, the save, and what the expectation then accepts and *)
(* answers.  The dialog holds the log as it was when it was opened.        *)
(*                                                                         *)
(* A definition marked Variant is a faulty form of the definition after    *)
(* it.  It is used only to confirm that a property can fail.               *)
(***************************************************************************)
EXTENDS Matchers

CONSTANTS
    Logged,     \* the logged requests with their responses
    Value,      \* the texts a user types into a row
    MaxEdits    \* bound: how often a user edits, saves or reopens

Blank == <<"">>

\* The name of a leaf: a key joins the prefix before it with a dot, or takes its
\* place if the prefix is empty.
Flat(keys) ==
    LET path[i \in 0 .. Len(keys)] ==
            IF i = 0 THEN Blank
            ELSE IF path[i - 1] = Blank THEN keys[i] ELSE path[i - 1] \o keys[i]
    IN  path[Len(keys)]

\* A leaf has a path of keys and a value.  A key is the sequence of the pieces
\* between its dots, at least one.  The names of a log's fields differ, or two
\* rows would share a key.
Document(doc) ==
    /\ \A k \in DOMAIN doc.leaf :
         /\ k \in Seq(Seq(STRING)) /\ k # << >> /\ \A i \in DOMAIN k : k[i] # << >>
         /\ doc.leaf[k].kind \in {"string", "scalar"}
    /\ \A j, k \in DOMAIN doc.leaf : Flat(j) = Flat(k) => j = k

\* The body parser leaves a body without fields if it cannot parse its type.
ASSUME LogAssumption ==
    \A l \in Logged :
        /\ Document(l.query) /\ Document(l.body)
        /\ DOMAIN l.body.leaf # {} => l.hasFields

VARIABLES
    host,       \* "web" or "desktop"
    dialog,     \* the open dialog, or NoDialog
    flights,    \* saves under way, and whether their dialog is still open
    created,    \* the expectations made
    budget      \* edits left

dialogVars == <<host, dialog, flights, created, budget>>

NoDialog == [log |-> "none"]
Open == dialog # NoDialog

NoResponse == [status |-> 0, type |-> "none", body |-> "none", headers |-> {}]

-----------------------------------------------------------------------------
(* buildDraftFromLog.                                                       *)

Row(checked, t) == [checked |-> checked, condition |-> "IS", value |-> t]

\* flattenForMatch: one row per leaf, named by its path.
Names(doc) == {Flat(k) : k \in DOMAIN doc.leaf}
TextOf(doc, name) == doc.leaf[CHOOSE k \in DOMAIN doc.leaf : Flat(k) = name].text

Slots(log) ==
    {<<"method", << >> >>, <<"path", << >> >>}
    \cup ({"query"} \X Names(log.query)) \cup ({"param"} \X Names(log.body))

DraftRows(log) ==
    [s \in Slots(log) |->
        CASE s[1] = "method" -> Row(TRUE, log.method)
          [] s[1] = "path" -> Row(TRUE, log.path)
          [] s[1] = "query" -> Row(FALSE, TextOf(log.query, s[2]))
          [] s[1] = "param" -> Row(FALSE, TextOf(log.body, s[2]))]

\* buildResponseContent: JSON bodies and nothing else.  A JSON string was
\* parsed by the log, and parsing it once more fails.
DraftContent(res) ==
    IF /\ res.type = "json" \/ (res.type = "none" /\ res.body = "object")
       /\ res.body \notin {"none", "text"}
    THEN res.body ELSE "{}"

SystemHeader == {"content-length", "transfer-encoding", "connection",
                 "keep-alive", "upgrade", "proxy-connection"}

DraftHeaders(res) ==
    [h \in res.headers \ SystemHeader |-> h = "content-type"]

Draft(log) ==
    [log |-> log, rows |-> DraftRows(log),
     status |-> IF log.res = NoResponse THEN 200 ELSE log.res.status,
     content |-> DraftContent(log.res), headers |-> DraftHeaders(log.res),
     saving |-> FALSE, answerEdited |-> FALSE]

-----------------------------------------------------------------------------
(* buildExpectationFromDraft.  from, answerEdited and ticked are history:    *)
(* the log, whether its answer was edited, and the rows that had their check *)
(* mark when the user pressed save.                                          *)

\* Variant: the rows that are listed but unchecked become matchers too.
AllRows(d) == DOMAIN d.rows

CheckedRows(d) == {s \in DOMAIN d.rows : d.rows[s].checked}

Expectation(d) ==
    [matchers |-> {[type |-> s[1], name |-> s[2], condition |-> d.rows[s].condition,
                    value |-> d.rows[s].value] : s \in CheckedRows(d)},
     status |-> d.status,
     content |-> IF d.content = "" THEN "{}" ELSE d.content,
     headers |-> {h \in DOMAIN d.headers : d.headers[h]},
     from |-> d.log, answerEdited |-> d.answerEdited,
     ticked |-> [s \in {x \in DOMAIN d.rows : d.rows[x].checked} |-> d.rows[s]]]

-----------------------------------------------------------------------------
(* The dialog.                                                              *)

DialogInit ==
    /\ host \in {"web", "desktop"}
    /\ dialog = NoDialog
    /\ flights = {} /\ created = {}
    /\ budget = MaxEdits

Spend == budget > 0 /\ budget' = budget - 1

Orphans == {[f EXCEPT !.own = FALSE] : f \in flights}

OpenFor(log) ==
    /\ ~Open /\ Spend
    /\ dialog' = Draft(log)
    /\ UNCHANGED <<host, flights, created>>

Close ==
    /\ Open
    /\ dialog' = NoDialog
    /\ flights' = Orphans
    /\ UNCHANGED <<host, created, budget>>

\* MatcherRow: the name is fixed, check mark, condition and value are not.
OnChange(s) ==
    /\ Open /\ Spend
    /\ \/ dialog' = [dialog EXCEPT !.rows[s].checked = ~@]
       \/ \E c \in Condition \ {dialog.rows[s].condition} :
             dialog' = [dialog EXCEPT !.rows[s].condition = c]
       \/ \E v \in Value \ {dialog.rows[s].value} :
             dialog' = [dialog EXCEPT !.rows[s].value = v]
    /\ UNCHANGED <<host, flights, created>>

\* Content that is not JSON is refused by handleSave, "" stands for blank.
EditAnswer ==
    /\ Open /\ Spend
    /\ \/ dialog' = [dialog EXCEPT !.status = 404, !.answerEdited = TRUE]
       \/ \E c \in {"", "edited", "invalid"} :
             dialog' = [dialog EXCEPT !.content = c, !.answerEdited = TRUE]
       \/ \E h \in DOMAIN dialog.headers :
             dialog' = [dialog EXCEPT !.headers[h] = ~@, !.answerEdited = TRUE]
    /\ UNCHANGED <<host, flights, created>>

\* Variant: only the rows are built again.
ResetRows(d) == [d EXCEPT !.rows = DraftRows(d.log), !.answerEdited = FALSE]

\* Object.assign of a draft built again; saving is not part of it.
Fresh(d) == [Draft(d.log) EXCEPT !.saving = d.saving]

HandleReset ==
    /\ Open
    /\ dialog' = Fresh(dialog)
    /\ UNCHANGED <<host, flights, created, budget>>

HandleSave ==
    /\ Open /\ Spend
    /\ ~dialog.saving
    /\ dialog.content # "invalid"
    /\ dialog' = [dialog EXCEPT !.saving = TRUE]
    /\ flights' = flights \cup {[mock |-> Expectation(dialog), own |-> TRUE]}
    /\ UNCHANGED <<host, created>>

\* onClose closes whatever dialog is open by now.
Saved(f) ==
    /\ f \in flights
    /\ created' = created \cup {f.mock}
    /\ dialog' = NoDialog
    /\ flights' = Orphans \ {f, [f EXCEPT !.own = FALSE]}
    /\ UNCHANGED <<host, budget>>

\* Refused, or the answer is lost after the expectation was stored.
NotSaved(f) ==
    /\ f \in flights
    /\ created' \in {created, created \cup {f.mock}}
    /\ dialog' = IF f.own THEN [dialog EXCEPT !.saving = FALSE] ELSE dialog
    /\ flights' = flights \ {f}
    /\ UNCHANGED <<host, budget>>

WebDialogNext ==
    \/ \E l \in Logged : OpenFor(l)
    \/ Close
    \/ Open /\ \E s \in DOMAIN dialog.rows : OnChange(s)
    \/ EditAnswer \/ HandleReset \/ HandleSave
    \/ \E f \in flights : Saved(f) \/ NotSaved(f)

-----------------------------------------------------------------------------
(* The desktop build has a copy of the dialog and of the matchers.          *)

DesktopOpenFor(log) == OpenFor(log)
DesktopClose == Close
DesktopOnChange(s) == OnChange(s)
DesktopEditAnswer == EditAnswer
DesktopHandleReset == HandleReset
DesktopHandleSave == HandleSave
DesktopSaved(f) == Saved(f)
DesktopNotSaved(f) == NotSaved(f)

DesktopMatches(req, m) == Matches(req, m)

DesktopDialogNext ==
    \/ \E l \in Logged : DesktopOpenFor(l)
    \/ DesktopClose
    \/ Open /\ \E s \in DOMAIN dialog.rows : DesktopOnChange(s)
    \/ DesktopEditAnswer \/ DesktopHandleReset \/ DesktopHandleSave
    \/ \E f \in flights : DesktopSaved(f) \/ DesktopNotSaved(f)

DialogNext ==
    \/ host = "web" /\ WebDialogNext
    \/ host = "desktop" /\ DesktopDialogNext

DialogSpec == DialogInit /\ [][DialogNext]_dialogVars

-----------------------------------------------------------------------------
(* Properties.                                                              *)

\* The mock server of either build.
Served(matchers, req) ==
    \/ host = "web" /\ Accepts(matchers, req)
    \/ host = "desktop" /\ \A m \in matchers : DesktopMatches(req, m)

\* lodash finds every field of the document under the name its row has: no
\* nested field has an empty outermost key, a key with dots or a name with
\* brackets.
Plain(doc) ==
    \A k \in DOMAIN doc.leaf :
        Len(k) > 1 => /\ k[1] # Blank
                      /\ \A i \in DOMAIN k : Len(k[i]) = 1
                      /\ Flat(k) \notin DOMAIN Cut

\* The name of a row leads lodash to a node of a document or nowhere: neither
\* into a string or the length of an array, nor along other keys than its own.
Clear(doc, name) ==
    \/ name \in Names(doc)
    \/ name \notin DOMAIN Cut /\ Get(doc, name) = At(doc, Path(doc, name))

\* A request in which the names of the rows mean the fields they mean in a log.
Unambiguous(req, slots) ==
    /\ Plain(req.query) /\ Plain(req.body)
    /\ \A s \in slots : /\ s[1] = "query" => Clear(req.query, s[2])
                        /\ s[1] = "param" => Clear(req.body, s[2])

\* What a request says about the field of a slot, taken from its own log.
Says(req, s, t) ==
    CASE s[1] = "method" -> req.method = t
      [] s[1] = "path" -> req.path = t
      [] s[1] = "query" -> s[2] \in Names(req.query) /\ TextOf(req.query, s[2]) = t
      [] s[1] = "param" -> s[2] \in Names(req.body) /\ TextOf(req.body, s[2]) = t

\* "Only checked fields are matched" (MockFromLogModal): an expectation whose
\* conditions were left at IS accepts a request exactly if the log of that
\* request would show the checked fields with the same texts - in particular
\* the request it was made from.
OnlyCheckedFieldsAreMatched ==
    \A e \in created :
        (\A s \in DOMAIN e.ticked : e.ticked[s].condition = "IS") =>
            \A req \in Logged : Unambiguous(req, DOMAIN e.ticked) =>
                (Served(e.matchers, req) <=>
                    \A s \in DOMAIN e.ticked : Says(req, s, e.ticked[s].value))

\* new-ui-mock-from-log/spec.md, story 4, "so that the mock replays the answer
\* the server actually gave": with the answer as captured, or reset to it, a
\* JSON response comes back with its status and body and without a header
\* that belongs to the transport.
ReplaysTheAnswer ==
    \A e \in created :
        ~e.answerEdited /\ e.from.res.type = "json" /\ e.from.res.body = "object" =>
            /\ e.status = e.from.res.status
            /\ e.content = e.from.res.body
            /\ e.headers = e.from.res.headers \cap {"content-type"}

\* mcp/README.md, "SHOWED / NOT_SHOWED are presence checks and ignore value":
\* a matcher for the presence of a field accepts a request that has it.
PresenceIgnoresValue ==
    \A e \in created : \A m \in e.matchers :
        m.condition = "SHOWED" /\ m.type \in {"query", "param"} => Matches(e.from, m)
=============================================================================
