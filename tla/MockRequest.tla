----------------------------- MODULE MockRequest -----------------------------
(***************************************************************************)
(* The life of the requests that one expectation accepts, from the choice  *)
(* of the action implementation to the response written into the log,      *)
(* while the expectation is edited, upstreams answer late, fail or break   *)
(* off, clients leave, and the timer of the proxy runs.                    *)
(*                                                                         *)
(* An action object is shared: a request keeps a reference to the object   *)
(* it found, and reads its fields when its delay is over.  What the        *)
(* response contains is abstracted to who produced it.                     *)
(*                                                                         *)
(* A definition marked Variant is a faulty form of the definition after    *)
(* it.  It is used only to confirm that a property can fail.               *)
(***************************************************************************)
EXTENDS Naturals

CONSTANTS
    Request,    \* the requests
    Action,     \* the action objects ever stored; bound of the model
    NoAction    \* the expectation has no action

ASSUME ActionAssumption == NoAction \notin Action

Kind == {"custom", "proxy", "static"}

VARIABLES
    kind,       \* the type field of each object, "unused" before it is stored
    sound,      \* whether a response can be produced from its fields
    current,    \* actions[0] of the expectation
    pc,         \* where the handling of each request is suspended
    held,       \* the action object it refers to
    impl,       \* the implementation chosen when it arrived
    timer,      \* its proxy timer is running
    upstream,   \* its exchange with the upstream
    res,        \* its response object
    gone,       \* its client left, or the server stop closed its socket
    sent,       \* what its client was answered
    logged      \* what its log says was answered

vars == <<kind, sound, current, pc, held, impl, timer, upstream, res, gone, sent, logged>>
store == <<kind, sound, current>>
choice == <<held, impl>>
answer == <<res, gone, sent, logged>>

\* delayed: before the action reads its object; headers and body: waiting for
\* the upstream; refused: Node refused a configured header of the proxy; file:
\* express.static sends; done: process has ended; failed: process has thrown;
\* stuck: nothing will end process any more.
Pc == {"unsent", "delayed", "headers", "body", "refused", "file", "done", "failed", "stuck"}
\* ended: the exchange is over, or was given up here; broken: it failed.
Upstream == {"idle", "asked", "answering", "ended", "broken"}
Res == {"open", "streaming", "ended", "destroyed"}
Answer == {"none", "custom", "preflight", "file", "404", "upstream", "502", "504", "200"}

TypeOk ==
    /\ kind \in [Action -> Kind \cup {"unused"}]
    /\ sound \in [Action -> BOOLEAN]
    /\ current \in Action \cup {NoAction}
    /\ pc \in [Request -> Pc]
    /\ held \in [Request -> Action \cup {NoAction}]
    /\ impl \in [Request -> Kind \cup {"unused"}]
    /\ timer \in [Request -> BOOLEAN]
    /\ upstream \in [Request -> Upstream]
    /\ res \in [Request -> Res]
    /\ gone \in [Request -> BOOLEAN]
    /\ sent \in [Request -> Answer]
    /\ logged \in [Request -> Answer]

Init ==
    /\ kind = [a \in Action |-> "unused"]
    /\ sound = [a \in Action |-> TRUE]
    /\ current = NoAction
    /\ pc = [r \in Request |-> "unsent"]
    /\ held = [r \in Request |-> NoAction]
    /\ impl = [r \in Request |-> "unused"]
    /\ timer = [r \in Request |-> FALSE]
    /\ upstream = [r \in Request |-> "idle"]
    /\ res = [r \in Request |-> "open"]
    /\ gone = [r \in Request |-> FALSE]
    /\ sent = [r \in Request |-> "none"]
    /\ logged = [r \in Request |-> "none"]

Goto(r, at) == pc' = [pc EXCEPT ![r] = at]

-----------------------------------------------------------------------------
(* Edits of the expectation.                                                *)

\* createAction, an update of the expectation and an import store new objects.
StoreAction(a, k) ==
    /\ kind[a] = "unused"
    /\ kind' = [kind EXCEPT ![a] = k]
    /\ current' = a
    /\ UNCHANGED <<sound, pc, choice, timer, upstream, answer>>

\* Variant: the fields of the other type are merged into the stored object.
MergeType(a, k) ==
    /\ current \in Action /\ kind[current] # k
    /\ kind' = [kind EXCEPT ![current] = k]
    /\ UNCHANGED <<sound, current, pc, choice, timer, upstream, answer>>

\* updateAction with another type replaces the object.
SwitchType(a, k) ==
    /\ current \in Action /\ kind[current] # k
    /\ StoreAction(a, k)

\* updateAction with the same type assigns to the stored object, which
\* requests may hold.
UpdateAction ==
    /\ current \in Action
    /\ sound' = [sound EXCEPT ![current] = ~@]
    /\ UNCHANGED <<kind, current, pc, choice, timer, upstream, answer>>

\* deleteAction, or the expectation is deleted.
DeleteAction ==
    /\ current \in Action
    /\ current' = NoAction
    /\ UNCHANGED <<kind, sound, pc, choice, timer, upstream, answer>>

-----------------------------------------------------------------------------
(* Arrival and responses.                                                   *)

\* process ends and insertResLog copies the status of the response object.
Log(r, status) ==
    /\ Goto(r, "done")
    /\ logged' = [logged EXCEPT ![r] = status]

\* Writing to a destroyed response has no effect.
Send(r, a) ==
    IF res[r] = "destroyed" THEN UNCHANGED <<res, sent>>
    ELSE /\ res' = [res EXCEPT ![r] = "ended"]
         /\ sent' = [sent EXCEPT ![r] = a]

Choose(r) ==
    /\ pc[r] = "unsent" /\ current \in Action
    /\ held' = [held EXCEPT ![r] = current]
    /\ impl' = [impl EXCEPT ![r] = kind[current]]

Arrive(r) ==
    /\ Choose(r)
    /\ Goto(r, "delayed")
    /\ UNCHANGED <<store, timer, upstream, answer>>

\* handleCross answers a preflight request itself, without the delay.
ArrivePreflight(r) ==
    /\ Choose(r) /\ kind[current] = "proxy"
    /\ Send(r, "preflight") /\ Log(r, "preflight")
    /\ UNCHANGED <<store, timer, upstream, gone>>

-----------------------------------------------------------------------------
(* Custom responses.                                                        *)

Reads(r, k) == pc[r] = "delayed" /\ impl[r] = k

AnswerCustom(r) ==
    /\ Reads(r, "custom") /\ sound[held[r]]
    /\ Send(r, "custom") /\ Log(r, "custom")
    /\ UNCHANGED <<store, choice, timer, upstream, gone>>

\* A template or a header that cannot be used: process throws, nobody answers.
CustomThrows(r) ==
    /\ Reads(r, "custom") /\ ~sound[held[r]]
    /\ Goto(r, "failed")
    /\ UNCHANGED <<store, choice, timer, upstream, answer>>

-----------------------------------------------------------------------------
(* Static files.                                                            *)

\* No folder, another prefix, or no such file.
FileMissing(r) ==
    /\ Reads(r, "static")
    /\ Send(r, "404") /\ Log(r, "404")
    /\ UNCHANGED <<store, choice, timer, upstream, gone>>

\* When the client has left before, neither finish nor close comes any more.
FileBegins(r) ==
    /\ Reads(r, "static")
    /\ IF res[r] = "destroyed"
       THEN Goto(r, "stuck") /\ UNCHANGED <<res, sent>>
       ELSE /\ Goto(r, "file")
            /\ res' = [res EXCEPT ![r] = "streaming"]
            /\ sent' = [sent EXCEPT ![r] = "file"]
    /\ UNCHANGED <<store, choice, timer, upstream, gone, logged>>

FileEnds(r) ==
    /\ pc[r] = "file"
    /\ res' = [res EXCEPT ![r] = "ended"]
    /\ Log(r, "file")
    /\ UNCHANGED <<store, choice, timer, upstream, gone, sent>>

-----------------------------------------------------------------------------
(* The proxy.                                                               *)

\* Variant: the wait for the upstream is not guarded.
BeginProxyUntimed(r) ==
    /\ Reads(r, "proxy")
    /\ Goto(r, "headers")
    /\ upstream' = [upstream EXCEPT ![r] = "asked"]
    /\ UNCHANGED <<store, choice, timer, answer>>

BeginProxy(r) ==
    /\ Reads(r, "proxy")
    /\ Goto(r, "headers")
    /\ timer' = [timer EXCEPT ![r] = TRUE]
    /\ upstream' = [upstream EXCEPT ![r] = "asked"]
    /\ UNCHANGED <<store, choice, answer>>

Pending(r) == pc[r] \in {"headers", "body", "refused"}

\* The status of a response whose headers were taken over, or Node's default.
Status(r) == IF pc[r] = "body" THEN "upstream" ELSE "200"

\* Variant: finish may be called again.
FinishAgain(r, error) ==
    /\ timer' = timer
    /\ IF res[r] = "streaming" THEN res' = [res EXCEPT ![r] = "destroyed"] /\ UNCHANGED sent
       ELSE Send(r, error)
    /\ Log(r, error)

\* Variant: process is resolved before the error is sent.
FinishLogsFirst(r, error) ==
    /\ timer' = [timer EXCEPT ![r] = FALSE]
    /\ Send(r, error)
    /\ Log(r, "200")

\* finish(error), which is settled once: an error is sent if no header was, and
\* a response that has begun is destroyed.
Finish(r, error) ==
    \/ ~Pending(r) /\ UNCHANGED <<pc, timer, res, sent, logged>>
    \/ /\ Pending(r)
       /\ timer' = [timer EXCEPT ![r] = FALSE]
       /\ \/ res[r] = "open" /\ Send(r, error) /\ Log(r, error)
          \/ /\ res[r] # "open"
             /\ res' = [res EXCEPT ![r] = IF @ = "streaming" THEN "destroyed" ELSE @]
             /\ UNCHANGED sent
             /\ Log(r, Status(r))

\* Variant: the upstream request is left alone.
TimerFiresOnly(r) ==
    /\ timer[r]
    /\ Finish(r, "504")
    /\ UNCHANGED <<store, choice, upstream, gone>>

TimerFires(r) ==
    /\ timer[r]
    /\ Finish(r, "504")
    /\ upstream' = [upstream EXCEPT ![r] = "ended"]
    /\ UNCHANGED <<store, choice, gone>>

\* Connecting, asking or answering fails: the upstream refuses or resets the
\* connection, or sends what is no HTTP.  http-proxy calls back, also after the
\* headers, unless the client has left, and then only the timer ends a wait.
UpstreamFails(r) ==
    /\ upstream[r] \in {"asked", "answering"}
    /\ upstream' = [upstream EXCEPT ![r] = "broken"]
    /\ \/ Finish(r, "502")
       \/ gone[r] /\ UNCHANGED <<pc, timer, res, sent, logged>>
    /\ UNCHANGED <<store, choice, gone>>

\* Variant: the timer also guards the body.
HeadersKeepTimer(r) ==
    /\ upstream[r] = "asked" /\ pc[r] = "headers"
    /\ upstream' = [upstream EXCEPT ![r] = "answering"]
    /\ Goto(r, "body")
    /\ res' = [res EXCEPT ![r] = "streaming"]
    /\ sent' = [sent EXCEPT ![r] = "upstream"]
    /\ UNCHANGED <<store, choice, timer, gone, logged>>

\* proxyRes: the timer is cancelled and the configured headers are added.
ProxyRes(r) ==
    /\ upstream[r] = "asked"
    /\ upstream' = [upstream EXCEPT ![r] = "answering"]
    /\ timer' = [timer EXCEPT ![r] = FALSE]

\* http-proxy copies headers and status and pipes the body.
UpstreamHeaders(r) ==
    /\ ProxyRes(r) /\ sound[held[r]]
    /\ Goto(r, "body")
    /\ IF res[r] = "destroyed" THEN UNCHANGED <<res, sent>>
       ELSE /\ res' = [res EXCEPT ![r] = "streaming"]
            /\ sent' = [sent EXCEPT ![r] = "upstream"]
    /\ UNCHANGED <<store, choice, gone, logged>>

\* Node refuses the name or the value of a configured header.  The exception
\* ends the reading of the answer before it is piped; the timer is off.
HeadersRefused(r) ==
    /\ ProxyRes(r) /\ ~sound[held[r]]
    /\ Goto(r, "refused")
    /\ UNCHANGED <<store, choice, answer>>

PipeEnds(r) ==
    /\ upstream[r] = "answering" /\ pc[r] = "body"
    /\ upstream' = [upstream EXCEPT ![r] = "ended"]
    /\ res' = [res EXCEPT ![r] = IF @ = "streaming" THEN "ended" ELSE @]

\* The recorded body is decompressed, then end is emitted and finish called.
UpstreamEnds(r) ==
    /\ PipeEnds(r) /\ Log(r, "upstream")
    /\ UNCHANGED <<store, choice, timer, gone, sent>>

\* Decompressing throws: the client has its answer, end is never emitted.
Undecodable(r) ==
    /\ PipeEnds(r) /\ Goto(r, "stuck")
    /\ UNCHANGED <<store, choice, timer, gone, sent, logged>>

\* The upstream closes the connection before its answer is complete: nobody is
\* told, the response stays as it is, end is never emitted.
UpstreamBreaks(r) ==
    /\ upstream[r] = "answering"
    /\ upstream' = [upstream EXCEPT ![r] = "broken"]
    /\ Goto(r, "stuck")
    /\ UNCHANGED <<store, choice, timer, answer>>

-----------------------------------------------------------------------------
\* The client closes its connection, or stopServer does.  http-proxy gives up an
\* upstream that has not answered, if Node reports the incoming request as
\* aborted; a file being sent ends with close.
ClientLeaves(r) ==
    /\ pc[r] # "unsent" /\ res[r] \in {"open", "streaming"}
    /\ gone' = [gone EXCEPT ![r] = TRUE]
    /\ res' = [res EXCEPT ![r] = "destroyed"]
    /\ \/ UNCHANGED upstream
       \/ upstream[r] = "asked" /\ upstream' = [upstream EXCEPT ![r] = "ended"]
    /\ IF pc[r] = "file" THEN Log(r, "file") ELSE UNCHANGED <<pc, logged>>
    /\ UNCHANGED <<store, choice, timer, sent>>

Edit ==
    \/ \E a \in Action, k \in Kind : StoreAction(a, k) \/ SwitchType(a, k)
    \/ UpdateAction \/ DeleteAction

Proxy(r) ==
    \/ BeginProxy(r) \/ TimerFires(r)
    \/ UpstreamHeaders(r) \/ HeadersRefused(r) \/ UpstreamEnds(r) \/ Undecodable(r)
    \/ UpstreamFails(r) \/ UpstreamBreaks(r)

Serve(r) ==
    \/ Arrive(r) \/ ArrivePreflight(r)
    \/ AnswerCustom(r) \/ CustomThrows(r)
    \/ FileMissing(r) \/ FileBegins(r) \/ FileEnds(r)
    \/ Proxy(r)
    \/ ClientLeaves(r)

Next == Edit \/ \E r \in Request : Serve(r)

Spec == Init /\ [][Next]_vars

\* Delays end and timers fire.  Nothing is assumed of upstreams, of clients,
\* nor of the file system.
Fairness ==
    \A r \in Request :
        /\ WF_vars(AnswerCustom(r) \/ CustomThrows(r) \/ BeginProxy(r)
                     \/ FileMissing(r) \/ FileBegins(r))
        /\ WF_vars(TimerFires(r))

FairSpec == Spec /\ Fairness

-----------------------------------------------------------------------------
(* Properties.                                                              *)

Waiting == {"delayed", "headers", "body", "refused", "file"}

\* actionController.ts, "a type switch replaces the action": however an action
\* is edited while requests wait, the implementation of a request finds an
\* object of its own type.
ImplFitsAction ==
    \A r \in Request : pc[r] \in Waiting => kind[held[r]] = impl[r]

\* A client that was answered is not answered again: the timer, a late error
\* and a late answer of the upstream exclude each other.
AnsweredOnce == [][\A r \in Request : sent[r] # "none" => sent'[r] = sent[r]]_vars

\* ProxyAction.ts: once the headers arrived, "streaming responses are never
\* cut off" by the timer: a response is destroyed only after its client left or
\* its upstream broke off.
StreamsAreNotCut ==
    \A r \in Request : res[r] = "destroyed" => gone[r] \/ upstream[r] = "broken"

\* "test proxy timeout when upstream sends no headers": a request that was
\* settled does not keep its upstream busy.
UpstreamReleased ==
    \A r \in Request : pc[r] = "done" => upstream[r] \notin {"asked", "answering"}

\* The log shows the status the client received, if it received one.
LogTellsTheAnswer ==
    \A r \in Request :
        logged[r] # "none" /\ sent[r] # "none" => logged[r] = sent[r]

\* "upstream error does not hang": a request an expectation accepted is
\* answered, unless its client leaves, its custom response cannot be produced
\* (failed), or Node refuses a header the proxy action adds (refused).
AcceptedIsAnswered ==
    \A r \in Request :
        pc[r] = "delayed" ~> (sent[r] # "none" \/ gone[r] \/ pc[r] \in {"failed", "refused"})
=============================================================================
