----------------------------- MODULE MockProofs -----------------------------
(***************************************************************************)
(* Proofs about a mock request (MockRequest, DesktopMockRequest)           *)
(* for any number of requests and action objects, and about the dialog     *)
(* that makes an expectation from a logged request (MockFromLog) for every *)
(* set of logged requests.                                                 *)
(*                                                                         *)
(* The inductive invariant of a request ties the place where its handling  *)
(* is suspended to its timer, its exchange with the upstream and its       *)
(* response.                                                               *)
(***************************************************************************)
EXTENDS DesktopMockRequest, MockFromLog, SequenceTheorems, WellFoundedInduction, TLAPS

\* Stored objects have a type; a request that arrived holds a stored object
\* of the type its implementation was chosen for.
Holds(r) ==
    pc[r] # "unsent" =>
        held[r] \in Action /\ impl[r] = kind[held[r]] /\ kind[held[r]] # "unused"

CurrentIsStored == current \in Action => kind[current] # "unused"

\* What each place of suspension says about the request.
Quiet(r) ==
    pc[r] \in {"unsent", "delayed", "headers", "refused"} =>
        res[r] \in {"open", "destroyed"} /\ sent[r] = "none"

\* A failure nobody hears of is one whose client has left.
Unasked(r) == pc[r] \in {"unsent", "delayed"} => upstream[r] = "idle"
Unheard(r) == pc[r] = "headers" /\ upstream[r] = "broken" => gone[r]

AskedWaits(r) == upstream[r] = "asked" => pc[r] = "headers"

AnsweringPipes(r) == upstream[r] = "answering" => pc[r] \in {"body", "refused"}

TimerWaits(r) == timer[r] => pc[r] = "headers"

FileStreams(r) == pc[r] = "file" => sent[r] = "file"

BodyStreams(r) ==
    pc[r] = "body" =>
        /\ res[r] = "streaming" => sent[r] = "upstream"
        /\ sent[r] \in {"none", "upstream"}
        /\ res[r] # "open"

LoggedIsDone(r) == logged[r] # "none" => pc[r] = "done"

CutFromOutside(r) == res[r] = "destroyed" => gone[r] \/ upstream[r] = "broken"

LogAgrees(r) == logged[r] # "none" /\ sent[r] # "none" => logged[r] = sent[r]

ReqInv(r) ==
    /\ Quiet(r) /\ Unasked(r) /\ Unheard(r)
    /\ AskedWaits(r) /\ AnsweringPipes(r) /\ TimerWaits(r)
    /\ FileStreams(r) /\ BodyStreams(r) /\ LoggedIsDone(r)
    /\ CutFromOutside(r) /\ LogAgrees(r)

IInv ==
    /\ TypeOk
    /\ CurrentIsStored
    /\ \A r \in Request : Holds(r) /\ ReqInv(r)

-----------------------------------------------------------------------------
LEMMA InitInv == Init => IInv
<1> SUFFICES ASSUME Init PROVE IInv
  OBVIOUS
<1>1. TypeOk
  BY DEF Init, TypeOk, Kind, Pc, Upstream, Res, Answer
<1>2. CurrentIsStored
  BY ActionAssumption DEF Init, CurrentIsStored
<1>3. ASSUME NEW r \in Request PROVE Holds(r) /\ ReqInv(r)
  BY DEF Init, Holds, ReqInv, Quiet, Unasked, Unheard, AskedWaits, AnsweringPipes,
     TimerWaits, FileStreams, BodyStreams, LoggedIsDone, CutFromOutside, LogAgrees
<1> QED BY <1>1, <1>2, <1>3 DEF IInv

-----------------------------------------------------------------------------
(* Types.                                                                   *)

LEMMA FinishTypes ==
  ASSUME TypeOk, NEW r \in Request, NEW error \in Answer, Finish(r, error)
  PROVE  /\ pc' \in [Request -> Pc] /\ timer' \in [Request -> BOOLEAN]
         /\ res' \in [Request -> Res] /\ sent' \in [Request -> Answer]
         /\ logged' \in [Request -> Answer]
<1> USE DEF TypeOk, Pc, Res
<1>1. CASE UNCHANGED <<pc, timer, res, sent, logged>>
  BY <1>1
<1>2. CASE /\ timer' = [timer EXCEPT ![r] = FALSE]
           /\ res[r] = "open" /\ Send(r, error) /\ Log(r, error)
  BY <1>2 DEF Send, Log, Goto
<1>3. CASE /\ timer' = [timer EXCEPT ![r] = FALSE]
           /\ res' = [res EXCEPT ![r] = IF @ = "streaming" THEN "destroyed" ELSE @]
           /\ UNCHANGED sent
           /\ Log(r, Status(r))
  <2>1. Status(r) \in Answer
    BY DEF Status, Answer
  <2> QED BY <1>3, <2>1 DEF Log, Goto
<1> QED BY <1>1, <1>2, <1>3 DEF Finish

LEMMA TypeStep == TypeOk /\ [Next]_vars => TypeOk'
<1> SUFFICES ASSUME TypeOk, [Next]_vars PROVE TypeOk'
  OBVIOUS
<1> USE DEF TypeOk, Kind, Pc, Upstream, Res, Answer, store, choice, answer, Goto, Log,
        Send, Choose, Reads
<1>1. CASE Edit
  <2>1. ASSUME NEW a \in Action, NEW k \in Kind, StoreAction(a, k) PROVE TypeOk'
    BY <2>1 DEF StoreAction
  <2>2. CASE UpdateAction
    BY <2>2 DEF UpdateAction
  <2>3. CASE DeleteAction
    BY <2>3 DEF DeleteAction
  <2> QED BY <1>1, <2>1, <2>2, <2>3 DEF Edit, SwitchType
<1>2. ASSUME NEW r \in Request, Arrive(r) PROVE TypeOk'
  BY <1>2 DEF Arrive
<1>3. ASSUME NEW r \in Request, ArrivePreflight(r) PROVE TypeOk'
  BY <1>3 DEF ArrivePreflight
<1>4. ASSUME NEW r \in Request, AnswerCustom(r) PROVE TypeOk'
  BY <1>4 DEF AnswerCustom
<1>5. ASSUME NEW r \in Request, CustomThrows(r) PROVE TypeOk'
  BY <1>5 DEF CustomThrows
<1>6. ASSUME NEW r \in Request, FileMissing(r) PROVE TypeOk'
  BY <1>6 DEF FileMissing
<1>7. ASSUME NEW r \in Request, FileBegins(r) PROVE TypeOk'
  BY <1>7 DEF FileBegins
<1>8. ASSUME NEW r \in Request, FileEnds(r) PROVE TypeOk'
  BY <1>8 DEF FileEnds
<1>9. ASSUME NEW r \in Request, BeginProxy(r) PROVE TypeOk'
  BY <1>9 DEF BeginProxy
<1>10. ASSUME NEW r \in Request, TimerFires(r) PROVE TypeOk'
  <2>1. "504" \in Answer
    OBVIOUS
  <2> QED BY <1>10, <2>1, FinishTypes DEF TimerFires
<1>11. ASSUME NEW r \in Request, UpstreamFails(r) PROVE TypeOk'
  <2>1. "502" \in Answer
    OBVIOUS
  <2> QED BY <1>11, <2>1, FinishTypes DEF UpstreamFails
<1>12. ASSUME NEW r \in Request, UpstreamHeaders(r) PROVE TypeOk'
  BY <1>12 DEF UpstreamHeaders, ProxyRes
<1>18. ASSUME NEW r \in Request, HeadersRefused(r) PROVE TypeOk'
  BY <1>18 DEF HeadersRefused, ProxyRes
<1>13. ASSUME NEW r \in Request, UpstreamEnds(r) PROVE TypeOk'
  BY <1>13 DEF UpstreamEnds, PipeEnds
<1>14. ASSUME NEW r \in Request, Undecodable(r) PROVE TypeOk'
  BY <1>14 DEF Undecodable, PipeEnds
<1>15. ASSUME NEW r \in Request, UpstreamBreaks(r) PROVE TypeOk'
  BY <1>15 DEF UpstreamBreaks
<1>16. ASSUME NEW r \in Request, ClientLeaves(r) PROVE TypeOk'
  BY <1>16 DEF ClientLeaves
<1>17. CASE UNCHANGED vars
  BY <1>17 DEF vars
<1> QED
  BY <1>1, <1>2, <1>3, <1>4, <1>5, <1>6, <1>7, <1>8, <1>9, <1>10, <1>11, <1>12, <1>13,
     <1>14, <1>15, <1>16, <1>17, <1>18 DEF Next, Serve, Proxy

-----------------------------------------------------------------------------
(* Objects: only Edit changes the store, and never the type of an object    *)
(* that is stored.                                                          *)

LEMMA ServeKeepsStore ==
  ASSUME NEW r \in Request, Serve(r)
  PROVE  UNCHANGED store
BY DEF Serve, Proxy, Arrive, ArrivePreflight, AnswerCustom, CustomThrows, FileMissing,
   FileBegins, FileEnds, BeginProxy, TimerFires, UpstreamFails, UpstreamHeaders,
   HeadersRefused, UpstreamEnds, Undecodable, UpstreamBreaks, ClientLeaves

LEMMA EditKeepsTypes ==
  ASSUME TypeOk, Edit
  PROVE  /\ \A a \in Action : kind[a] # "unused" => kind'[a] = kind[a]
         /\ UNCHANGED <<pc, choice, timer, upstream, answer>>
BY DEF TypeOk, Edit, StoreAction, SwitchType, UpdateAction, DeleteAction

LEMMA EditStores == ASSUME TypeOk, CurrentIsStored, Edit PROVE CurrentIsStored'
BY ActionAssumption
   DEF TypeOk, CurrentIsStored, Edit, StoreAction, SwitchType, UpdateAction, DeleteAction, Kind

\* The object and the implementation of a request are chosen once.
LEMMA ServeChooses ==
  ASSUME TypeOk, NEW s \in Request, ReqInv(s), Serve(s), NEW r \in Request
  PROVE  \/ UNCHANGED <<held[r], impl[r]>> /\ (pc[r] = "unsent" => pc'[r] = "unsent")
         \/ current \in Action /\ held'[r] = current /\ impl'[r] = kind[current]
<1> USE DEF TypeOk, choice, answer, Goto, Log, Reads, Pc, Upstream, Res
<1>1. CASE Arrive(s) \/ ArrivePreflight(s)
  BY <1>1 DEF Arrive, ArrivePreflight, Choose, Send
<1>2. CASE AnswerCustom(s) \/ CustomThrows(s) \/ FileMissing(s) \/ FileBegins(s) \/ FileEnds(s)
  BY <1>2 DEF AnswerCustom, CustomThrows, FileMissing, FileBegins, FileEnds
<1>3. CASE Proxy(s)
  <2>1. UNCHANGED <<held, impl>> /\ pc[s] # "unsent"
    BY <1>3 DEF Proxy, BeginProxy, TimerFires, UpstreamFails, UpstreamHeaders,
       HeadersRefused, ProxyRes, UpstreamEnds, PipeEnds, Undecodable, UpstreamBreaks, ReqInv, AskedWaits, AnsweringPipes, TimerWaits
  <2>2. r # s => pc'[r] = pc[r]
    BY <1>3 DEF Proxy, BeginProxy, TimerFires, Finish, UpstreamFails, UpstreamHeaders,
       HeadersRefused, ProxyRes, UpstreamEnds, PipeEnds, Undecodable, UpstreamBreaks
  <2> QED BY <2>1, <2>2
<1>4. CASE ClientLeaves(s)
  BY <1>4 DEF ClientLeaves
<1> QED BY <1>1, <1>2, <1>3, <1>4 DEF Serve

LEMMA HoldsStep ==
  ASSUME TypeOk, CurrentIsStored, \A r \in Request : Holds(r) /\ ReqInv(r), [Next]_vars
  PROVE  CurrentIsStored' /\ \A r \in Request : Holds(r)'
<1>1. CASE Edit
  <2>1. CurrentIsStored'
    BY <1>1, EditStores
  <2>2. ASSUME NEW r \in Request PROVE Holds(r)'
    BY <1>1, EditKeepsTypes DEF Holds, choice
  <2> QED BY <2>1, <2>2
<1>2. ASSUME NEW s \in Request, Serve(s)
      PROVE  CurrentIsStored' /\ \A r \in Request : Holds(r)'
  <2>1. UNCHANGED <<kind, current>>
    BY <1>2, ServeKeepsStore DEF store
  <2>2. ASSUME NEW r \in Request PROVE Holds(r)'
    BY <1>2, <2>1, ServeChooses DEF Holds, CurrentIsStored
  <2> QED BY <2>1, <2>2 DEF CurrentIsStored
<1>3. CASE UNCHANGED vars
  BY <1>3 DEF vars, CurrentIsStored, Holds
<1> QED BY <1>1, <1>2, <1>3 DEF Next

-----------------------------------------------------------------------------
(* The request invariant: a step of one request leaves the others alone.    *)

PerRequest(r) == <<pc[r], timer[r], upstream[r], res[r], gone[r], sent[r], logged[r]>>

LEMMA UnchangedRequest ==
  ASSUME NEW r \in Request, ReqInv(r), UNCHANGED PerRequest(r)
  PROVE  ReqInv(r)'
BY DEF PerRequest, ReqInv, Quiet, Unasked, Unheard, AskedWaits, AnsweringPipes,
   TimerWaits, FileStreams, BodyStreams, LoggedIsDone, CutFromOutside, LogAgrees

LEMMA OthersAlone ==
  ASSUME TypeOk, NEW s \in Request, Serve(s), NEW r \in Request, r # s
  PROVE  UNCHANGED PerRequest(r)
<1> USE DEF TypeOk, PerRequest, store, choice, answer, Goto, Log, Send
<1>1. CASE Arrive(s) \/ ArrivePreflight(s)
  BY <1>1 DEF Arrive, ArrivePreflight, Choose
<1>2. CASE AnswerCustom(s) \/ CustomThrows(s) \/ FileMissing(s) \/ FileBegins(s) \/ FileEnds(s)
  BY <1>2 DEF AnswerCustom, CustomThrows, FileMissing, FileBegins, FileEnds
<1>3. CASE BeginProxy(s) \/ UpstreamHeaders(s) \/ HeadersRefused(s) \/ UpstreamEnds(s)
           \/ Undecodable(s) \/ UpstreamBreaks(s)
  BY <1>3 DEF BeginProxy, UpstreamHeaders, HeadersRefused, ProxyRes, UpstreamEnds, PipeEnds, Undecodable, UpstreamBreaks
<1>4. CASE TimerFires(s) \/ UpstreamFails(s)
  BY <1>4 DEF TimerFires, UpstreamFails, Finish
<1>5. CASE ClientLeaves(s)
  BY <1>5 DEF ClientLeaves
<1> QED BY <1>1, <1>2, <1>3, <1>4, <1>5 DEF Serve, Proxy

LEMMA ServeStep ==
  ASSUME TypeOk, NEW r \in Request, ReqInv(r), Serve(r)
  PROVE  ReqInv(r)'
<1> USE DEF TypeOk, store, choice, answer, Goto, Log, Send, Reads, ReqInv, Quiet,
        Unasked, Unheard, AskedWaits, AnsweringPipes, TimerWaits, FileStreams, BodyStreams,
        LoggedIsDone, CutFromOutside, LogAgrees
<1>1. CASE Arrive(r)
  BY <1>1 DEF Arrive, Choose
<1>2. CASE ArrivePreflight(r)
  BY <1>2 DEF ArrivePreflight, Choose
<1>3. CASE AnswerCustom(r)
  BY <1>3 DEF AnswerCustom
<1>4. CASE CustomThrows(r)
  BY <1>4 DEF CustomThrows
<1>5. CASE FileMissing(r)
  BY <1>5 DEF FileMissing
<1>6. CASE FileBegins(r)
  BY <1>6 DEF FileBegins
<1>7. CASE FileEnds(r)
  BY <1>7 DEF FileEnds
<1>8. CASE BeginProxy(r)
  BY <1>8 DEF BeginProxy
<1>9. CASE TimerFires(r)
  BY <1>9 DEF TimerFires, Finish, Pending, Status
<1>10. CASE UpstreamFails(r)
  BY <1>10 DEF UpstreamFails, Finish, Pending, Status
<1>11. CASE UpstreamHeaders(r)
  BY <1>11 DEF UpstreamHeaders, ProxyRes, Res
<1>16. CASE HeadersRefused(r)
  BY <1>16 DEF HeadersRefused, ProxyRes
<1>12. CASE UpstreamEnds(r)
  BY <1>12 DEF UpstreamEnds, PipeEnds
<1>13. CASE Undecodable(r)
  BY <1>13 DEF Undecodable, PipeEnds
<1>14. CASE UpstreamBreaks(r)
  BY <1>14 DEF UpstreamBreaks
<1>15. CASE ClientLeaves(r)
  BY <1>15 DEF ClientLeaves
<1> QED
  BY <1>1, <1>2, <1>3, <1>4, <1>5, <1>6, <1>7, <1>8, <1>9, <1>10, <1>11, <1>12, <1>13,
     <1>14, <1>15, <1>16 DEF Serve, Proxy

LEMMA ReqInvStep ==
  ASSUME TypeOk, \A r \in Request : ReqInv(r), [Next]_vars
  PROVE  \A r \in Request : ReqInv(r)'
<1> SUFFICES ASSUME NEW r \in Request PROVE ReqInv(r)'
  OBVIOUS
<1>1. CASE Edit
  BY <1>1, EditKeepsTypes, UnchangedRequest DEF PerRequest, answer
<1>2. ASSUME NEW s \in Request, Serve(s) PROVE ReqInv(r)'
  BY <1>2, ServeStep, OthersAlone, UnchangedRequest
<1>3. CASE UNCHANGED vars
  BY <1>3, UnchangedRequest DEF vars, PerRequest
<1> QED BY <1>1, <1>2, <1>3 DEF Next

LEMMA NextInv == IInv /\ [Next]_vars => IInv'
BY TypeStep, HoldsStep, ReqInvStep DEF IInv

\* The inductive invariant holds in every state: the place where the handling
\* of a request is suspended fits its timer, its upstream and its response.
THEOREM Invariant == Spec => []IInv
BY InitInv, NextInv, PTL DEF Spec

-----------------------------------------------------------------------------
\* Every variable keeps its type.
THEOREM TypeCorrect == Spec => []TypeOk
<1>1. IInv => TypeOk
  BY DEF IInv
<1> QED BY <1>1, Invariant, PTL

\* updateAction of actionController.ts replaces the object on a type switch,
\* so no request ever finds an object its implementation cannot read.
THEOREM WaitingRequestsFindTheirType == Spec => []ImplFitsAction
<1>1. IInv => ImplFitsAction
  BY DEF IInv, ImplFitsAction, Holds, Waiting
<1> QED BY <1>1, Invariant, PTL

\* The proxy timer never cuts a response that has begun: finish destroys one
\* only when the upstream failed.
THEOREM TimerNeverCutsStreams == Spec => []StreamsAreNotCut
<1>1. IInv => StreamsAreNotCut
  BY DEF IInv, StreamsAreNotCut, ReqInv, CutFromOutside
<1> QED BY <1>1, Invariant, PTL

\* A settled request has no exchange with its upstream.
THEOREM SettledFreesUpstream == Spec => []UpstreamReleased
<1>1. IInv => UpstreamReleased
  BY DEF IInv, TypeOk, Upstream, UpstreamReleased, ReqInv, AskedWaits, AnsweringPipes
<1> QED BY <1>1, Invariant, PTL

\* The log never contradicts what the client received.
THEOREM LogIsTruthful == Spec => []LogTellsTheAnswer
<1>1. IInv => LogTellsTheAnswer
  BY DEF IInv, LogTellsTheAnswer, ReqInv, LogAgrees
<1> QED BY <1>1, Invariant, PTL

-----------------------------------------------------------------------------
LEMMA ServeAnswersOnce ==
  ASSUME TypeOk, NEW r \in Request, ReqInv(r), Serve(r), sent[r] # "none"
  PROVE  sent'[r] = sent[r]
<1> USE DEF TypeOk, answer, Goto, Log, Send, Reads, ReqInv, Quiet
<1>1. CASE Arrive(r) \/ ArrivePreflight(r)
  BY <1>1 DEF Arrive, ArrivePreflight, Choose
<1>2. CASE AnswerCustom(r) \/ CustomThrows(r) \/ FileMissing(r) \/ FileBegins(r) \/ FileEnds(r)
  BY <1>2 DEF AnswerCustom, CustomThrows, FileMissing, FileBegins, FileEnds
<1>3. CASE TimerFires(r)
  BY <1>3 DEF TimerFires, TimerWaits
<1>4. CASE UpstreamFails(r) \/ UpstreamHeaders(r)
  BY <1>4 DEF UpstreamFails, Finish, Pending, UpstreamHeaders, ProxyRes, AskedWaits,
     BodyStreams
<1>5. CASE BeginProxy(r) \/ HeadersRefused(r) \/ UpstreamEnds(r) \/ Undecodable(r) \/ UpstreamBreaks(r)
  BY <1>5 DEF BeginProxy, HeadersRefused, UpstreamEnds, Undecodable, UpstreamBreaks
<1>6. CASE ClientLeaves(r)
  BY <1>6 DEF ClientLeaves
<1> QED BY <1>1, <1>2, <1>3, <1>4, <1>5, <1>6 DEF Serve, Proxy

\* However the timer, the upstream, its errors and the client race, a client
\* gets one answer.
THEOREM OneAnswer == Spec => AnsweredOnce
<1>1. ASSUME IInv, [Next]_vars
      PROVE  [\A r \in Request : sent[r] # "none" => sent'[r] = sent[r]]_vars
  <2>1. SUFFICES ASSUME NEW r \in Request, sent[r] # "none" PROVE sent'[r] = sent[r]
    OBVIOUS
  <2>2. CASE Edit
    BY <1>1, <2>2, EditKeepsTypes DEF IInv, answer
  <2>3. ASSUME NEW s \in Request, Serve(s) PROVE sent'[r] = sent[r]
    BY <1>1, <2>1, <2>3, ServeAnswersOnce, OthersAlone DEF IInv, PerRequest
  <2>4. CASE UNCHANGED vars
    BY <2>4 DEF vars
  <2> QED BY <1>1, <2>2, <2>3, <2>4 DEF Next
<1> QED BY <1>1, Invariant, PTL DEF Spec, AnsweredOnce

-----------------------------------------------------------------------------
LEMMA DesktopStep == DesktopNext => Next
<1>1. IpcEdit => Edit
  BY DEF IpcEdit, Edit, IpcCreateAction, IpcSwitchType, IpcUpdateAction, IpcDeleteAction
<1>2. ASSUME NEW r \in Request, DesktopServe(r) PROVE Serve(r)
  BY <1>2 DEF DesktopServe, Serve, Proxy, DesktopArrive, DesktopArrivePreflight,
              DesktopAnswerCustom, DesktopCustomThrows, DesktopFileMissing,
              DesktopFileBegins, DesktopFileEnds, DesktopBeginProxy, DesktopTimerFires,
              DesktopUpstreamFails, DesktopUpstreamHeaders, DesktopHeadersRefused,
              DesktopUpstreamEnds,
              DesktopUndecodable, DesktopUpstreamBreaks, DesktopClientLeaves
<1> QED BY <1>1, <1>2 DEF DesktopNext, Next

\* The mock server of the desktop build is a MockRequest too: every theorem
\* above holds of the actions under desktop/electron.
THEOREM DesktopImplements == BothSpec => Spec
<1>1. [Next \/ DesktopNext]_vars => [Next]_vars
  BY DesktopStep
<1> QED BY <1>1, PTL DEF BothSpec, Spec

-----------------------------------------------------------------------------
(* The dialog.  The name of a row joins its keys.                            *)

LEMMA NaturalInduction ==
  ASSUME NEW T, 0 \in T, \A n \in Nat : n \in T => n + 1 \in T
  PROVE  Nat \subseteq T
<1> SUFFICES ASSUME Nat \ T # {} PROVE FALSE
  OBVIOUS
<1>1. Nat \ T \subseteq Nat
  OBVIOUS
<1>2. PICK m \in Nat \ T : \A n \in Nat \ T : <<n, m>> \notin OpToRel(<, Nat)
  BY <1>1, NatLessThanWellFounded, WFMin
<1>3. \A n \in Nat \ T : ~(n < m)
  BY <1>2 DEF OpToRel
<1>4. m \in Nat /\ m \notin T /\ m # 0
  BY <1>2
<1>5. m - 1 \in Nat /\ m - 1 < m /\ (m - 1) + 1 = m
  BY <1>4
<1>6. m - 1 \in T
  BY <1>3, <1>5
<1> QED BY <1>4, <1>5, <1>6

\* f[i] is the name that the first i of the first n keys make.
Joined(f, keys, n) ==
    f = [i \in 0 .. n |-> IF i = 0 THEN Blank
                          ELSE IF f[i - 1] = Blank THEN keys[i] ELSE f[i - 1] \o keys[i]]

LEMMA BlankIs == Len(Blank) = 1
<1>1. \A S : \A e \in S : Len(<<e>>) = 1
  OBVIOUS
<1>2. PICK e \in {""} : Blank = <<e>>
  BY Zenon DEF Blank
<1> QED BY <1>1, <1>2

LEMMA JoinedExists ==
  ASSUME NEW keys, NEW n \in Nat
  PROVE  \E f : Joined(f, keys, n)
<1> DEFINE T == {m \in Nat : \E f : Joined(f, keys, m)}
           Next_(p, i) == IF p = Blank THEN keys[i] ELSE p \o keys[i]
<1>1. 0 \in T
  <2> DEFINE f == [i \in 0 .. 0 |-> Blank]
  <2>1. f = [i \in 0 .. 0 |-> IF i = 0 THEN Blank ELSE Next_(f[i - 1], i)]
    OBVIOUS
  <2> QED BY <2>1 DEF Joined
<1>2. ASSUME NEW m \in Nat, m \in T PROVE m + 1 \in T
  <2>1. PICK f : Joined(f, keys, m)
    BY <1>2
  <2> DEFINE g == [i \in 0 .. m + 1 |-> IF i = m + 1 THEN Next_(f[m], i) ELSE f[i]]
  <2>2. f = [i \in 0 .. m |-> IF i = 0 THEN Blank ELSE Next_(f[i - 1], i)]
    BY <2>1 DEF Joined
  <2> HIDE DEF Next_
  <2>3. \A i \in 0 .. m : f[i] = IF i = 0 THEN Blank ELSE Next_(f[i - 1], i)
    BY <2>2
  <2>4. ASSUME NEW i \in 0 .. m + 1
        PROVE  g[i] = IF i = 0 THEN Blank ELSE Next_(g[i - 1], i)
    <3>1. CASE i = m + 1
      BY <3>1
    <3>2. CASE i # m + 1
      <4>1. i \in 0 .. m /\ (i # 0 => i - 1 \in 0 .. m)
        BY <3>2
      <4> QED BY <2>3, <3>2, <4>1
    <3> QED BY <3>1, <3>2
  <2>5. g = [i \in 0 .. m + 1 |-> IF i = 0 THEN Blank ELSE Next_(g[i - 1], i)]
    BY <2>4
  <2>6. Joined(g, keys, m + 1)
    BY <2>5 DEF Joined, Next_
  <2> QED BY <2>6
<1> HIDE DEF T
<1>3. n \in T
  BY <1>1, <1>2, NaturalInduction
<1> QED BY <1>3 DEF T

\* The path of a leaf, and its name.
LEMMA FlatIs ==
  ASSUME NEW S, NEW keys \in Seq(S)
  PROVE  \E f : /\ Flat(keys) = f[Len(keys)] /\ f[0] = Blank
                /\ \A i \in 1 .. Len(keys) :
                     f[i] = IF f[i - 1] = Blank THEN keys[i] ELSE f[i - 1] \o keys[i]
<1>1. Len(keys) \in Nat
  OBVIOUS
<1> DEFINE f == CHOOSE g : Joined(g, keys, Len(keys))
<1>2. Joined(f, keys, Len(keys))
  BY <1>1, JoinedExists
<1>3. Flat(keys) = f[Len(keys)]
  BY DEF Flat, Joined
<1> HIDE DEF f
<1>4. f[0] = Blank
  BY <1>1, <1>2 DEF Joined
<1>5. \A i \in 1 .. Len(keys) :
        f[i] = IF f[i - 1] = Blank THEN keys[i] ELSE f[i - 1] \o keys[i]
  BY <1>1, <1>2 DEF Joined
<1> QED BY <1>3, <1>4, <1>5

\* The name of a field of the outermost object is its key.
LEMMA FlatOne ==
  ASSUME NEW S, NEW keys \in Seq(S), Len(keys) = 1
  PROVE  Flat(keys) = keys[1]
<1>1. PICK f : /\ Flat(keys) = f[Len(keys)] /\ f[0] = Blank
               /\ \A i \in 1 .. Len(keys) :
                    f[i] = IF f[i - 1] = Blank THEN keys[i] ELSE f[i - 1] \o keys[i]
  BY FlatIs
<1>2. 1 \in 1 .. Len(keys) /\ 1 - 1 = 0
  OBVIOUS
<1> QED BY <1>1, <1>2

\* A name is a sequence of texts.
LEMMA FlatTyped ==
  ASSUME NEW keys \in Seq(Seq(STRING)), keys # << >>
  PROVE  Flat(keys) \in Seq(STRING)
<1>1. PICK f : /\ Flat(keys) = f[Len(keys)] /\ f[0] = Blank
               /\ \A i \in 1 .. Len(keys) :
                    f[i] = IF f[i - 1] = Blank THEN keys[i] ELSE f[i - 1] \o keys[i]
  BY FlatIs
<1> DEFINE T == {n \in Nat : n \in 1 .. Len(keys) => f[n] \in Seq(STRING)}
<1>2. 0 \in T
  OBVIOUS
<1>3. ASSUME NEW n \in Nat, n \in T PROVE n + 1 \in T
  <2> SUFFICES ASSUME n + 1 \in 1 .. Len(keys) PROVE f[n + 1] \in Seq(STRING)
    OBVIOUS
  <2>1. n + 1 \in 1 .. Len(keys) /\ (n + 1) - 1 = n /\ keys[n + 1] \in Seq(STRING)
    OBVIOUS
  <2>2. CASE n = 0
    <3>1. f[1] = keys[1]
      BY <1>1, <2>1, <2>2
    <3> QED BY <2>1, <2>2, <3>1
  <2>n. CASE n # 0
    <3>1. f[n] \in Seq(STRING)
      BY <1>3, <2>n, LenProperties
    <3>2. f[n + 1] = IF f[n] = Blank THEN keys[n + 1] ELSE f[n] \o keys[n + 1]
      BY <1>1, <2>1
    <3>3. f[n] \o keys[n + 1] \in Seq(STRING)
      BY <2>1, <3>1, ConcatProperties
    <3> QED BY <2>1, <3>2, <3>3
  <2> QED BY <2>2, <2>n
<1> HIDE DEF T
<1>4. Len(keys) \in T
  BY <1>2, <1>3, NaturalInduction, LenProperties
<1>5. Len(keys) \in 1 .. Len(keys)
  BY EmptySeq, LenProperties
<1> QED BY <1>1, <1>4, <1>5 DEF T

LEMMA ConcatOne ==
  ASSUME NEW S, NEW s \in Seq(S), NEW t \in Seq(S), Len(t) = 1
  PROVE  /\ s \o t \in Seq(S) /\ Len(s \o t) = Len(s) + 1
         /\ \A i \in 1 .. Len(s) : (s \o t)[i] = s[i]
         /\ (s \o t)[Len(s) + 1] = t[1]
<1>1. Len(s) \in Nat /\ Len(t) = 1
  BY LenProperties
<1>2. s \o t \in Seq(S)
  BY ConcatProperties
<1>3. /\ Len(s \o t) = Len(s) + Len(t)
      /\ \A i \in 1 .. Len(s) + Len(t) :
           (s \o t)[i] = IF i <= Len(s) THEN s[i] ELSE t[i - Len(s)]
  BY ConcatProperties, Zenon
<1>4. Len(s) + 1 \in 1 .. Len(s) + Len(t) /\ (Len(s) + 1) - Len(s) = 1 /\ ~(Len(s) + 1 <= Len(s))
  BY <1>1
<1>5. (s \o t)[Len(s) + 1] = t[1]
  BY <1>3, <1>4
<1>6. \A i \in 1 .. Len(s) : i \in 1 .. Len(s) + Len(t) /\ i <= Len(s)
  BY <1>1
<1>7. \A i \in 1 .. Len(s) : (s \o t)[i] = s[i]
  BY <1>3, <1>6
<1>8. Len(s \o t) = Len(s) + 1
  BY <1>1, <1>3
<1> QED BY <1>2, <1>5, <1>7, <1>8

\* Keys without a dot are the segments of the name, unless the first is empty.
LEMMA FlatSingles ==
  ASSUME NEW keys \in Seq(Seq(STRING)), keys # << >>, keys[1] # Blank,
         \A i \in 1 .. Len(keys) : Len(keys[i]) = 1
  PROVE  /\ Len(Flat(keys)) = Len(keys)
         /\ \A i \in 1 .. Len(keys) : Flat(keys)[i] = keys[i][1]
<1>1. PICK f : /\ Flat(keys) = f[Len(keys)] /\ f[0] = Blank
               /\ \A i \in 1 .. Len(keys) :
                    f[i] = IF f[i - 1] = Blank THEN keys[i] ELSE f[i - 1] \o keys[i]
  BY FlatIs
<1>l. Len(keys) \in Nat /\ Len(keys) # 0 /\ 1 \in 1 .. Len(keys)
  BY EmptySeq
<1> DEFINE Split(n) == /\ f[n] \in Seq(STRING) /\ Len(f[n]) = n /\ f[n] # Blank
                       /\ \A i \in 1 .. n : f[n][i] = keys[i][1]
           T == {n \in Nat : n \in 1 .. Len(keys) => Split(n)}
<1>2. 0 \in T
  OBVIOUS
<1>3. ASSUME NEW n \in Nat, n \in T PROVE n + 1 \in T
  <2> SUFFICES ASSUME n + 1 \in 1 .. Len(keys) PROVE Split(n + 1)
    OBVIOUS
  <2>1. keys[n + 1] \in Seq(STRING) /\ Len(keys[n + 1]) = 1
    OBVIOUS
  <2>2. CASE n = 0
    <3>1. f[1] = keys[1]
      BY <1>1, <1>l
    <3> QED BY <2>1, <2>2, <3>1
  <2>3. CASE n # 0
    <3>0. n \in 1 .. Len(keys) /\ n + 1 # 1 /\ (n + 1) - 1 = n
      BY <1>l, <2>3
    <3>1. f[n + 1] = f[n] \o keys[n + 1] /\ Split(n)
      <4>1. Split(n)
        BY <1>3, <3>0
      <4> QED BY <1>1, <3>0, <4>1
    <3>2. f[n] \in Seq(STRING) /\ Len(f[n]) = n /\ \A i \in 1 .. n : f[n][i] = keys[i][1]
      BY <3>1
    <3> HIDE DEF T, Split
    <3>3. PICK s : s = f[n]
      OBVIOUS
    <3>4. PICK t : t = keys[n + 1]
      OBVIOUS
    <3>5. s \in Seq(STRING) /\ t \in Seq(STRING) /\ Len(t) = 1 /\ Len(s) = n
      BY <2>1, <3>2, <3>3, <3>4
    <3>6. /\ s \o t \in Seq(STRING) /\ Len(s \o t) = n + 1
          /\ \A i \in 1 .. n : (s \o t)[i] = s[i]
          /\ (s \o t)[n + 1] = t[1]
      <4>1. /\ s \o t \in Seq(STRING) /\ Len(s \o t) = Len(s) + 1
            /\ \A i \in 1 .. Len(s) : (s \o t)[i] = s[i]
            /\ (s \o t)[Len(s) + 1] = t[1]
        BY <3>5, ConcatOne
      <4> QED BY <3>5, <4>1
    <3>7. ASSUME NEW i \in 1 .. n + 1 PROVE (s \o t)[i] = keys[i][1]
      <4>1. CASE i \in 1 .. n
        BY <3>2, <3>3, <3>6, <4>1
      <4>2. CASE i = n + 1
        BY <3>4, <3>6, <4>2
      <4>3. i \in 1 .. n \/ i = n + 1
        OBVIOUS
      <4> QED BY <4>1, <4>2, <4>3
    <3>8. s \o t # Blank
      <4>1. Len(s \o t) # 1 /\ Len(Blank) = 1
        BY <2>3, <3>6, BlankIs
      <4> QED BY <4>1
    <3> QED BY <3>1, <3>3, <3>4, <3>6, <3>7, <3>8 DEF Split
  <2> QED BY <2>2, <2>3
<1> HIDE DEF T
<1>4. Len(keys) \in T
  BY <1>2, <1>3, NaturalInduction, LenProperties
<1>5. Split(Len(keys))
  <2>1. Len(keys) \in 1 .. Len(keys)
    BY <1>l
  <2> QED BY <1>4, <2>1 DEF T
<1>6. PICK name : name = Flat(keys)
  OBVIOUS
<1>7. Len(name) = Len(keys) /\ \A i \in 1 .. Len(keys) : name[i] = keys[i][1]
  <2>1. name = f[Len(keys)]
    BY <1>1, <1>6
  <2> QED BY <1>5, <2>1
<1> QED BY <1>6, <1>7

\* What lodash finds in a plain document under the name of a row.
LEMMA PathTyped ==
  ASSUME NEW doc, Document(doc), NEW k \in DOMAIN doc.leaf
  PROVE  /\ k \in Seq(Seq(STRING)) /\ k # << >> /\ Len(k) \in Nat \ {0}
         /\ DOMAIN k = 1 .. Len(k) /\ Flat(k) \in Seq(STRING)
         /\ doc.leaf[k].kind \in {"string", "scalar"}
<1>1. /\ k \in Seq(Seq(STRING)) /\ k # << >>
      /\ doc.leaf[k].kind \in {"string", "scalar"}
  BY DEF Document
<1>2. Len(k) \in Nat /\ DOMAIN k = 1 .. Len(k)
  BY <1>1, LenProperties
<1>3. Len(k) # 0
  BY <1>1, EmptySeq
<1> QED BY <1>1, <1>2, <1>3, FlatTyped

LEMMA TextIs ==
  ASSUME NEW doc, Document(doc), NEW k \in DOMAIN doc.leaf
  PROVE  Flat(k) \in Names(doc) /\ TextOf(doc, Flat(k)) = doc.leaf[k].text
<1>1. \A j \in DOMAIN doc.leaf : Flat(j) = Flat(k) => j = k
  BY DEF Document
<1>2. (CHOOSE j \in DOMAIN doc.leaf : Flat(j) = Flat(k)) = k
  BY <1>1
<1> QED BY <1>2 DEF Names, TextOf

LEMMA GetNamed ==
  ASSUME NEW doc, Document(doc), Plain(doc), NEW k \in DOMAIN doc.leaf
  PROVE  Get(doc, Flat(k)) = doc.leaf[k]
<1> DEFINE name == Flat(k)
           split == [i \in DOMAIN name |-> <<name[i]>>]
<1>0. \A path : At(doc, path) = doc.leaf[k] /\ Path(doc, name) = path
                  => Get(doc, name) = doc.leaf[k]
  <2>1. doc.leaf[k].kind \in {"string", "scalar"} /\ Absent.kind = "absent"
    BY PathTyped DEF Absent
  <2>2. doc.leaf[k] # Absent
    BY <2>1
  <2> QED BY <2>2 DEF Get
<1>1. /\ k \in Seq(Seq(STRING)) /\ k # << >> /\ Len(k) \in Nat \ {0}
      /\ DOMAIN k = 1 .. Len(k) /\ name \in Seq(STRING)
      /\ doc.leaf[k].kind \in {"string", "scalar"}
  BY PathTyped
<1>2. doc.leaf[k] # Absent
  BY <1>1 DEF Absent
<1>3. CASE Len(k) = 1
  <2>1. name = k[1]
    BY <1>1, <1>3, FlatOne
  <2>2. k = <<name>>
    BY <1>1, <1>3, <2>1
  <2>3. At(doc, <<name>>) = doc.leaf[k]
    BY <2>2 DEF At
  <2>4. Path(doc, name) = <<name>>
    BY <1>2, <2>3 DEF Path
  <2> QED BY <1>0, <2>3, <2>4
<1>4. CASE Len(k) # 1
  <2>0. /\ k[1] # Blank /\ name \notin DOMAIN Cut
        /\ \A i \in 1 .. Len(k) : Len(k[i]) = 1
    <3>1. Len(k) > 1
      BY <1>1, <1>4
    <3> QED BY <1>1, <3>1 DEF Plain
  <2>1. \A i \in 1 .. Len(k) : Len(k[i]) = 1
    BY <2>0
  <2>2. Len(name) = Len(k) /\ \A i \in 1 .. Len(k) : name[i] = k[i][1]
    BY <1>1, <2>0, FlatSingles
  <2>3. split = k
    <3>1. DOMAIN name = 1 .. Len(k)
      BY <1>1, <2>2, LenProperties
    <3>2. ASSUME NEW i \in 1 .. Len(k) PROVE <<name[i]>> = k[i]
      <4>1. k[i] \in Seq(STRING) /\ Len(k[i]) = 1
        BY <1>1, <2>1
      <4>2. k[i] = <<k[i][1]>>
        BY <4>1
      <4> QED BY <2>2, <4>2
    <3>3. k = [i \in 1 .. Len(k) |-> k[i]]
      BY <1>1
    <3> QED BY <3>1, <3>2, <3>3
  <2>4. <<name>> \notin DOMAIN doc.leaf
    <3> SUFFICES ASSUME <<name>> \in DOMAIN doc.leaf PROVE FALSE
      OBVIOUS
    <3>1. <<name>> \in Seq(Seq(STRING)) /\ Len(<<name>>) = 1 /\ <<name>>[1] = name
      BY <1>1
    <3>2. Flat(<<name>>) = name
      BY <3>1, FlatOne
    <3>3. <<name>> = k
      BY <3>2 DEF Document
    <3> QED BY <1>4, <3>1, <3>3
  <2>5. \A j \in DOMAIN doc.leaf : ~IsPrefix(<<name>>, j)
    <3> SUFFICES ASSUME NEW j \in DOMAIN doc.leaf, IsPrefix(<<name>>, j) PROVE FALSE
      OBVIOUS
    <3>1. j \in Seq(Seq(STRING)) /\ Len(j) \in Nat \ {0} /\ DOMAIN j = 1 .. Len(j)
      BY PathTyped
    <3>2. j[1] = name
      <4>1. Len(<<name>>) = 1
        OBVIOUS
      <4>2. SubSeq(<<name>>, 1, 1) = SubSeq(j, 1, 1)
        BY <4>1 DEF IsPrefix
      <4>3. SubSeq(<<name>>, 1, 1)[1] = name /\ SubSeq(j, 1, 1)[1] = j[1]
        BY <3>1
      <4> QED BY <4>2, <4>3
    <3>3. Len(j) # 1
      <4> SUFFICES ASSUME Len(j) = 1 PROVE FALSE
        OBVIOUS
      <4>1. j = <<name>>
        BY <3>1, <3>2
      <4> QED BY <2>4, <4>1
    <3>4. Len(j[1]) = 1
      <4>1. Len(j) > 1 /\ 1 \in DOMAIN j
        BY <3>1, <3>3
      <4>2. \A i \in DOMAIN j : Len(j) > 1 => Len(j[i]) = 1
        BY DEF Plain
      <4> QED BY <4>1, <4>2
    <3> QED BY <1>4, <2>2, <3>2, <3>4
  <2>6. At(doc, <<name>>) = Absent
    BY <2>4, <2>5 DEF At
  <2>7. At(doc, split) = doc.leaf[k]
    BY <2>3 DEF At
  <2>8. Path(doc, name) = split
    BY <2>0, <2>6 DEF Path
  <2> QED BY <1>0, <2>7, <2>8
<1> QED BY <1>3, <1>4

LEMMA GetUnnamed ==
  ASSUME NEW doc, Document(doc), Plain(doc), NEW name \in Seq(STRING),
         name \notin Names(doc), Clear(doc, name)
  PROVE  Get(doc, name).kind \in {"absent", "object", "array"}
<1> DEFINE split == [i \in DOMAIN name |-> <<name[i]>>]
<1>1. \A keys : keys \notin DOMAIN doc.leaf => At(doc, keys).kind \in {"absent", "object", "array"}
  BY DEF At, Absent, Object, Array
<1>2. <<name>> \notin DOMAIN doc.leaf
  <2> SUFFICES ASSUME <<name>> \in DOMAIN doc.leaf PROVE FALSE
    OBVIOUS
  <2>1. <<name>> \in Seq(Seq(STRING)) /\ Len(<<name>>) = 1 /\ <<name>>[1] = name
    OBVIOUS
  <2>2. Flat(<<name>>) = name
    BY <2>1, FlatOne
  <2> QED BY <2>2 DEF Names
<1>3. split \notin DOMAIN doc.leaf
  <2> SUFFICES ASSUME split \in DOMAIN doc.leaf PROVE FALSE
    OBVIOUS
  <2>1. DOMAIN name = 1 .. Len(name) /\ Len(name) \in Nat
    BY LenProperties
  <2>2. /\ split \in Seq(Seq(STRING)) /\ split # << >> /\ Len(split) \in Nat
        /\ Flat(split) \in Seq(STRING)
    BY PathTyped
  <2>3. Len(split) = Len(name)
    BY <2>1, <2>2
  <2>4. \A i \in 1 .. Len(split) : Len(split[i]) = 1 /\ split[i][1] = name[i]
    BY <2>1, <2>3
  <2>a. CASE Len(name) = 1
    <3>1. split = <<name>>
      <4>1. name = <<name[1]>>
        BY <2>a
      <4>2. Len(split) = 1 /\ split[1] = <<name[1]>>
        BY <2>1, <2>2, <2>3, <2>a
      <4> QED BY <2>2, <4>1, <4>2
    <3> QED BY <1>2, <3>1
  <2>b. CASE Len(name) # 1
    <3>a. Len(split) > 1
      <4>1. Len(split) # 0
        BY <2>2, EmptySeq
      <4> QED BY <2>2, <2>3, <2>b, <4>1
    <3>b. split[1] # Blank
      BY <3>a DEF Plain
    <3> HIDE DEF split
    <3>5. /\ Len(Flat(split)) = Len(split)
          /\ \A i \in 1 .. Len(split) : Flat(split)[i] = split[i][1]
      BY <2>2, <2>4, <3>b, FlatSingles
    <3>6. Flat(split) = name
      <4>1. PICK f : f = Flat(split)
        OBVIOUS
      <4>2. f \in Seq(STRING) /\ Len(f) = Len(name) /\ \A i \in 1 .. Len(name) : f[i] = name[i]
        BY <2>2, <2>3, <2>4, <3>5, <4>1
      <4>3. f = name
        BY <4>2, SeqEqual
      <4> QED BY <4>1, <4>3
    <3> QED BY <3>6 DEF Names
  <2> QED BY <2>a, <2>b
<1>4. name \notin DOMAIN Cut /\ Get(doc, name) = At(doc, Path(doc, name))
  BY DEF Clear
<1>5. Path(doc, name) \in {<<name>>, split}
  BY <1>4 DEF Path
<1> HIDE DEF split
<1>6. Path(doc, name) \notin DOMAIN doc.leaf
  BY <1>2, <1>3, <1>5
<1> QED BY <1>1, <1>4, <1>6

-----------------------------------------------------------------------------
(* A matcher of a checked field holds exactly if the request says so.       *)

\* The slots of all rows the dialog can list.
RowSlots == UNION {Slots(l) : l \in Logged}

MatcherOf(s, row) ==
    [type |-> s[1], name |-> s[2], condition |-> row.condition, value |-> row.value]

LEMMA FieldMatches ==
  ASSUME NEW doc, Document(doc), Plain(doc), NEW name \in Seq(STRING),
         Clear(doc, name), NEW t
  PROVE  MatchAnyValue(Get(doc, name), "IS", t)
             <=> name \in Names(doc) /\ TextOf(doc, name) = t
<1>1. CASE name \in Names(doc)
  <2>1. PICK k \in DOMAIN doc.leaf : name = Flat(k)
    BY <1>1 DEF Names
  <2>2. Get(doc, name) = doc.leaf[k] /\ TextOf(doc, name) = doc.leaf[k].text
    BY <2>1, GetNamed, TextIs
  <2>3. doc.leaf[k].kind \in {"string", "scalar"}
    BY PathTyped
  <2> QED BY <1>1, <2>2, <2>3 DEF MatchAnyValue, StringMatch
<1>2. CASE name \notin Names(doc)
  BY <1>2, GetUnnamed DEF MatchAnyValue
<1> QED BY <1>1, <1>2

LEMMA NamesTyped ==
  ASSUME NEW doc, Document(doc), NEW name \in Names(doc)
  PROVE  name \in Seq(STRING) /\ DOMAIN doc.leaf # {}
BY PathTyped DEF Names

LEMMA SlotMatches ==
  ASSUME NEW s \in RowSlots, NEW row, row.condition = "IS",
         NEW slots, s \in slots, NEW req \in Logged, Unambiguous(req, slots)
  PROVE  Matches(req, MatcherOf(s, row)) <=> Says(req, s, row.value)
<1> DEFINE m == MatcherOf(s, row)
<1>1. m.type = s[1] /\ m.name = s[2] /\ m.condition = "IS" /\ m.value = row.value
  BY DEF MatcherOf
<1>2. PICK l \in Logged : s \in Slots(l)
  BY DEF RowSlots
<1>3. /\ Document(l.query) /\ Document(l.body) /\ Document(req.query) /\ Document(req.body)
      /\ DOMAIN req.body.leaf # {} => req.hasFields
  BY LogAssumption
<1>p. /\ Plain(req.query) /\ Plain(req.body)
      /\ s[1] = "query" => Clear(req.query, s[2])
      /\ s[1] = "param" => Clear(req.body, s[2])
  BY DEF Unambiguous
<1> HIDE DEF m
<1>4. CASE s[1] = "method"
  BY <1>1, <1>4 DEF Matches, MethodMatches, StringMatch, Says, m
<1>5. CASE s[1] = "path"
  BY <1>1, <1>5 DEF Matches, PathMatches, StringMatch, Says, m
<1>6. CASE s[1] = "query"
  <2>1. s[2] \in Seq(STRING)
    BY <1>2, <1>3, <1>6, NamesTyped DEF Slots
  <2>2. MatchAnyValue(Get(req.query, s[2]), "IS", row.value)
            <=> s[2] \in Names(req.query) /\ TextOf(req.query, s[2]) = row.value
    BY <1>3, <1>6, <1>p, <2>1, FieldMatches
  <2>3. Says(req, s, row.value)
            <=> s[2] \in Names(req.query) /\ TextOf(req.query, s[2]) = row.value
    BY <1>6 DEF Says
  <2> QED BY <1>1, <1>6, <2>2, <2>3 DEF Matches, QueryMatches, m
<1>7. CASE s[1] = "param"
  <2>1. s[2] \in Seq(STRING)
    BY <1>2, <1>3, <1>7, NamesTyped DEF Slots
  <2>2. MatchAnyValue(Get(req.body, s[2]), "IS", row.value)
            <=> s[2] \in Names(req.body) /\ TextOf(req.body, s[2]) = row.value
    BY <1>3, <1>7, <1>p, <2>1, FieldMatches
  <2>3. s[2] \in Names(req.body) => req.hasFields
    BY <1>3, NamesTyped
  <2>4. Says(req, s, row.value)
            <=> s[2] \in Names(req.body) /\ TextOf(req.body, s[2]) = row.value
    BY <1>7 DEF Says
  <2>5. Matches(req, m)
            <=> req.hasFields /\ MatchAnyValue(Get(req.body, s[2]), "IS", row.value)
    BY <1>1, <1>7 DEF Matches, ParamMatches
  <2> QED BY <2>2, <2>3, <2>4, <2>5 DEF m
<1>8. s[1] \in {"method", "path", "query", "param"}
  BY <1>2 DEF Slots
<1> QED BY <1>4, <1>5, <1>6, <1>7, <1>8 DEF m

-----------------------------------------------------------------------------
(* The invariant of the dialog.                                             *)

\* The answer of a draft nobody edited is the one built from its log.
DraftOk(d) ==
    /\ d = [log |-> d.log, rows |-> d.rows, status |-> d.status, content |-> d.content,
            headers |-> d.headers, saving |-> d.saving, answerEdited |-> d.answerEdited]
    /\ d.log \in Logged
    /\ DOMAIN d.rows = Slots(d.log)
    /\ ~d.answerEdited => /\ d.status = Draft(d.log).status
                          /\ d.content = Draft(d.log).content
                          /\ d.headers = Draft(d.log).headers

Replayed(e) ==
    ~e.answerEdited /\ e.from.res.type = "json" /\ e.from.res.body = "object" =>
        /\ e.status = e.from.res.status
        /\ e.content = e.from.res.body
        /\ e.headers = e.from.res.headers \cap {"content-type"}

\* An expectation has a matcher per ticked row of some log.
MockOk(e) ==
    /\ DOMAIN e.ticked \subseteq RowSlots
    /\ e.matchers = {MatcherOf(s, e.ticked[s]) : s \in DOMAIN e.ticked}
    /\ Replayed(e)

FlightOk(f) ==
    /\ f = [mock |-> f.mock, own |-> f.own]
    /\ MockOk(f.mock)
    /\ f.own \in BOOLEAN /\ (f.own => Open)

DialogInv ==
    /\ Open => DraftOk(dialog)
    /\ \A f \in flights : FlightOk(f)
    /\ \A e \in created : MockOk(e)

LEMMA OpenDraft ==
  ASSUME NEW d, DraftOk(d)
  PROVE  d # NoDialog
<1>1. DOMAIN d = {"log", "rows", "status", "content", "headers", "saving", "answerEdited"}
  BY DEF DraftOk
<1>2. DOMAIN NoDialog = {"log"}
  BY DEF NoDialog
<1> QED BY <1>1, <1>2

LEMMA DraftIsOk ==
  ASSUME NEW l \in Logged
  PROVE  DraftOk(Draft(l))
BY DEF DraftOk, Draft, DraftRows

\* The expectation made from a draft.
LEMMA ExpectationIsOk ==
  ASSUME NEW d, DraftOk(d)
  PROVE  MockOk(Expectation(d))
<1> DEFINE e == Expectation(d)
           checked == {x \in DOMAIN d.rows : d.rows[x].checked}
<1>1. e.ticked = [s \in checked |-> d.rows[s]]
  BY DEF Expectation
<1>2. DOMAIN e.ticked = checked /\ \A s \in checked : e.ticked[s] = d.rows[s]
  BY <1>1
<1>3. DOMAIN e.ticked \subseteq RowSlots
  BY <1>2 DEF DraftOk, RowSlots
<1>4. e.matchers = {MatcherOf(s, d.rows[s]) : s \in checked}
  BY DEF Expectation, CheckedRows, MatcherOf
<1>5. e.matchers = {MatcherOf(s, e.ticked[s]) : s \in DOMAIN e.ticked}
  BY <1>2, <1>4
<1>6. Replayed(e)
  <2>1. /\ e.status = d.status /\ e.from = d.log /\ e.answerEdited = d.answerEdited
        /\ e.content = IF d.content = "" THEN "{}" ELSE d.content
        /\ e.headers = {h \in DOMAIN d.headers : d.headers[h]}
    BY DEF Expectation
  <2> SUFFICES ASSUME ~d.answerEdited, d.log.res.type = "json", d.log.res.body = "object"
               PROVE  /\ e.status = d.log.res.status
                      /\ e.content = d.log.res.body
                      /\ e.headers = d.log.res.headers \cap {"content-type"}
    BY <2>1 DEF Replayed
  <2>2. d.log.res # NoResponse
    BY DEF NoResponse
  <2>3. /\ d.status = d.log.res.status /\ d.content = d.log.res.body
        /\ d.headers = DraftHeaders(d.log.res)
    BY <2>2 DEF DraftOk, Draft, DraftContent
  <2>4. {h \in DOMAIN d.headers : d.headers[h]} = d.log.res.headers \cap {"content-type"}
    BY <2>3 DEF DraftHeaders, SystemHeader
  <2> QED BY <2>1, <2>3, <2>4
<1> QED BY <1>3, <1>5, <1>6 DEF MockOk

LEMMA OrphansAreOk ==
  ASSUME \A f \in flights : FlightOk(f)
  PROVE  \A f \in Orphans : f = [mock |-> f.mock, own |-> FALSE] /\ MockOk(f.mock)
<1> SUFFICES ASSUME NEW g \in flights
             PROVE  LET f == [g EXCEPT !.own = FALSE]
                    IN  f = [mock |-> f.mock, own |-> FALSE] /\ MockOk(f.mock)
  BY DEF Orphans
<1>1. g = [mock |-> g.mock, own |-> g.own] /\ MockOk(g.mock)
  BY DEF FlightOk
<1>2. [g EXCEPT !.own = FALSE] = [mock |-> g.mock, own |-> FALSE]
  <2>1. PICK m, o : g = [mock |-> m, own |-> o]
    BY <1>1
  <2>2. \A b : [[mock |-> m, own |-> o] EXCEPT !.own = b] = [mock |-> m, own |-> b]
    OBVIOUS
  <2>3. g.mock = m
    BY <2>1
  <2> QED BY <2>1, <2>2, <2>3, Zenon
<1> QED BY <1>1, <1>2

LEMMA SavingIsOk ==
  ASSUME NEW d, DraftOk(d), NEW b
  PROVE  DraftOk([d EXCEPT !.saving = b])
BY DEF DraftOk

\* A step that leaves a dialog open keeps what belongs to it.
LEMMA KeepFlights ==
  ASSUME DialogInv, UNCHANGED flights, Open => Open'
  PROVE  \A f \in flights' : FlightOk(f)'
BY DEF DialogInv, FlightOk, MockOk, Replayed

LEMMA KeepCreated ==
  ASSUME DialogInv, UNCHANGED created
  PROVE  \A e \in created' : MockOk(e)
BY DEF DialogInv

LEMMA EditStep ==
  ASSUME DialogInv, Open, DraftOk(dialog'), UNCHANGED <<flights, created>>
  PROVE  DialogInv'
<1>1. DraftOk(dialog)' /\ Open'
  BY OpenDraft DEF DraftOk, Open, NoDialog
<1>2. \A f \in flights' : FlightOk(f)'
  BY <1>1, KeepFlights
<1>3. \A e \in created' : MockOk(e)'
  BY KeepCreated DEF MockOk, Replayed
<1> QED BY <1>1, <1>2, <1>3 DEF DialogInv

LEMMA DialogInitInv == DialogInit => DialogInv
BY DEF DialogInit, DialogInv, Open

LEMMA OnChangeInv ==
  ASSUME DialogInv, NEW s \in DOMAIN dialog.rows, OnChange(s)
  PROVE  DialogInv'
<1>1. Open /\ DraftOk(dialog) /\ UNCHANGED <<flights, created>>
  BY DEF OnChange, DialogInv
<1>2. PICK row : dialog' = [dialog EXCEPT !.rows[s] = row]
  <2>1. CASE dialog' = [dialog EXCEPT !.rows[s].checked = ~@]
    BY <2>1
  <2>2. CASE \E c \in Condition \ {dialog.rows[s].condition} :
               dialog' = [dialog EXCEPT !.rows[s].condition = c]
    BY <2>2
  <2>3. CASE \E v \in Value \ {dialog.rows[s].value} :
               dialog' = [dialog EXCEPT !.rows[s].value = v]
    BY <2>3
  <2> QED BY <2>1, <2>2, <2>3 DEF OnChange
<1>3. DraftOk(dialog')
  BY <1>1, <1>2 DEF DraftOk
<1> QED BY <1>1, <1>3, EditStep

LEMMA EditAnswerInv ==
  ASSUME DialogInv, EditAnswer
  PROVE  DialogInv'
<1>1. Open /\ DraftOk(dialog) /\ UNCHANGED <<flights, created>>
  BY DEF EditAnswer, DialogInv
<1>2. CASE dialog' = [dialog EXCEPT !.status = 404, !.answerEdited = TRUE]
  <2>1. PICK d : d = dialog
    OBVIOUS
  <2>2. PICK e : e = [d EXCEPT !.status = 404, !.answerEdited = TRUE]
    OBVIOUS
  <2>a. d = [log |-> d.log, rows |-> d.rows, status |-> d.status, content |-> d.content,
             headers |-> d.headers, saving |-> d.saving, answerEdited |-> d.answerEdited]
    BY <1>1, <2>1 DEF DraftOk
  <2>b. e = [log |-> d.log, rows |-> d.rows, status |-> 404, content |-> d.content,
             headers |-> d.headers, saving |-> d.saving, answerEdited |-> TRUE]
    BY <2>2, <2>a, ZenonT(60)
  <2>3. /\ e = [log |-> e.log, rows |-> e.rows, status |-> e.status, content |-> e.content,
                headers |-> e.headers, saving |-> e.saving, answerEdited |-> e.answerEdited]
        /\ e.log = d.log /\ e.rows = d.rows /\ e.answerEdited
    BY <2>b
  <2>c. d.log \in Logged /\ DOMAIN d.rows = Slots(d.log)
    BY <1>1, <2>1 DEF DraftOk
  <2>4. DraftOk(e)
    <3>1. e.log \in Logged /\ DOMAIN e.rows = Slots(e.log)
      BY <2>3, <2>c
    <3> QED BY <2>3, <3>1 DEF DraftOk
  <2> QED BY <1>1, <1>2, <2>1, <2>2, <2>4, EditStep
<1>3. CASE \E c \in {"", "edited", "invalid"} :
             dialog' = [dialog EXCEPT !.content = c, !.answerEdited = TRUE]
  <2>1. DraftOk(dialog')
    BY <1>1, <1>3 DEF DraftOk
  <2> QED BY <1>1, <2>1, EditStep
<1>4. CASE \E h \in DOMAIN dialog.headers :
             dialog' = [dialog EXCEPT !.headers[h] = ~@, !.answerEdited = TRUE]
  <2>1. DraftOk(dialog')
    BY <1>1, <1>4 DEF DraftOk
  <2> QED BY <1>1, <2>1, EditStep
<1> QED BY <1>2, <1>3, <1>4 DEF EditAnswer

LEMMA HandleResetInv ==
  ASSUME DialogInv, HandleReset
  PROVE  DialogInv'
<1>1. Open /\ DraftOk(dialog) /\ UNCHANGED <<flights, created>>
  BY DEF HandleReset, DialogInv
<1>2. dialog' = [Draft(dialog.log) EXCEPT !.saving = dialog.saving]
  BY DEF HandleReset, Fresh
<1>3. dialog.log \in Logged
  BY <1>1 DEF DraftOk
<1>4. PICK d : d = Draft(dialog.log)
  OBVIOUS
<1>5. DraftOk([d EXCEPT !.saving = dialog.saving])
  BY <1>3, <1>4, DraftIsOk, SavingIsOk
<1>6. DraftOk(dialog')
  BY <1>2, <1>4, <1>5
<1> QED BY <1>1, <1>6, EditStep

LEMMA OpenForInv ==
  ASSUME DialogInv, NEW l \in Logged, OpenFor(l)
  PROVE  DialogInv'
<1>1. ~Open /\ dialog' = Draft(l) /\ UNCHANGED <<flights, created>>
  BY DEF OpenFor
<1>2. DraftOk(dialog')
  BY <1>1, DraftIsOk
<1>3. \A f \in flights' : FlightOk(f)'
  BY <1>1, KeepFlights
<1>4. \A e \in created' : MockOk(e)'
  BY <1>1, KeepCreated DEF MockOk, Replayed
<1> QED BY <1>2, <1>3, <1>4 DEF DialogInv, DraftOk

LEMMA CloseInv ==
  ASSUME DialogInv, Close
  PROVE  DialogInv'
<1>1. dialog' = NoDialog /\ flights' = Orphans /\ created' = created
  BY DEF Close
<1>2. \A f \in flights' : f = [mock |-> f.mock, own |-> FALSE] /\ MockOk(f.mock)
  BY <1>1, OrphansAreOk DEF DialogInv
<1>3. ASSUME NEW f \in flights' PROVE FlightOk(f)'
  <2>1. f = [mock |-> f.mock, own |-> FALSE] /\ MockOk(f.mock)
    BY <1>2
  <2>2. f.own = FALSE
    BY <2>1
  <2> QED BY <2>1, <2>2 DEF FlightOk, MockOk, Replayed
<1>4. \A e \in created' : MockOk(e)'
  BY <1>1, KeepCreated DEF MockOk, Replayed
<1> QED BY <1>1, <1>3, <1>4 DEF DialogInv, Open

LEMMA HandleSaveInv ==
  ASSUME DialogInv, HandleSave
  PROVE  DialogInv'
<1>1. /\ Open /\ DraftOk(dialog) /\ created' = created
      /\ dialog' = [dialog EXCEPT !.saving = TRUE]
      /\ flights' = flights \cup {[mock |-> Expectation(dialog), own |-> TRUE]}
  BY DEF HandleSave, DialogInv
<1>2. DraftOk(dialog')
  BY <1>1 DEF DraftOk
<1>3. Open'
  BY <1>2, OpenDraft DEF Open, NoDialog
<1>4. ASSUME NEW f \in flights' PROVE FlightOk(f)'
  <2>1. CASE f \in flights
    BY <1>3, <2>1 DEF DialogInv, FlightOk, MockOk, Replayed
  <2>2. CASE f = [mock |-> Expectation(dialog), own |-> TRUE]
    <3>1. MockOk(Expectation(dialog)) /\ f.mock = Expectation(dialog) /\ f.own = TRUE
      BY <1>1, <2>2, ExpectationIsOk
    <3>2. MockOk(f.mock)'
      BY <3>1 DEF MockOk, Replayed
    <3> QED BY <1>3, <2>2, <3>1, <3>2 DEF FlightOk
  <2> QED BY <1>1, <2>1, <2>2
<1>5. \A e \in created' : MockOk(e)'
  BY <1>1, KeepCreated DEF MockOk, Replayed
<1> QED BY <1>2, <1>4, <1>5 DEF DialogInv, DraftOk

LEMMA SavedInv ==
  ASSUME DialogInv, NEW f \in flights, Saved(f)
  PROVE  DialogInv'
<1>1. /\ created' = created \cup {f.mock} /\ dialog' = NoDialog
      /\ flights' = Orphans \ {f, [f EXCEPT !.own = FALSE]}
  BY DEF Saved
<1>2. \A g \in flights' : g = [mock |-> g.mock, own |-> FALSE] /\ MockOk(g.mock)
  BY <1>1, OrphansAreOk DEF DialogInv
<1>3. ASSUME NEW g \in flights' PROVE FlightOk(g)'
  <2>1. g = [mock |-> g.mock, own |-> FALSE] /\ MockOk(g.mock)
    BY <1>2
  <2>2. g.own = FALSE
    BY <2>1
  <2> QED BY <2>1, <2>2 DEF FlightOk, MockOk, Replayed
<1>4. \A e \in created' : MockOk(e)'
  BY <1>1 DEF DialogInv, FlightOk, MockOk, Replayed
<1> QED BY <1>1, <1>3, <1>4 DEF DialogInv, Open

LEMMA NotSavedInv ==
  ASSUME DialogInv, NEW f \in flights, NotSaved(f)
  PROVE  DialogInv'
<1>1. /\ created' \in {created, created \cup {f.mock}} /\ flights' = flights \ {f}
      /\ dialog' = IF f.own THEN [dialog EXCEPT !.saving = FALSE] ELSE dialog
  BY DEF NotSaved
<1>2. \A e \in created' : MockOk(e)'
  BY <1>1 DEF DialogInv, FlightOk, MockOk, Replayed
<1>3. /\ Open => DraftOk(dialog)
      /\ f.own \in BOOLEAN /\ (f.own => Open)
  BY DEF DialogInv, FlightOk
<1>4. /\ Open' => DraftOk(dialog')
      /\ Open => Open'
  <2>1. CASE f.own
    <3>1. Open /\ DraftOk(dialog) /\ dialog' = [dialog EXCEPT !.saving = FALSE]
      BY <1>1, <1>3, <2>1
    <3>2. DraftOk(dialog')
      BY <3>1 DEF DraftOk
    <3> QED BY <3>2, OpenDraft DEF Open, NoDialog
  <2>2. CASE ~f.own
    BY <1>1, <1>3, <2>2 DEF Open, NoDialog
  <2> QED BY <1>3, <2>1, <2>2
<1>5. \A g \in flights' : FlightOk(g)'
  BY <1>1, <1>4 DEF DialogInv, FlightOk, MockOk, Replayed
<1> QED BY <1>2, <1>4, <1>5 DEF DialogInv, DraftOk

\* The build does not change.
HostOk == host \in {"web", "desktop"}

LEMMA HostInv ==
  /\ DialogInit => HostOk
  /\ HostOk /\ [DialogNext]_dialogVars => HostOk'
BY DEF HostOk, DialogInit, DialogNext, dialogVars, WebDialogNext, DesktopDialogNext, DesktopOpenFor,
   DesktopClose, DesktopOnChange, DesktopEditAnswer, DesktopHandleReset, DesktopHandleSave,
   DesktopSaved, DesktopNotSaved, OpenFor, Close, OnChange, EditAnswer, HandleReset,
   HandleSave, Saved, NotSaved

LEMMA DialogNextInv == DialogInv /\ [DialogNext]_dialogVars => DialogInv'
<1> SUFFICES ASSUME DialogInv, [DialogNext]_dialogVars PROVE DialogInv'
  OBVIOUS
<1>1. CASE DialogNext
  <2>1. WebDialogNext
    BY <1>1 DEF DialogNext, DesktopDialogNext, WebDialogNext, DesktopOpenFor, DesktopClose,
       DesktopOnChange, DesktopEditAnswer, DesktopHandleReset, DesktopHandleSave,
       DesktopSaved, DesktopNotSaved
  <2> QED BY <2>1, OpenForInv, CloseInv, OnChangeInv, EditAnswerInv, HandleResetInv,
             HandleSaveInv, SavedInv, NotSavedInv DEF WebDialogNext
<1>2. CASE UNCHANGED dialogVars
  <2>1. UNCHANGED <<dialog, flights, created>>
    BY <1>2 DEF dialogVars
  <2>2. \A f \in flights' : FlightOk(f)'
    BY <2>1, KeepFlights DEF Open, NoDialog
  <2>3. \A e \in created' : MockOk(e)'
    BY <2>1, KeepCreated DEF MockOk, Replayed
  <2> QED BY <2>1, <2>2, <2>3 DEF DialogInv, DraftOk, Open, NoDialog
<1> QED BY <1>1, <1>2

\* An expectation made from a log accepts exactly the requests that say the
\* same in the checked fields (MockFromLogModal, "Only checked fields are
\* matched"), whatever is logged, edited, reset or saved again, in both
\* builds: OnlyCheckedFieldsAreMatched.
THEOREM MatchesTheCheckedFields == DialogSpec => []OnlyCheckedFieldsAreMatched
<1>1. DialogInv /\ HostOk => OnlyCheckedFieldsAreMatched
  <2> SUFFICES ASSUME DialogInv, HostOk, NEW e \in created,
                      \A s \in DOMAIN e.ticked : e.ticked[s].condition = "IS",
                      NEW req \in Logged, Unambiguous(req, DOMAIN e.ticked)
               PROVE  Served(e.matchers, req) <=>
                          \A s \in DOMAIN e.ticked : Says(req, s, e.ticked[s].value)
    BY DEF OnlyCheckedFieldsAreMatched
  <2>1. /\ DOMAIN e.ticked \subseteq RowSlots
        /\ e.matchers = {MatcherOf(s, e.ticked[s]) : s \in DOMAIN e.ticked}
    BY DEF DialogInv, MockOk
  <2>2. \A s \in DOMAIN e.ticked :
          Matches(req, MatcherOf(s, e.ticked[s])) <=> Says(req, s, e.ticked[s].value)
    BY <2>1, SlotMatches
  <2>3. (\A m \in e.matchers : Matches(req, m)) <=>
            \A s \in DOMAIN e.ticked : Matches(req, MatcherOf(s, e.ticked[s]))
    BY <2>1
  <2>4. Served(e.matchers, req) <=> \A m \in e.matchers : Matches(req, m)
    BY DEF HostOk, Served, Accepts, DesktopMatches
  <2> QED BY <2>2, <2>3, <2>4
<1> QED BY <1>1, DialogInitInv, DialogNextInv, HostInv, PTL DEF DialogSpec

\* A draft whose answer was left as captured, or reset to it, becomes an
\* expectation that replays the logged JSON answer without a header of the
\* transport: ReplaysTheAnswer.
THEOREM ReplayIsExact == DialogSpec => []ReplaysTheAnswer
<1>1. DialogInv => ReplaysTheAnswer
  BY DEF DialogInv, MockOk, Replayed, ReplaysTheAnswer
<1> QED BY <1>1, DialogInitInv, DialogNextInv, PTL DEF DialogSpec
=============================================================================
