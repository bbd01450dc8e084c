-------------------------- MODULE RequestLogProofs --------------------------
(***************************************************************************)
(* Proofs about the request log of both builds, for any number of          *)
(* requests and restarts and any limit MaxLogs, with or without torn       *)
(* crashes.  The inductive invariant says that the numbering is at or      *)
(* above every stored id whenever the project can take requests, which the *)
(* first start of a process has to re-establish from the logs that         *)
(* survived.                                                               *)
(***************************************************************************)
EXTENDS DesktopRequestLog, TLAPS, FiniteSetTheorems, SequenceTheorems

\* A stored or saved log belongs to a request that has arrived.
StoredArrived == \A r \in logs \cup disk.logs : handler[r] # "unsent"

\* A project that is started has a number, and no stored id exceeds it.
NumberCovers ==
    /\ started => number > 0
    /\ number > 0 => \A r \in logs : id[r] <= number

\* The ids given so far are bounded.
IdsBounded == \E b \in Nat : \A r \in Request : id[r] <= b

\* An open websocket's log object says so.
OpenSaysOpen == \A r \in Request : handler[r] = "open" => ws[r] = "OPEN"

\* No handler is at work while the START listeners run.
BootIsQuiet ==
    phase = "booting" => \A r \in Request : handler[r] \in {"unsent", "finished"}

IInv ==
    /\ LogTypeOk
    /\ disk.ws \in [Request -> WsStatus]
    /\ StoredArrived
    /\ NumberCovers
    /\ IdsBounded
    /\ UniqueIds
    /\ OpenSaysOpen
    /\ BootIsQuiet

-----------------------------------------------------------------------------
(* The largest id exists: what the CHOOSE of NewestNumber rests on.         *)

LEMMA LargestExists ==
  ASSUME NEW S \in SUBSET Nat, S # {}, NEW b \in Nat, \A i \in S : i <= b
  PROVE  \E i \in S : \A j \in S : j <= i
<1> DEFINE Upper == {n \in Nat : \A j \in S : j <= n}
<1>1. Upper \subseteq Nat /\ Upper # {}
  OBVIOUS
<1>2. PICK m \in Upper : \A n \in Upper : ~(<<n, m>> \in OpToRel(<, Nat))
  BY <1>1, NatLessThanWellFounded, WFMin
<1>3. \A n \in Upper : ~(n < m)
  BY <1>2 DEF OpToRel
<1>4. m \in S
  <2>1. SUFFICES ASSUME m \notin S PROVE FALSE
    OBVIOUS
  <2>2. \A j \in S : j < m
    BY <2>1
  <2>3. m > 0
    <3>1. PICK j \in S : TRUE
      OBVIOUS
    <3> QED BY <2>2, <3>1
  <2>4. m - 1 \in Upper
    BY <2>2, <2>3
  <2> QED BY <2>4, <1>3
<1> QED BY <1>4

LEMMA NewestNumberCovers ==
  ASSUME IInv
  PROVE  NewestNumber \in Nat /\ NewestNumber > 0 /\ \A r \in logs : id[r] <= NewestNumber
<1>1. CASE logs = {}
  BY <1>1 DEF NewestNumber, FirstNumber
<1>2. CASE logs # {}
  <2>1. Ids(logs) \in SUBSET Nat /\ Ids(logs) # {}
    BY <1>2 DEF IInv, LogTypeOk, Ids
  <2>2. PICK b \in Nat : \A i \in Ids(logs) : i <= b
    BY DEF IInv, IdsBounded, LogTypeOk, Ids
  <2>3. \E i \in Ids(logs) : \A j \in Ids(logs) : j <= i
    BY <2>1, <2>2, LargestExists
  <2> DEFINE m == CHOOSE i \in Ids(logs) : \A j \in Ids(logs) : j <= i
  <2>4. m \in Ids(logs) /\ \A j \in Ids(logs) : j <= m
    BY <2>3
  <2>5. NewestNumber = 1 + m
    BY <1>2 DEF NewestNumber
  <2>6. m \in Nat
    BY <2>1, <2>4
  <2>7. \A r \in logs : id[r] \in Ids(logs)
    BY DEF Ids
  <2>8. \A j \in Ids(logs) : j <= 1 + m
    BY <2>1, <2>4, <2>6
  <2> HIDE DEF m
  <2> QED BY <2>5, <2>6, <2>7, <2>8
<1> QED BY <1>1, <1>2

-----------------------------------------------------------------------------
LEMMA InitInv == Init => IInv
<1> SUFFICES ASSUME Init PROVE IInv
  OBVIOUS
<1> USE DEF Init
<1>1. /\ logs = {} /\ disk.logs = {}
      /\ ws = [r \in Request |-> "none"] /\ disk.ws = ws
  OBVIOUS
<1>2. LogTypeOk /\ disk.ws \in [Request -> WsStatus]
  <2>1. ws \in [Request -> WsStatus]
    BY <1>1 DEF WsStatus
  <2>2. handler \in [Request -> Handler]
    BY DEF Handler
  <2>3. id \in [Request -> Nat]
    OBVIOUS
  <2>4. restarts \in 0 .. MaxRestarts
    BY FlagsAssumption
  <2>5. phase \in {"booting", "up"} /\ started \in BOOLEAN /\ number \in Nat
    OBVIOUS
  <2> QED BY <1>1, <2>1, <2>2, <2>3, <2>4, <2>5 DEF LogTypeOk
<1>3. IdsBounded
  <2>1. \A r \in Request : id[r] <= 0
    OBVIOUS
  <2> QED BY <2>1 DEF IdsBounded
<1>4. StoredArrived /\ NumberCovers /\ UniqueIds /\ OpenSaysOpen /\ BootIsQuiet
  BY <1>1 DEF StoredArrived, NumberCovers, UniqueIds, OpenSaysOpen, BootIsQuiet
<1> QED BY <1>2, <1>3, <1>4 DEF IInv

LEMMA StartInv == ASSUME IInv, StartProject PROVE IInv'
<1>1. /\ number' \in Nat /\ number' > 0
      /\ \A r \in logs : id[r] <= number'
  BY NewestNumberCovers DEF StartProject, IInv, LogTypeOk, NumberCovers
<1>2. UNCHANGED <<phase, handler, id, ws, logs, disk, restarts>> /\ started' = TRUE
  BY DEF StartProject, objects, process
<1> QED
  BY <1>1, <1>2 DEF IInv, LogTypeOk, StoredArrived, NumberCovers, IdsBounded,
                    UniqueIds, OpenSaysOpen, BootIsQuiet

\* A stopped project keeps its number.
LEMMA StopInv == ASSUME IInv, StopProject PROVE IInv'
<1>1. UNCHANGED <<phase, number, handler, id, ws, logs, disk, restarts>> /\ started' = FALSE
  BY DEF StopProject, objects, process
<1> QED
  BY <1>1 DEF IInv, LogTypeOk, StoredArrived, NumberCovers, IdsBounded,
              UniqueIds, OpenSaysOpen, BootIsQuiet

\* A new log gets a number above every stored one.
LEMMA InsertInv ==
  ASSUME IInv, NEW r \in Request, NEW s \in {"none", "CONNECTING"},
         NEW to \in {"waiting", "connecting"}, InsertReqLog(r, s, to)
  PROVE  IInv'
<1> USE DEF IInv, LogTypeOk, Handler, WsStatus
<1>1. /\ handler[r] = "unsent" /\ started
      /\ handler' = [handler EXCEPT ![r] = to]
      /\ id' = [id EXCEPT ![r] = number']
      /\ ws' = [ws EXCEPT ![r] = s]
      /\ logs' = logs \cup {r}
      /\ UNCHANGED <<phase, started, disk, restarts>>
  BY DEF InsertReqLog, Move, process
<1>2. number > 0 /\ number' = number + 1
  BY <1>1 DEF NumberCovers, InsertReqLog, NewLogNumber
<1>3. r \notin logs /\ r \notin disk.logs
  BY <1>1 DEF StoredArrived
<1>4. LogTypeOk' BY <1>1, <1>2
<1>5. StoredArrived' BY <1>1 DEF StoredArrived
<1>6. NumberCovers' BY <1>1, <1>2 DEF NumberCovers
<1>7. IdsBounded'
  <2>1. PICK b \in Nat : \A q \in Request : id[q] <= b
    BY DEF IdsBounded
  <2>2. \A q \in Request : id'[q] <= b + number'
    BY <1>1, <1>2, <2>1
  <2>3. b + number' \in Nat
    BY <1>2
  <2> QED BY <2>2, <2>3 DEF IdsBounded
<1>8. UniqueIds'
  <2>1. \A q \in logs : id[q] < number'
    BY <1>2 DEF NumberCovers
  <2> QED BY <1>1, <1>3, <2>1 DEF UniqueIds
<1>9. OpenSaysOpen' BY <1>1 DEF OpenSaysOpen
<1>10. BootIsQuiet' BY <1>1 DEF BootIsQuiet, InsertReqLog
<1> QED BY <1>10, <1>4, <1>5, <1>6, <1>7, <1>8, <1>9, <1>1

\* Answers and websocket events change a log object, never its id, and add no
\* log to the collection.
LEMMA ServeInv ==
  ASSUME IInv, NEW r \in Request,
         Respond(r) \/ SocketOpens(r) \/ SocketMessage(r) \/ SocketEnds(r)
  PROVE  IInv'
<1> USE DEF IInv, LogTypeOk, Handler, WsStatus
<1>1. /\ handler[r] \in {"waiting", "connecting", "open"}
      /\ \/ handler' = [handler EXCEPT ![r] = "finished"]
         \/ handler' = [handler EXCEPT ![r] = "open"] /\ ws' = [ws EXCEPT ![r] = "OPEN"]
         \/ handler' = handler /\ ws' = ws
      /\ \/ ws' = ws \/ ws' = [ws EXCEPT ![r] = "OPEN"] \/ ws' = [ws EXCEPT ![r] = "CLOSED"]
      /\ UNCHANGED <<phase, started, number, id, logs, disk, restarts>>
  BY DEF Respond, SocketOpens, SocketMessage, SocketEnds, Move, UpdateLogIfPresent,
         project, objects, process
<1>2. LogTypeOk' /\ StoredArrived' BY <1>1 DEF StoredArrived
<1>3. NumberCovers' /\ IdsBounded' /\ UniqueIds'
  BY <1>1 DEF NumberCovers, IdsBounded, UniqueIds
<1>4. OpenSaysOpen' BY <1>1 DEF OpenSaysOpen
<1>5. BootIsQuiet'
  <2>1. phase # "booting"
    BY <1>1 DEF BootIsQuiet
  <2> QED BY <1>1, <2>1 DEF BootIsQuiet
<1> QED BY <1>1, <1>2, <1>3, <1>4, <1>5

\* Trimming and clearing take logs away and leave every object as it is.
LEMMA RemoveInv ==
  ASSUME IInv, PruneTick \/ DeleteAllLogs \/ BootTrim
  PROVE  IInv'
<1>1. logs' \subseteq logs
  BY DEF PruneTick, DeleteAllLogs, BootTrim, Trim
<1>2. UNCHANGED <<phase, started, number, handler, id, ws, disk, restarts>>
  BY DEF PruneTick, DeleteAllLogs, BootTrim, project, process
<1> QED
  BY <1>1, <1>2 DEF IInv, LogTypeOk, StoredArrived, NumberCovers, IdsBounded,
                    UniqueIds, OpenSaysOpen, BootIsQuiet

\* Saving copies the collection or the list to its file.
LEMMA SaveInv ==
  ASSUME IInv, SaveLog \/ SaveProject
  PROVE  IInv'
<1>1. UNCHANGED <<phase, started, number, handler, id, ws, logs, restarts>>
  BY DEF SaveLog, SaveProject, project, objects, process
<1>2. disk'.logs \in {logs, disk.logs} /\ disk'.ws \in [Request -> WsStatus]
  <2>1. CASE SaveLog
    <3>1. disk' = [disk EXCEPT !.logs = logs,
                               !.ws = [r \in Request |-> IF r \in logs THEN ws[r] ELSE "none"]]
      BY <2>1 DEF SaveLog
    <3>2. [r \in Request |-> IF r \in logs THEN ws[r] ELSE "none"] \in [Request -> WsStatus]
      BY DEF IInv, LogTypeOk, WsStatus
    <3> QED BY <3>1, <3>2
  <2>2. CASE SaveProject
    BY <2>2 DEF SaveProject, IInv
  <2> QED BY <2>1, <2>2
<1> QED
  BY <1>1, <1>2 DEF IInv, LogTypeOk, StoredArrived, NumberCovers, IdsBounded,
                    UniqueIds, OpenSaysOpen, BootIsQuiet

\* A restart forgets the numbering; the logs that survive are the saved ones.
LEMMA RestartInv == ASSUME IInv, Restart PROVE IInv'
<1> USE DEF IInv, LogTypeOk
<1>1. /\ phase' = "booting" /\ started' = FALSE /\ number' = 0
      /\ logs' = disk.logs /\ ws' = disk.ws
      /\ restarts' \in 0 .. MaxRestarts
      /\ UNCHANGED <<id, disk>>
  BY FlagsAssumption DEF Restart
<1>2. /\ handler' \in [Request -> {"unsent", "finished"}]
      /\ \A r \in Request : handler'[r] = "unsent" <=> handler[r] = "unsent"
  BY DEF Restart
<1>3. LogTypeOk' /\ disk'.ws \in [Request -> WsStatus]
  BY <1>1, <1>2 DEF Handler
<1>4. StoredArrived' BY <1>1, <1>2 DEF StoredArrived
<1>5. NumberCovers' /\ IdsBounded' /\ UniqueIds'
  BY <1>1 DEF NumberCovers, IdsBounded, UniqueIds
<1>6. OpenSaysOpen' /\ BootIsQuiet' BY <1>2 DEF OpenSaysOpen, BootIsQuiet
<1> QED BY <1>3, <1>4, <1>5, <1>6

\* The reset loop rewrites statuses while no websocket of this process exists.
LEMMA BootInv ==
  ASSUME IInv, ResetBegins \/ ResetOne \/ BootDone
  PROVE  IInv'
<1> USE DEF IInv, LogTypeOk
<1>1. /\ UNCHANGED <<started, number, handler, id, logs, disk, restarts>>
      /\ phase' \in {phase, "up"}
  BY DEF ResetBegins, ResetOne, BootDone, project, objects, process
<1>2. \/ ws' = ws
      \/ phase = "booting" /\ phase' = phase /\ ws' \in [Request -> WsStatus]
  <2>1. CASE ResetOne
    BY <2>1 DEF ResetOne, ResetStatus, WsStatus
  <2>2. CASE ResetBegins \/ BootDone
    BY <2>2 DEF ResetBegins, BootDone, objects
  <2> QED BY <2>1, <2>2
<1>3. LogTypeOk' /\ disk'.ws \in [Request -> WsStatus] BY <1>1, <1>2
<1>4. StoredArrived' /\ IdsBounded' /\ UniqueIds'
  BY <1>1 DEF StoredArrived, IdsBounded, UniqueIds
<1>5. NumberCovers' BY <1>1 DEF NumberCovers
<1>6. OpenSaysOpen' BY <1>1, <1>2 DEF OpenSaysOpen, BootIsQuiet
<1>7. BootIsQuiet' BY <1>1 DEF BootIsQuiet
<1> QED BY <1>3, <1>4, <1>5, <1>6, <1>7

-----------------------------------------------------------------------------
\* A step of either build; the desktop build only ends a websocket differently.
BuildNext == Next \/ \E r \in Request : DesktopSocketCloses(r)

LEMMA BuildStep == [HostNext]_hostVars => [BuildNext]_vars
<1>1. HostNext => BuildNext
  <2>1. ASSUME NEW r \in Request, DesktopServe(r) PROVE Serve(r) \/ DesktopSocketCloses(r)
    BY <2>1 DEF DesktopServe, Serve, DesktopArrivePlain, DesktopArriveSocket,
                DesktopRespond, DesktopSocketOpens, DesktopSocketMessage
  <2>2. DesktopPruneTick => PruneTick
    BY DEF DesktopPruneTick, DesktopTrim, PruneTick
  <2>3. DesktopNext => BuildNext
    BY <2>1, <2>2 DEF DesktopNext, BuildNext, Next, DesktopStart, DesktopStop,
                DesktopDeleteAllLogs, DesktopSaveLog, DesktopSaveProject, DesktopRestart,
                DesktopBootTrim, DesktopResetBegins, DesktopResetOne, DesktopBootDone
  <2> QED BY <2>3 DEF HostNext, BuildNext
<1> QED BY <1>1 DEF hostVars

LEMMA NextInv == ASSUME IInv, [BuildNext]_vars PROVE IInv'
<1>1. ASSUME NEW r \in Request, Serve(r) \/ SocketEnds(r) PROVE IInv'
  <2>1. CASE ArrivePlain(r)
    BY <2>1, InsertInv DEF ArrivePlain
  <2>2. CASE ArriveSocket(r)
    BY <2>2, InsertInv DEF ArriveSocket
  <2>3. CASE Respond(r) \/ SocketOpens(r) \/ SocketMessage(r) \/ SocketEnds(r)
    BY <2>3, ServeInv
  <2> QED BY <1>1, <2>1, <2>2, <2>3 DEF Serve, SocketCloses, DesktopSocketCloses
<1>2. CASE StartProject
  BY <1>2, StartInv
<1>3. CASE StopProject
  BY <1>3, StopInv
<1>8. CASE ResetBegins \/ ResetOne \/ BootDone
  BY <1>8, BootInv
<1>4. CASE PruneTick \/ DeleteAllLogs \/ BootTrim
  BY <1>4, RemoveInv
<1>5. CASE SaveLog \/ SaveProject
  BY <1>5, SaveInv
<1>6. CASE Restart
  BY <1>6, RestartInv
<1>7. CASE UNCHANGED vars
  BY <1>7 DEF vars, IInv, LogTypeOk, StoredArrived, NumberCovers, IdsBounded,
              UniqueIds, OpenSaysOpen, BootIsQuiet
<1> QED BY <1>1, <1>2, <1>3, <1>4, <1>5, <1>6, <1>7, <1>8 DEF BuildNext, Next, DesktopSocketCloses

-----------------------------------------------------------------------------
\* Every reachable state satisfies the inductive invariant.
THEOREM Invariant == HostSpec => []IInv
<1>1. HostInit => IInv
  BY InitInv DEF HostInit
<1>2. IInv /\ [HostNext]_hostVars => IInv'
  BY NextInv, BuildStep
<1> QED BY <1>1, <1>2, PTL DEF HostSpec

\* Log ids are unique in the collection and in log.db, whatever is trimmed,
\* cleared, saved, lost in a crash or loaded again (getMockRouter's numbering
\* and getNewLogNumber).
THEOREM IdsAreUnique == HostSpec => []UniqueIds
<1>1. IInv => UniqueIds
  BY DEF IInv
<1> QED BY <1>1, Invariant, PTL

\* While the process serves requests, only the handler of an arriving request
\* adds a log: an answer to a removed log does not bring it back.
LEMMA OnlyArrivalsAdd ==
  ASSUME IInv, [BuildNext]_vars, phase' = "up", NEW r \in logs' \ logs
  PROVE  /\ InsertReqLog(r, "none", "waiting") \/ InsertReqLog(r, "CONNECTING", "connecting")
         /\ r \in Request
<1>1. CASE \E q \in Request : Serve(q) \/ SocketEnds(q)
  <2>1. PICK q \in Request : Serve(q) \/ SocketEnds(q)
    BY <1>1
  <2>2. CASE ArrivePlain(q)
    <3>1. logs' = logs \cup {q}
      BY <2>2 DEF ArrivePlain, InsertReqLog
    <3> QED BY <2>2, <3>1 DEF ArrivePlain
  <2>3. CASE ArriveSocket(q)
    <3>1. logs' = logs \cup {q}
      BY <2>3 DEF ArriveSocket, InsertReqLog
    <3> QED BY <2>3, <3>1 DEF ArriveSocket
  <2>4. CASE Respond(q) \/ SocketOpens(q) \/ SocketMessage(q) \/ SocketEnds(q)
    BY <2>4 DEF Respond, SocketOpens, SocketMessage, SocketEnds, UpdateLogIfPresent
  <2> QED BY <2>1, <2>2, <2>3, <2>4 DEF Serve, SocketCloses, DesktopSocketCloses
<1>2. CASE Restart
  BY <1>2 DEF Restart
<1>3. CASE StartProject \/ StopProject \/ SaveLog \/ SaveProject \/ ResetBegins
             \/ ResetOne \/ BootDone \/ UNCHANGED vars
  <2>1. logs' = logs
    BY <1>3 DEF StartProject, StopProject, SaveLog, SaveProject, ResetBegins, ResetOne,
                BootDone, vars, objects
  <2> QED BY <2>1
<1>4. CASE PruneTick \/ DeleteAllLogs \/ BootTrim
  <2>1. logs' \subseteq logs
    BY <1>4 DEF PruneTick, DeleteAllLogs, BootTrim, Trim
  <2> QED BY <2>1
<1> QED BY <1>1, <1>2, <1>3, <1>4 DEF BuildNext, Next, DesktopSocketCloses

\* updateLogIfPresent never resurrects a log that was trimmed or cleared.
THEOREM NoResurrection == HostSpec => RemovedLogsStayRemoved
<1>1. IInv /\ [BuildNext]_vars =>
        [phase' = "up" => \A r \in logs' \ logs : handler[r] = "unsent"]_vars
  BY OnlyArrivalsAdd DEF InsertReqLog, Move
<1> QED BY <1>1, Invariant, BuildStep, PTL DEF HostSpec, RemovedLogsStayRemoved

\* A log that arrives sorts first on the log page: its id is larger than every
\* id already in the collection.
THEOREM ArrivalsSortFirst == HostSpec => NewestIsLargest
<1>1. ASSUME IInv, [BuildNext]_vars, phase' = "up", NEW r \in logs' \ logs, NEW s \in logs
      PROVE  id'[s] < id'[r]
  <2>1. /\ r \in Request /\ started
        /\ id' = [id EXCEPT ![r] = NewLogNumber]
    BY <1>1, OnlyArrivalsAdd DEF InsertReqLog
  <2>2. number > 0 /\ NewLogNumber = number + 1
    BY <1>1, <2>1 DEF IInv, NumberCovers, NewLogNumber
  <2>3. id[s] <= number /\ id[s] \in Nat /\ number \in Nat
    BY <1>1, <2>2 DEF IInv, NumberCovers, LogTypeOk
  <2>4. id'[r] = number + 1 /\ id'[s] = id[s]
    BY <1>1, <2>1, <2>2 DEF IInv, LogTypeOk
  <2> QED BY <2>3, <2>4
<1>2. IInv /\ [BuildNext]_vars =>
        [phase' = "up" =>
           \A r \in logs' \ logs : \A s \in logs : id'[s] < id'[r]]_vars
  BY <1>1
<1> QED BY <1>2, Invariant, BuildStep, PTL DEF HostSpec, NewestIsLargest

\* While the process runs, trimming passes over every log whose websocket is
\* open, because the object of an open websocket says OPEN.
THEOREM OpenLogsSurviveTrimming == HostSpec => OpenSocketsKeepTheirLog
<1>1. ASSUME IInv, [BuildNext]_vars, phase = "up", phase' = "up",
             NEW r \in logs \ logs', handler[r] = "open"
      PROVE  logs' = {}
  <2>1. ws[r] = "OPEN"
    BY <1>1 DEF IInv, OpenSaysOpen, LogTypeOk
  <2>2. CASE PruneTick
    <3>1. r \notin Removable
      BY <2>1 DEF Removable, Oldest
    <3> QED BY <1>1, <2>2, <3>1 DEF PruneTick, Trim
  <2>3. CASE \E q \in Request : Serve(q) \/ SocketEnds(q)
    <3>1. logs \subseteq logs'
      BY <2>3 DEF Serve, ArrivePlain, ArriveSocket, InsertReqLog, Respond, SocketOpens,
                  SocketMessage, SocketCloses, SocketEnds, UpdateLogIfPresent
    <3> QED BY <1>1, <3>1
  <2>4. CASE StartProject \/ StopProject \/ SaveLog \/ SaveProject \/ UNCHANGED vars
    <3>1. logs' = logs
      BY <2>4 DEF StartProject, StopProject, SaveLog, SaveProject, vars, objects
    <3> QED BY <1>1, <3>1
  <2>5. CASE DeleteAllLogs
    BY <2>5 DEF DeleteAllLogs
  <2>6. CASE Restart \/ BootTrim \/ ResetBegins \/ ResetOne \/ BootDone
    BY <1>1, <2>6 DEF Restart, BootTrim, ResetBegins, ResetOne, BootDone
  <2> QED BY <1>1, <2>2, <2>3, <2>4, <2>5, <2>6 DEF BuildNext, Next, DesktopSocketCloses
<1>2. IInv /\ [BuildNext]_vars =>
        [phase = "up" /\ phase' = "up" =>
           \A r \in logs \ logs' : handler[r] = "open" => logs' = {}]_vars
  BY <1>1
<1> QED BY <1>2, Invariant, BuildStep, PTL DEF HostSpec, OpenSocketsKeepTheirLog
-----------------------------------------------------------------------------
(* Ranks in a finite set, which Oldest and Without are written with.        *)

\* How many elements of C stand before x.
Rank(C, f, x) == Cardinality({y \in C : f[y] < f[x]})

LEMMA Ranks ==
  ASSUME NEW C, IsFiniteSet(C), NEW f \in [C -> Nat], \A x, y \in C : f[x] = f[y] => x = y,
         NEW rank, rank = [x \in C |-> Rank(C, f, x)]
  PROVE  /\ Cardinality(C) \in Nat
         /\ rank \in [C -> 0 .. Cardinality(C) - 1]
         /\ \A x, y \in C : rank[x] = rank[y] => x = y
         /\ \A k \in 0 .. Cardinality(C) - 1 : \E x \in C : rank[x] = k
<1> DEFINE Below(x) == {y \in C : f[y] < f[x]}
           n == Cardinality(C)
<1>1. n \in Nat
  BY FS_CardinalityType
<1>2. \A x \in C : rank[x] = Cardinality(Below(x))
  BY DEF Rank
<1>3. \A x \in C : IsFiniteSet(Below(x)) /\ Cardinality(Below(x)) \in Nat
  <2> TAKE x \in C
  <2>1. Below(x) \in SUBSET C
    OBVIOUS
  <2> QED BY <2>1, FS_Subset, FS_CardinalityType
<1>4. ASSUME NEW x \in C PROVE Cardinality(Below(x)) < n
  <2>1. Below(x) \in SUBSET C /\ Below(x) # C
    <3>1. x \notin Below(x)
      OBVIOUS
    <3> QED BY <3>1
  <2>2. Cardinality(Below(x)) <= n /\ n # Cardinality(Below(x))
    BY <2>1, FS_Subset
  <2> QED BY <1>1, <1>3, <2>2
<1> HIDE DEF Below
<1>5. rank \in [C -> 0 .. n - 1]
  <2>1. \A x \in C : rank[x] \in 0 .. n - 1
    BY <1>1, <1>2, <1>3, <1>4
  <2> QED BY <2>1
<1>6. ASSUME NEW x \in C, NEW y \in C, f[x] < f[y] PROVE rank[x] < rank[y]
  <2>1. Below(x) \in SUBSET Below(y)
    BY <1>6 DEF Below
  <2>2. x \in Below(y) /\ x \notin Below(x)
    BY <1>6 DEF Below
  <2>3. Below(x) # Below(y)
    BY <2>2
  <2>4. Cardinality(Below(x)) <= Cardinality(Below(y)) /\ Cardinality(Below(y)) # Cardinality(Below(x))
    BY <1>3, <2>1, <2>3, FS_Subset
  <2> QED BY <1>2, <1>3, <2>4
<1>7. \A x, y \in C : rank[x] = rank[y] => x = y
  <2> SUFFICES ASSUME NEW x \in C, NEW y \in C, rank[x] = rank[y], x # y PROVE FALSE
    OBVIOUS
  <2>1. f[x] < f[y] \/ f[y] < f[x]
    OBVIOUS
  <2>2. rank[x] \in Nat /\ rank[y] \in Nat
    BY <1>2, <1>3
  <2> QED BY <1>6, <2>1, <2>2
<1>8. rank \in Injection(C, 0 .. n - 1)
  BY <1>5, <1>7 DEF Injection, IsInjective
<1>9. IsFiniteSet(0 .. n - 1) /\ Cardinality(0 .. n - 1) = n
  <2> HIDE DEF n
  <2>1. 0 \in Int /\ n - 1 \in Int
    BY <1>1
  <2>2. /\ IsFiniteSet(0 .. n - 1)
        /\ Cardinality(0 .. n - 1) = IF 0 > n - 1 THEN 0 ELSE (n - 1) - 0 + 1
    BY <2>1, FS_Interval
  <2> QED BY <1>1, <2>2
<1>10. rank \in Surjection(C, 0 .. n - 1)
  BY <1>8, <1>9, FS_Injection
<1>11. \A k \in 0 .. n - 1 : \E x \in C : rank[x] = k
  BY <1>10 DEF Surjection
<1> QED BY <1>1, <1>5, <1>7, <1>11

\* Oldest takes n elements, or all of them if there are fewer.
LEMMA OldestCount ==
  ASSUME NEW C \in SUBSET Request, IsFiniteSet(C), id \in [Request -> Nat],
         \A r, s \in C : id[r] = id[s] => r = s,
         NEW n \in Nat
  PROVE  /\ Oldest(C, n) \subseteq C /\ IsFiniteSet(Oldest(C, n))
         /\ Cardinality(C) <= n => Oldest(C, n) = C
         /\ Cardinality(C) > n => Cardinality(Oldest(C, n)) = n
<1> DEFINE f == [r \in C |-> id[r]]
           rank == [r \in C |-> Rank(C, f, r)]
           c == Cardinality(C)
<1>1. f \in [C -> Nat] /\ \A r, s \in C : f[r] = f[s] => r = s
  OBVIOUS
<1>2. /\ c \in Nat
      /\ rank \in [C -> 0 .. c - 1]
      /\ \A r, s \in C : rank[r] = rank[s] => r = s
      /\ \A k \in 0 .. c - 1 : \E r \in C : rank[r] = k
  <2>1. rank = [r \in C |-> Rank(C, f, r)]
    OBVIOUS
  <2> HIDE DEF f, rank
  <2> QED BY <1>1, <2>1, Ranks
<1>3. Oldest(C, n) = {r \in C : rank[r] < n}
  <2>1. ASSUME NEW r \in C PROVE {s \in C : f[s] < f[r]} = {s \in C : id[s] < id[r]}
    OBVIOUS
  <2>2. \A r \in C : rank[r] = Cardinality({s \in C : id[s] < id[r]})
    BY <2>1 DEF Rank
  <2> QED BY <2>2 DEF Oldest
<1> HIDE DEF f, rank, c
<1>4. Oldest(C, n) \subseteq C /\ IsFiniteSet(Oldest(C, n))
  <2>1. Oldest(C, n) \in SUBSET C
    BY <1>3
  <2> QED BY <2>1, FS_Subset
<1>5. c <= n => Oldest(C, n) = C
  BY <1>2, <1>3
<1>6. ASSUME c > n PROVE Cardinality(Oldest(C, n)) = n
  <2> DEFINE K == Oldest(C, n)
             g == [r \in K |-> rank[r]]
  <2>1. g \in [K -> 0 .. n - 1]
    BY <1>2, <1>3
  <2>2. \A r, s \in K : g[r] = g[s] => r = s
    BY <1>2, <1>3
  <2>3. \A k \in 0 .. n - 1 : \E r \in K : g[r] = k
    BY <1>2, <1>3, <1>6
  <2> HIDE DEF K, g
  <2>4. g \in Injection(K, 0 .. n - 1) /\ g \in Surjection(K, 0 .. n - 1)
    BY <2>1, <2>2, <2>3 DEF Injection, IsInjective, Surjection
  <2>5. 0 \in Int /\ n - 1 \in Int
    OBVIOUS
  <2>6. IsFiniteSet(0 .. n - 1) /\ Cardinality(0 .. n - 1) = n
    <3>1. /\ IsFiniteSet(0 .. n - 1)
          /\ Cardinality(0 .. n - 1) = IF 0 > n - 1 THEN 0 ELSE (n - 1) - 0 + 1
      BY <2>5, FS_Interval
    <3> QED BY <3>1
  <2>7. Cardinality(K) = Cardinality(0 .. n - 1)
    BY <2>4, <2>6, FS_Injection
  <2> QED BY <2>6, <2>7 DEF K
<1> QED BY <1>4, <1>5, <1>6 DEF c

Contains(seq, i) == \E n \in DOMAIN seq : seq[n] = i

\* Without keeps every member outside S and adds none.
LEMMA WithoutKeeps ==
  ASSUME NEW seq \in Seq(Nat), NEW S
  PROVE  /\ Without(seq, S) \in Seq(Nat)
         /\ \A n \in DOMAIN seq : seq[n] \notin S => Contains(Without(seq, S), seq[n])
         /\ \A k \in DOMAIN Without(seq, S) : Contains(seq, Without(seq, S)[k])
<1> DEFINE kept == {n \in DOMAIN seq : seq[n] \notin S}
           f == [n \in kept |-> n]
           rank == [n \in kept |-> Rank(kept, f, n)]
           c == Cardinality(kept)
           place(k) == CHOOSE n \in kept : Cardinality({m \in kept : m < n}) = k - 1
<1>1. Len(seq) \in Nat /\ DOMAIN seq = 1 .. Len(seq) /\ \A n \in DOMAIN seq : seq[n] \in Nat
  BY LenProperties, ElementOfSeq
<1>2. IsFiniteSet(kept)
  <2>1. kept \in SUBSET Nat /\ \A n \in kept : n <= Len(seq)
    BY <1>1
  <2> HIDE DEF kept
  <2> QED BY <1>1, <2>1, FS_BoundedSetOfNaturals
<1>3. f \in [kept -> Nat] /\ \A m, n \in kept : f[m] = f[n] => m = n
  BY <1>1
<1>4. /\ c \in Nat
      /\ rank \in [kept -> 0 .. c - 1]
      /\ \A m, n \in kept : rank[m] = rank[n] => m = n
      /\ \A k \in 0 .. c - 1 : \E n \in kept : rank[n] = k
  <2>1. rank = [n \in kept |-> Rank(kept, f, n)]
    OBVIOUS
  <2> HIDE DEF f, kept, rank
  <2> QED BY <1>2, <1>3, <2>1, Ranks
<1>5. \A n \in kept : rank[n] = Cardinality({m \in kept : m < n})
  <2>1. ASSUME NEW n \in kept PROVE {m \in kept : f[m] < f[n]} = {m \in kept : m < n}
    <3> HIDE DEF kept
    <3> QED OBVIOUS
  <2> HIDE DEF kept, f
  <2> QED BY <2>1 DEF Rank
<1>6. Without(seq, S) = [k \in 1 .. c |-> seq[place(k)]]
  BY DEF Without
<1> HIDE DEF kept, f, rank, c
<1>7. ASSUME NEW k \in 1 .. c PROVE place(k) \in kept /\ rank[place(k)] = k - 1
  <2>1. k - 1 \in 0 .. c - 1
    BY <1>4
  <2>2. PICK n \in kept : rank[n] = k - 1
    BY <2>1, <1>4
  <2> USE DEF place
  <2>3. place(k) \in kept /\ Cardinality({m \in kept : m < place(k)}) = k - 1
    BY <2>2, <1>5
  <2> QED BY <2>3, <1>5
<1> HIDE DEF place
<1>8. Without(seq, S) \in Seq(Nat) /\ DOMAIN Without(seq, S) = 1 .. c
  <2>1. \A k \in 1 .. c : seq[place(k)] \in Nat
    BY <1>1, <1>7 DEF kept
  <2>2. Without(seq, S) \in [1 .. c -> Nat]
    BY <1>6, <2>1
  <2> QED BY <1>4, <2>2, SeqDef
<1>9. ASSUME NEW n \in DOMAIN seq, seq[n] \notin S
      PROVE  \E k \in DOMAIN Without(seq, S) : Without(seq, S)[k] = seq[n]
  <2>1. n \in kept
    BY <1>9 DEF kept
  <2>2. rank[n] + 1 \in 1 .. c
    BY <2>1, <1>4
  <2>3. place(rank[n] + 1) = n
    BY <2>1, <2>2, <1>4, <1>7
  <2>4. Without(seq, S)[rank[n] + 1] = seq[n]
    BY <2>2, <2>3, <1>6
  <2> QED BY <2>2, <2>4, <1>8
<1>10. ASSUME NEW k \in DOMAIN Without(seq, S)
       PROVE  \E n \in DOMAIN seq : seq[n] = Without(seq, S)[k]
  BY <1>6, <1>7, <1>8 DEF kept
<1> QED BY <1>8, <1>9, <1>10 DEF Contains

-----------------------------------------------------------------------------
(* The unclosed list, log.db and the START listeners.                       *)

ListTypeOk ==
    /\ TypeOk
    /\ disk \in [logs : SUBSET Request, ws : [Request -> WsStatus], unclosed : Seq(Nat)]
    /\ IsFiniteSet(logs) /\ IsFiniteSet(disk.logs)

Active == {"waiting", "connecting", "open"}

\* A request at work took its id in this process: no other one at work, nor
\* a log of the collection, has the same.
ActiveIds ==
    \A r \in Request : handler[r] \in Active =>
        /\ number > 0 /\ id[r] <= number
        /\ \A s \in Request :
             (s \in logs \/ handler[s] \in Active) /\ id[s] = id[r] => s = r

\* Closing shortens the list without marking the record, so project.db may
\* hold too much, never too little.
SavedList ==
    "project" \notin dirty => \A n \in DOMAIN unclosed : Contains(disk.unclosed, unclosed[n])

\* A log that log.db holds as OPEN is listed: the reset loop closed it in
\* memory only, or its websocket is open.
SavedLogs ==
    ListenersPath /\ boot.clean /\ "log" \notin dirty =>
        /\ logs = disk.logs
        /\ \A r \in logs : disk.ws[r] = "OPEN" => Contains(unclosed, id[r])

\* What the reset loop has not reached yet is all that still says OPEN.
ResetFollows ==
    phase = "booting" /\ ListenersPath /\ boot.clean =>
        /\ boot.at > 0 /\ ~boot.reset =>
             boot.at \in DOMAIN unclosed /\ boot.held = unclosed[boot.at]
        /\ \A r \in logs : ws[r] = "OPEN" =>
             /\ ~boot.reset
             /\ \E n \in DOMAIN unclosed : n >= boot.at /\ unclosed[n] = id[r]

ListInv ==
    /\ ListTypeOk
    /\ ActiveIds
    /\ OpenIsListed
    /\ SavedList
    /\ SavedLogs
    /\ ResetFollows
    /\ NoGhostOpen

LEMMA InitListInv == Init => ListInv
<1> SUFFICES ASSUME Init PROVE ListInv
  OBVIOUS
<1>1. IInv
  BY InitInv
<1>2. /\ logs = {} /\ unclosed = << >> /\ dirty = {}
      /\ disk = [logs |-> logs, ws |-> ws, unclosed |-> unclosed]
      /\ boot = BootStart /\ phase = "booting"
      /\ \A r \in Request : handler[r] = "unsent"
  BY DEF Init
<1>3. ListTypeOk
  <2>1. unclosed \in Seq(Nat)
    BY <1>2
  <2>2. IsFiniteSet({})
    BY FS_EmptySet
  <2>3. boot \in [trimmed : BOOLEAN, at : Nat, held : Nat, reset : BOOLEAN, clean : BOOLEAN]
    BY <1>2 DEF BootStart
  <2>4. LogTypeOk
    BY <1>1 DEF IInv
  <2>5. disk \in [logs : SUBSET Request, ws : [Request -> WsStatus], unclosed : Seq(Nat)]
    BY <1>2, <2>1, <2>4 DEF LogTypeOk
  <2> QED BY <1>2, <2>1, <2>2, <2>3, <2>4, <2>5 DEF ListTypeOk, TypeOk
<1>4. ActiveIds /\ OpenIsListed
  BY <1>2 DEF ActiveIds, OpenIsListed, Active
<1>5. SavedList /\ SavedLogs /\ ResetFollows /\ NoGhostOpen
  BY <1>2 DEF SavedList, SavedLogs, ResetFollows, NoGhostOpen, BootStart
<1> QED BY <1>3, <1>4, <1>5 DEF ListInv

\* A log is written with a number that nothing stored or at work has.
LEMMA InsertListInv ==
  ASSUME IInv, IInv', ListInv, NEW r \in Request, NEW s \in {"none", "CONNECTING"},
         NEW to \in {"waiting", "connecting"}, InsertReqLog(r, s, to)
  PROVE  ListInv'
<1>1. /\ handler[r] = "unsent" /\ started /\ phase = "up"
      /\ handler' = [handler EXCEPT ![r] = to]
      /\ id' = [id EXCEPT ![r] = number']
      /\ ws' = [ws EXCEPT ![r] = s]
      /\ logs' = logs \cup {r}
      /\ dirty' = dirty \cup {"log"}
      /\ UNCHANGED <<phase, started, disk, restarts, boot, unclosed>>
  BY DEF InsertReqLog, Move, process
<1>2. number \in Nat /\ number > 0 /\ number' = number + 1
  BY <1>1 DEF IInv, LogTypeOk, NumberCovers, InsertReqLog, NewLogNumber
<1>3. r \notin logs /\ \A q \in logs : id[q] <= number
  BY <1>1, <1>2 DEF IInv, StoredArrived, NumberCovers
<1>4. handler \in [Request -> Handler] /\ id \in [Request -> Nat] /\ ws \in [Request -> WsStatus]
      /\ logs \subseteq Request
  BY DEF IInv, LogTypeOk
<1>5. ListTypeOk'
  <2>1. IsFiniteSet(logs')
    BY <1>1, FS_AddElement DEF ListInv, ListTypeOk
  <2> QED BY <1>1, <2>1 DEF ListInv, ListTypeOk, TypeOk, IInv, Database
<1>6. ActiveIds'
  <2> SUFFICES ASSUME NEW q \in Request, handler'[q] \in Active
               PROVE  /\ number' > 0 /\ id'[q] <= number'
                      /\ \A p \in Request :
                           (p \in logs' \/ handler'[p] \in Active) /\ id'[p] = id'[q] => p = q
    BY DEF ActiveIds
  <2>1. \A p \in Request : p # r =>
          /\ id'[p] = id[p] /\ handler'[p] = handler[p] /\ (p \in logs' <=> p \in logs)
    BY <1>1, <1>4
  <2>2. id'[r] = number + 1 /\ number' = number + 1 /\ id \in [Request -> Nat]
    BY <1>1, <1>2, <1>4
  <2>3. \A p \in Request : p # r /\ (p \in logs' \/ handler'[p] \in Active) => id'[p] <= number
    BY <1>3, <2>1 DEF ListInv, ActiveIds
  <2>4. CASE q = r
    BY <1>2, <2>2, <2>3, <2>4
  <2>5. CASE q # r
    <3>1. /\ number > 0 /\ id[q] <= number
          /\ \A p \in Request : (p \in logs \/ handler[p] \in Active) /\ id[p] = id[q] => p = q
      BY <2>1, <2>5 DEF ListInv, ActiveIds
    <3>2. id'[q] = id[q] /\ id[q] \in Nat
      BY <2>1, <2>2, <2>5
    <3> QED BY <1>2, <2>1, <2>2, <2>5, <3>1, <3>2
  <2> QED BY <2>4, <2>5
<1>7. OpenIsListed'
  BY <1>1, <1>4 DEF ListInv, OpenIsListed
<1>8. SavedList' /\ SavedLogs' /\ ResetFollows'
  BY <1>1 DEF ListInv, SavedList, SavedLogs, ResetFollows
<1>9. NoGhostOpen'
  BY <1>1, <1>3, <1>4 DEF ListInv, NoGhostOpen
<1> QED BY <1>5, <1>6, <1>7, <1>8, <1>9 DEF ListInv

\* An answer or a message marks the log database if the log is still there.
LEMMA WriteListInv ==
  ASSUME IInv, IInv', ListInv, NEW r \in Request, Respond(r) \/ SocketMessage(r)
  PROVE  ListInv'
<1>1. /\ \/ handler' = handler
         \/ handler[r] = "waiting" /\ handler' = [handler EXCEPT ![r] = "finished"]
      /\ dirty' = dirty \/ dirty' = dirty \cup {"log"}
      /\ UNCHANGED <<phase, number, id, ws, logs, unclosed, disk, boot>>
  BY DEF Respond, SocketMessage, Move, UpdateLogIfPresent, project, objects, process
<1>2. handler \in [Request -> Handler]
  BY DEF IInv, LogTypeOk
<1>3. ListTypeOk'
  BY <1>1 DEF ListInv, ListTypeOk, TypeOk, IInv, Database
<1>4. ActiveIds'
  BY <1>1, <1>2 DEF ListInv, ActiveIds, Active
<1>5. OpenIsListed' /\ NoGhostOpen'
  <2>1. \A q \in Request : handler'[q] = "open" <=> handler[q] = "open"
    BY <1>1, <1>2
  <2>2. logs \subseteq Request
    BY DEF IInv, LogTypeOk
  <2> QED BY <1>1, <2>1, <2>2 DEF ListInv, OpenIsListed, NoGhostOpen
<1>6. SavedList' /\ SavedLogs' /\ ResetFollows'
  BY <1>1 DEF ListInv, SavedList, SavedLogs, ResetFollows, Contains
<1> QED BY <1>3, <1>4, <1>5, <1>6 DEF ListInv

LEMMA OpenListInv ==
  ASSUME IInv, IInv', ListInv, NEW r \in Request, SocketOpens(r)
  PROVE  ListInv'
<1>1. /\ handler[r] = "connecting" /\ handler' = [handler EXCEPT ![r] = "open"]
      /\ ws' = [ws EXCEPT ![r] = "OPEN"]
      /\ IF ListenersPath
         THEN unclosed' = Append(unclosed, id[r]) /\ "project" \in dirty'
         ELSE unclosed' = unclosed /\ ("project" \in dirty' <=> "project" \in dirty)
      /\ dirty \subseteq dirty' /\ dirty' \subseteq dirty \cup Database
      /\ r \in logs => "log" \in dirty'
      /\ UNCHANGED <<phase, number, id, logs, disk, boot>>
  BY DEF SocketOpens, Move, project, process, Database
<1>2. handler \in [Request -> Handler] /\ id \in [Request -> Nat] /\ ws \in [Request -> WsStatus]
      /\ logs \subseteq Request /\ unclosed \in Seq(Nat)
  BY DEF IInv, LogTypeOk, ListInv, ListTypeOk, TypeOk
<1>3. phase = "up"
  BY <1>1 DEF IInv, LogTypeOk, BootIsQuiet
<1>4. ListenersPath =>
        /\ unclosed' \in Seq(Nat)
        /\ \A n \in DOMAIN unclosed : n \in DOMAIN unclosed' /\ unclosed'[n] = unclosed[n]
        /\ Contains(unclosed', id[r])
  <2> SUFFICES ASSUME ListenersPath
               PROVE  /\ unclosed' \in Seq(Nat)
                      /\ \A n \in DOMAIN unclosed : n \in DOMAIN unclosed' /\ unclosed'[n] = unclosed[n]
                      /\ Contains(unclosed', id[r])
    OBVIOUS
  <2>1. unclosed' = Append(unclosed, id[r]) /\ id[r] \in Nat
    BY <1>1, <1>2
  <2>2. /\ unclosed' \in Seq(Nat)
        /\ Len(unclosed') = Len(unclosed) + 1
        /\ \A n \in 1 .. Len(unclosed) : unclosed'[n] = unclosed[n]
        /\ unclosed'[Len(unclosed) + 1] = id[r]
    BY <2>1, <1>2, AppendProperties
  <2>3. /\ Len(unclosed) \in Nat /\ DOMAIN unclosed = 1 .. Len(unclosed)
        /\ DOMAIN unclosed' = 1 .. Len(unclosed')
    BY <1>2, <2>2, LenProperties
  <2> QED BY <2>2, <2>3 DEF Contains
<1>5. ListTypeOk'
  <2>1. unclosed' \in Seq(Nat)
    BY <1>1, <1>2, <1>4, FlagsAssumption
  <2> QED BY <1>1, <2>1 DEF ListInv, ListTypeOk, TypeOk, IInv, Database
<1>6. ActiveIds'
  BY <1>1, <1>2 DEF ListInv, ActiveIds, Active
<1>7. OpenIsListed'
  <2> SUFFICES ASSUME NEW q \in Request, ListenersPath, handler'[q] = "open"
               PROVE  Contains(unclosed', id'[q])
    BY DEF OpenIsListed, Contains
  <2>1. CASE q = r
    BY <2>1, <1>1, <1>4
  <2>2. CASE q # r
    <3>1. PICK n \in DOMAIN unclosed : unclosed[n] = id[q]
      BY <1>1, <1>2, <2>2 DEF ListInv, OpenIsListed
    <3> QED BY <1>1, <1>4, <3>1 DEF Contains
  <2> QED BY <2>1, <2>2
<1>8. SavedList'
  BY <1>1 DEF ListInv, SavedList, Contains
<1>9. SavedLogs'
  <2> SUFFICES ASSUME ListenersPath, boot'.clean, "log" \notin dirty'
               PROVE  logs' = disk'.logs /\ \A q \in logs' : disk'.ws[q] = "OPEN" => Contains(unclosed', id'[q])
    BY DEF SavedLogs
  <2>1. logs = disk.logs /\ \A q \in logs : disk.ws[q] = "OPEN" => Contains(unclosed, id[q])
    BY <1>1 DEF ListInv, SavedLogs
  <2> QED BY <1>1, <1>4, <2>1 DEF Contains
<1>10. ResetFollows' /\ NoGhostOpen'
  BY <1>1, <1>2, <1>3 DEF ListInv, ResetFollows, NoGhostOpen
<1> QED BY <1>5, <1>6, <1>7, <1>8, <1>9, <1>10 DEF ListInv

\* Closing forgets the id of the websocket, which no other log that matters has.
LEMMA CloseListInv ==
  ASSUME IInv, IInv', ListInv, NEW r \in Request, SocketCloses(r) \/ DesktopSocketCloses(r)
  PROVE  ListInv'
<1>1. /\ handler[r] \in {"connecting", "open"} /\ handler' = [handler EXCEPT ![r] = "finished"]
      /\ ws' = [ws EXCEPT ![r] = "CLOSED"]
      /\ unclosed' = unclosed \/ unclosed' = Without(unclosed, {id[r]})
      /\ dirty' = IF r \in logs THEN dirty \cup {"log"} ELSE dirty
      /\ UNCHANGED <<phase, number, id, logs, disk, boot>>
  BY DEF SocketCloses, DesktopSocketCloses, SocketEnds, ForgetSocket, Move,
         UpdateLogIfPresent, project, process
<1>2. handler \in [Request -> Handler] /\ id \in [Request -> Nat] /\ ws \in [Request -> WsStatus]
      /\ logs \subseteq Request /\ unclosed \in Seq(Nat)
  BY DEF IInv, LogTypeOk, ListInv, ListTypeOk, TypeOk
<1>3. phase = "up"
  BY <1>1 DEF IInv, LogTypeOk, BootIsQuiet
<1>4. /\ unclosed' \in Seq(Nat)
      /\ \A n \in DOMAIN unclosed : unclosed[n] # id[r] => Contains(unclosed', unclosed[n])
      /\ \A n \in DOMAIN unclosed' : Contains(unclosed, unclosed'[n])
  <2>1. CASE unclosed' = unclosed
    BY <2>1, <1>2 DEF Contains
  <2>2. CASE unclosed' = Without(unclosed, {id[r]})
    <3> DEFINE S == {id[r]}
    <3>1. unclosed' = Without(unclosed, S) /\ \A i : i \notin S <=> i # id[r]
      BY <2>2
    <3> HIDE DEF S
    <3>2. /\ Without(unclosed, S) \in Seq(Nat)
          /\ \A n \in DOMAIN unclosed : unclosed[n] \notin S =>
               Contains(Without(unclosed, S), unclosed[n])
          /\ \A k \in DOMAIN Without(unclosed, S) : Contains(unclosed, Without(unclosed, S)[k])
      BY <1>2, WithoutKeeps
    <3> QED BY <3>1, <3>2
  <2> QED BY <1>1, <2>1, <2>2
<1>5. ListTypeOk'
  BY <1>1, <1>4 DEF ListInv, ListTypeOk, TypeOk, IInv, Database
<1>6. ActiveIds'
  BY <1>1, <1>2 DEF ListInv, ActiveIds, Active
<1>7. OpenIsListed'
  <2> SUFFICES ASSUME NEW q \in Request, ListenersPath, handler'[q] = "open"
               PROVE  Contains(unclosed', id'[q])
    BY DEF OpenIsListed, Contains
  <2>1. q # r /\ handler[q] = "open"
    BY <1>1, <1>2
  <2>2. id[q] # id[r]
    BY <1>1, <2>1 DEF ListInv, ActiveIds, Active
  <2>3. PICK n \in DOMAIN unclosed : unclosed[n] = id[q]
    BY <2>1 DEF ListInv, OpenIsListed
  <2> QED BY <1>1, <1>4, <2>2, <2>3
<1>8. SavedList'
  <2> SUFFICES ASSUME "project" \notin dirty', NEW n \in DOMAIN unclosed'
               PROVE  Contains(disk'.unclosed, unclosed'[n])
    BY DEF SavedList
  <2>1. PICK m \in DOMAIN unclosed : unclosed[m] = unclosed'[n]
    BY <1>4 DEF Contains
  <2>2. "project" \notin dirty
    BY <1>1
  <2> QED BY <1>1, <2>1, <2>2 DEF ListInv, SavedList
<1>9. SavedLogs'
  <2> SUFFICES ASSUME ListenersPath, boot'.clean, "log" \notin dirty'
               PROVE  logs' = disk'.logs /\ \A q \in logs' : disk'.ws[q] = "OPEN" => Contains(unclosed', id'[q])
    BY DEF SavedLogs
  <2>1. "log" \notin dirty /\ r \notin logs
    BY <1>1
  <2>2. logs = disk.logs /\ \A q \in logs : disk.ws[q] = "OPEN" => Contains(unclosed, id[q])
    BY <1>1, <2>1 DEF ListInv, SavedLogs
  <2>3. \A q \in logs : id[q] # id[r]
    BY <1>1, <1>2, <2>1 DEF ListInv, ActiveIds, Active
  <2>4. ASSUME NEW q \in logs, disk.ws[q] = "OPEN" PROVE Contains(unclosed', id[q])
    <3>1. PICK n \in DOMAIN unclosed : unclosed[n] = id[q]
      BY <2>2, <2>4 DEF Contains
    <3>2. unclosed[n] # id[r]
      BY <2>3, <3>1
    <3> QED BY <1>4, <3>1, <3>2
  <2> QED BY <1>1, <2>2, <2>4
<1>10. ResetFollows' /\ NoGhostOpen'
  BY <1>1, <1>2, <1>3 DEF ListInv, ResetFollows, NoGhostOpen
<1> QED BY <1>5, <1>6, <1>7, <1>8, <1>9, <1>10 DEF ListInv

\* A trim marks what it changes, and takes from the list only ids of logs
\* whose websocket is not open.
LEMMA TrimKeeps ==
  ASSUME IInv, ListInv, Trim
  PROVE  /\ logs' \subseteq logs /\ IsFiniteSet(logs')
         /\ unclosed' \in Seq(Nat)
         /\ dirty \subseteq dirty' /\ dirty' \subseteq dirty \cup Database
         /\ (logs' = logs /\ unclosed' = unclosed) \/ "log" \in dirty'
         /\ unclosed' = unclosed \/ "project" \in dirty'
         /\ \A n \in DOMAIN unclosed' : Contains(unclosed, unclosed'[n])
         /\ \A n \in DOMAIN unclosed :
              (\A s \in logs : id[s] = unclosed[n] => ws[s] = "OPEN") =>
                Contains(unclosed', unclosed[n])
<1>1. unclosed \in Seq(Nat) /\ IsFiniteSet(logs)
  BY DEF ListInv, ListTypeOk, TypeOk
<1>2. CASE UNCHANGED <<logs, unclosed, dirty>>
  BY <1>1, <1>2 DEF Contains
<1>3. CASE Removable # {} /\ ~ UNCHANGED <<logs, unclosed, dirty>>
  <2> DEFINE S == Ids(Removable)
             project_ == IF Without(unclosed, S) # unclosed THEN {"project"} ELSE {}
  <2>1. /\ logs' = logs \ Removable
        /\ unclosed' = Without(unclosed, S)
        /\ dirty' = dirty \cup {"log"} \cup project_
    BY <1>3 DEF Trim
  <2>2. \A i : i \in S => \E s \in logs : id[s] = i /\ ws[s] # "OPEN"
    BY DEF Ids, Removable, Oldest
  <2>3. /\ project_ \subseteq Database
        /\ unclosed' # unclosed => project_ = {"project"}
    BY <2>1 DEF Database
  <2> HIDE DEF S, project_
  <2>4. /\ Without(unclosed, S) \in Seq(Nat)
        /\ \A n \in DOMAIN unclosed : unclosed[n] \notin S =>
             Contains(Without(unclosed, S), unclosed[n])
        /\ \A k \in DOMAIN Without(unclosed, S) : Contains(unclosed, Without(unclosed, S)[k])
    BY <1>1, WithoutKeeps
  <2>5. logs' \in SUBSET logs
    BY <2>1
  <2>6. IsFiniteSet(logs')
    BY <1>1, <2>5, FS_Subset
  <2>7. "log" \in dirty' /\ dirty \subseteq dirty' /\ dirty' \subseteq dirty \cup Database
    BY <2>1, <2>3 DEF Database
  <2>8. unclosed' = unclosed \/ "project" \in dirty'
    BY <2>1, <2>3
  <2>9. ASSUME NEW n \in DOMAIN unclosed,
               \A s \in logs : id[s] = unclosed[n] => ws[s] = "OPEN"
        PROVE  Contains(unclosed', unclosed[n])
    BY <2>1, <2>2, <2>4, <2>9
  <2>10. \A n \in DOMAIN unclosed' : Contains(unclosed, unclosed'[n])
    BY <2>1, <2>4
  <2> QED BY <2>1, <2>4, <2>5, <2>6, <2>7, <2>8, <2>9, <2>10
<1> QED BY <1>2, <1>3 DEF Trim

LEMMA PruneListInv ==
  ASSUME IInv, IInv', ListInv, PruneTick
  PROVE  ListInv'
<1>1. Trim /\ phase = "up" /\ UNCHANGED <<phase, number, handler, id, ws, disk, boot>>
  BY DEF PruneTick, project, process
<1>2. /\ logs' \subseteq logs /\ IsFiniteSet(logs')
      /\ unclosed' \in Seq(Nat)
      /\ dirty \subseteq dirty' /\ dirty' \subseteq dirty \cup Database
      /\ (logs' = logs /\ unclosed' = unclosed) \/ "log" \in dirty'
      /\ unclosed' = unclosed \/ "project" \in dirty'
      /\ \A n \in DOMAIN unclosed' : Contains(unclosed, unclosed'[n])
      /\ \A n \in DOMAIN unclosed :
           (\A s \in logs : id[s] = unclosed[n] => ws[s] = "OPEN") =>
             Contains(unclosed', unclosed[n])
  BY <1>1, TrimKeeps
<1>3. logs \subseteq Request
  BY DEF IInv, LogTypeOk
<1>4. ListTypeOk'
  BY <1>1, <1>2 DEF ListInv, ListTypeOk, TypeOk, IInv, Database
<1>5. ActiveIds'
  BY <1>1, <1>2 DEF ListInv, ActiveIds
<1>6. OpenIsListed'
  <2> SUFFICES ASSUME NEW q \in Request, ListenersPath, handler[q] = "open"
               PROVE  Contains(unclosed', id[q])
    BY <1>1 DEF OpenIsListed, Contains
  <2>1. PICK n \in DOMAIN unclosed : unclosed[n] = id[q]
    BY DEF ListInv, OpenIsListed
  <2>2. \A s \in logs : id[s] = id[q] => s = q
    BY <1>3 DEF ListInv, ActiveIds, Active
  <2>3. ws[q] = "OPEN"
    BY DEF IInv, OpenSaysOpen
  <2> QED BY <1>2, <2>1, <2>2, <2>3
<1>7. SavedList' /\ SavedLogs'
  BY <1>1, <1>2 DEF ListInv, SavedList, SavedLogs
<1>8. ResetFollows' /\ NoGhostOpen'
  BY <1>1, <1>2 DEF ListInv, ResetFollows, NoGhostOpen
<1> QED BY <1>4, <1>5, <1>6, <1>7, <1>8 DEF ListInv

\* A trim at boot that shortens the list ends the clean history.
LEMMA BootTrimListInv ==
  ASSUME IInv, IInv', ListInv, BootTrim
  PROVE  ListInv'
<1>1. /\ Trim /\ phase = "booting"
      /\ UNCHANGED <<phase, number, handler, id, ws, disk>>
      /\ boot' = [boot EXCEPT !.trimmed = TRUE, !.clean = @ /\ unclosed' = unclosed]
  BY DEF BootTrim, project
<1>2. /\ logs' \subseteq logs /\ IsFiniteSet(logs')
      /\ unclosed' \in Seq(Nat)
      /\ dirty \subseteq dirty' /\ dirty' \subseteq dirty \cup Database
      /\ (logs' = logs /\ unclosed' = unclosed) \/ "log" \in dirty'
      /\ unclosed' = unclosed \/ "project" \in dirty'
      /\ \A n \in DOMAIN unclosed' : Contains(unclosed, unclosed'[n])
  BY <1>1, TrimKeeps
<1>3. boot \in [trimmed : BOOLEAN, at : Nat, held : Nat, reset : BOOLEAN, clean : BOOLEAN]
  BY DEF ListInv, ListTypeOk, TypeOk
<1>4. /\ boot' \in [trimmed : BOOLEAN, at : Nat, held : Nat, reset : BOOLEAN, clean : BOOLEAN]
      /\ boot'.at = boot.at /\ boot'.held = boot.held /\ boot'.reset = boot.reset
      /\ boot'.clean => boot.clean /\ unclosed' = unclosed
  BY <1>1, <1>3
<1>5. ListTypeOk'
  BY <1>1, <1>2, <1>4 DEF ListInv, ListTypeOk, TypeOk, IInv, Database
<1>6. \A r \in Request : handler[r] \notin Active
  BY <1>1 DEF IInv, BootIsQuiet, Active
<1>7. ActiveIds' /\ OpenIsListed'
  BY <1>1, <1>6 DEF ActiveIds, OpenIsListed, Active
<1>8. SavedList' /\ SavedLogs'
  BY <1>1, <1>2, <1>4 DEF ListInv, SavedList, SavedLogs
<1>9. ResetFollows' /\ NoGhostOpen'
  BY <1>1, <1>2, <1>4 DEF ListInv, ResetFollows, NoGhostOpen
<1> QED BY <1>5, <1>7, <1>8, <1>9 DEF ListInv

LEMMA ClearListInv ==
  ASSUME IInv, IInv', ListInv, DeleteAllLogs
  PROVE  ListInv'
<1>1. /\ phase = "up" /\ logs' = {} /\ dirty' = dirty \cup {"log"}
      /\ UNCHANGED <<phase, number, handler, id, ws, unclosed, disk, boot>>
  BY DEF DeleteAllLogs, project, process
<1>2. ListTypeOk'
  BY <1>1, FS_EmptySet DEF ListInv, ListTypeOk, TypeOk, IInv, Database
<1>3. ActiveIds' /\ OpenIsListed'
  BY <1>1 DEF ListInv, ActiveIds, OpenIsListed
<1>4. SavedList' /\ SavedLogs' /\ ResetFollows' /\ NoGhostOpen'
  BY <1>1 DEF ListInv, SavedList, SavedLogs, ResetFollows, NoGhostOpen
<1> QED BY <1>2, <1>3, <1>4 DEF ListInv

\* What is open, or still to be reset, is listed.
LEMMA StoredOpenIsListed ==
  ASSUME IInv, ListInv, ListenersPath, boot.clean, NEW r \in logs, ws[r] = "OPEN"
  PROVE  Contains(unclosed, id[r])
<1>1. CASE phase = "booting"
  BY <1>1 DEF ListInv, ResetFollows, Contains
<1>2. CASE phase = "up"
  <2>1. handler[r] = "open" /\ r \in Request
    BY <1>2 DEF ListInv, NoGhostOpen, IInv, LogTypeOk
  <2> QED BY <2>1 DEF ListInv, OpenIsListed, Contains
<1> QED BY <1>1, <1>2 DEF IInv, LogTypeOk

LEMMA SaveListInv ==
  ASSUME IInv, IInv', ListInv, SaveLog \/ SaveProject
  PROVE  ListInv'
<1>1. UNCHANGED <<phase, number, handler, id, ws, logs, unclosed, boot>>
  BY DEF SaveLog, SaveProject, project, objects, process
<1> DEFINE saved == [r \in Request |-> IF r \in logs THEN ws[r] ELSE "none"]
<1>2. /\ disk \in [logs : SUBSET Request, ws : [Request -> WsStatus], unclosed : Seq(Nat)]
      /\ saved \in [Request -> WsStatus] /\ logs \in SUBSET Request /\ unclosed \in Seq(Nat)
  BY DEF ListInv, ListTypeOk, TypeOk, IInv, LogTypeOk, WsStatus
<1>3. \/ /\ dirty' = dirty \ {"log"}
         /\ disk'.logs = logs /\ disk'.ws = saved /\ disk'.unclosed = disk.unclosed
         /\ disk' \in [logs : SUBSET Request, ws : [Request -> WsStatus], unclosed : Seq(Nat)]
      \/ /\ dirty' = dirty \ {"project"}
         /\ disk'.logs = disk.logs /\ disk'.ws = disk.ws /\ disk'.unclosed = unclosed
         /\ disk' \in [logs : SUBSET Request, ws : [Request -> WsStatus], unclosed : Seq(Nat)]
  <2>1. CASE SaveLog
    <3>1. disk' = [disk EXCEPT !.logs = logs, !.ws = saved] /\ dirty' = dirty \ {"log"}
      BY <2>1 DEF SaveLog
    <3> HIDE DEF saved
    <3> QED BY <1>2, <3>1
  <2>2. CASE SaveProject
    <3>1. disk' = [disk EXCEPT !.unclosed = unclosed] /\ dirty' = dirty \ {"project"}
      BY <2>2 DEF SaveProject
    <3> QED BY <1>2, <3>1
  <2> QED BY <2>1, <2>2
<1>4. ListTypeOk'
  BY <1>1, <1>3 DEF ListInv, ListTypeOk, TypeOk, IInv
<1>5. ActiveIds' /\ OpenIsListed' /\ ResetFollows' /\ NoGhostOpen'
  BY <1>1 DEF ListInv, ActiveIds, OpenIsListed, ResetFollows, NoGhostOpen
<1>6. SavedList'
  BY <1>1, <1>3 DEF ListInv, SavedList, Contains
<1>7. SavedLogs'
  <2>1. ListenersPath /\ boot.clean => \A r \in logs : ws[r] = "OPEN" => Contains(unclosed, id[r])
    BY StoredOpenIsListed
  <2> QED BY <1>1, <1>2, <1>3, <2>1 DEF ListInv, SavedLogs
<1> QED BY <1>4, <1>5, <1>6, <1>7 DEF ListInv

\* What a process that saved everything leaves is what the next one resets.
LEMMA RestartListInv ==
  ASSUME IInv, IInv', ListInv, Restart
  PROVE  ListInv'
<1>1. /\ phase' = "booting" /\ dirty' = {}
      /\ logs' = disk.logs /\ ws' = disk.ws /\ unclosed' = disk.unclosed
      /\ UNCHANGED <<id, disk>>
      /\ boot' = [BootStart EXCEPT !.clean = boot.clean /\ dirty = {}]
  BY DEF Restart
<1>2. /\ boot' \in [trimmed : BOOLEAN, at : Nat, held : Nat, reset : BOOLEAN, clean : BOOLEAN]
      /\ boot'.at = 0 /\ ~boot'.reset
      /\ boot'.clean => boot.clean /\ dirty = {}
  BY <1>1 DEF ListInv, ListTypeOk, TypeOk, BootStart
<1>3. disk \in [logs : SUBSET Request, ws : [Request -> WsStatus], unclosed : Seq(Nat)]
  BY DEF ListInv, ListTypeOk
<1>4. ListTypeOk'
  BY <1>1, <1>2, <1>3 DEF ListInv, ListTypeOk, TypeOk, IInv
<1>5. \A r \in Request : handler'[r] \notin Active
  BY <1>1 DEF IInv, BootIsQuiet, Active
<1>6. ActiveIds' /\ OpenIsListed' /\ NoGhostOpen'
  BY <1>1, <1>5 DEF ActiveIds, OpenIsListed, NoGhostOpen, Active
<1>7. SavedList'
  BY <1>1 DEF SavedList, Contains
<1>8. ASSUME ListenersPath, boot'.clean, NEW r \in disk.logs, disk.ws[r] = "OPEN"
      PROVE  Contains(disk.unclosed, id[r])
  <2>1. dirty = {} /\ boot.clean
    BY <1>2, <1>8
  <2>2. PICK n \in DOMAIN unclosed : unclosed[n] = id[r]
    BY <1>8, <2>1 DEF ListInv, SavedLogs, Contains
  <2> QED BY <2>1, <2>2 DEF ListInv, SavedList
<1>9. SavedLogs'
  BY <1>1, <1>8 DEF SavedLogs
<1>10. ResetFollows'
  <2>1. ASSUME ListenersPath, boot'.clean, NEW r \in logs', ws'[r] = "OPEN"
        PROVE  ~boot'.reset /\ \E n \in DOMAIN unclosed' : n >= boot'.at /\ unclosed'[n] = id'[r]
    <3>1. PICK n \in DOMAIN disk.unclosed : disk.unclosed[n] = id[r]
      BY <1>1, <1>8, <2>1 DEF Contains
    <3>2. n >= 0
      BY <1>3, LenProperties
    <3> QED BY <1>1, <1>2, <3>1, <3>2
  <2> QED BY <1>2, <2>1 DEF ResetFollows
<1> QED BY <1>4, <1>6, <1>7, <1>9, <1>10 DEF ListInv

\* The loop closes the log it holds and moves on: what still says OPEN is listed
\* further on, or the list has ended.
LEMMA ResetListInv ==
  ASSUME IInv, IInv', ListInv, ResetBegins \/ ResetOne
  PROVE  ListInv'
<1>1. /\ phase = "booting" /\ ~boot.reset
      /\ UNCHANGED <<phase, number, handler, id, logs, unclosed, dirty, disk>>
      /\ ResetReads(boot.at + 1)
      /\ \/ boot.at = 0 /\ ws' = ws
         \/ boot.at > 0 /\ ws' = ResetStatus
  <2>1. boot.at \in Nat
    BY DEF ListInv, ListTypeOk, TypeOk
  <2> QED BY <2>1 DEF ResetBegins, ResetOne, project, objects
<1>2. /\ boot \in [trimmed : BOOLEAN, at : Nat, held : Nat, reset : BOOLEAN, clean : BOOLEAN]
      /\ unclosed \in Seq(Nat) /\ logs \subseteq Request
  BY DEF ListInv, ListTypeOk, TypeOk, IInv, LogTypeOk
<1>3. /\ Len(unclosed) \in Nat /\ DOMAIN unclosed = 1 .. Len(unclosed)
      /\ \A n \in DOMAIN unclosed : unclosed[n] \in Nat
  BY <1>2, LenProperties, ElementOfSeq
<1>4. \/ /\ ListenersPath /\ boot.at + 1 \in DOMAIN unclosed
         /\ boot'.at = boot.at + 1 /\ boot'.held = unclosed[boot.at + 1]
         /\ ~boot'.reset /\ boot'.clean = boot.clean
         /\ boot' \in [trimmed : BOOLEAN, at : Nat, held : Nat, reset : BOOLEAN, clean : BOOLEAN]
      \/ /\ ListenersPath => boot.at + 1 > Len(unclosed)
         /\ boot'.at = boot.at /\ boot'.reset /\ boot'.clean = boot.clean
         /\ boot' \in [trimmed : BOOLEAN, at : Nat, held : Nat, reset : BOOLEAN, clean : BOOLEAN]
  <2>1. CASE ListenersPath /\ boot.at + 1 <= Len(unclosed)
    <3>1. boot' = [boot EXCEPT !.at = boot.at + 1, !.held = unclosed[boot.at + 1]]
      BY <1>1, <2>1 DEF ResetReads
    <3>2. boot.at + 1 \in DOMAIN unclosed /\ unclosed[boot.at + 1] \in Nat
      BY <1>2, <1>3, <2>1
    <3>3. boot' \in [trimmed : BOOLEAN, at : Nat, held : Nat, reset : BOOLEAN, clean : BOOLEAN]
      <4> DEFINE m == boot.at + 1
                 i == unclosed[boot.at + 1]
      <4>1. m \in Nat /\ i \in Nat /\ boot' = [boot EXCEPT !.at = m, !.held = i]
        BY <1>2, <3>1, <3>2
      <4> HIDE DEF m, i
      <4> QED BY ONLY <1>2, <4>1
    <3>4. /\ boot'.at = boot.at + 1 /\ boot'.held = unclosed[boot.at + 1]
          /\ ~boot'.reset /\ boot'.clean = boot.clean
      BY <1>1, <1>2, <3>1
    <3> QED BY <2>1, <3>2, <3>3, <3>4
  <2>2. CASE ~(ListenersPath /\ boot.at + 1 <= Len(unclosed))
    <3>1. boot' = [boot EXCEPT !.reset = TRUE, !.held = 0]
      BY <1>1, <2>2 DEF ResetReads
    <3>2. boot' \in [trimmed : BOOLEAN, at : Nat, held : Nat, reset : BOOLEAN, clean : BOOLEAN]
      BY <1>2, <3>1
    <3>3. boot'.at = boot.at /\ boot'.reset /\ boot'.clean = boot.clean
      BY <1>2, <3>1
    <3>4. ListenersPath => boot.at + 1 > Len(unclosed)
      BY <1>2, <1>3, <2>2
    <3> QED BY <3>2, <3>3, <3>4
  <2> QED BY <2>1, <2>2
<1>5. ListTypeOk'
  BY <1>1, <1>4 DEF ListInv, ListTypeOk, TypeOk, IInv
<1>6. \A r \in Request : handler[r] \notin Active
  BY <1>1 DEF IInv, BootIsQuiet, Active
<1>7. ActiveIds' /\ OpenIsListed' /\ NoGhostOpen'
  BY <1>1, <1>6 DEF ActiveIds, OpenIsListed, NoGhostOpen, Active
<1>8. SavedList' /\ SavedLogs'
  BY <1>1, <1>4 DEF ListInv, SavedList, SavedLogs
<1>9. ResetFollows'
  <2> SUFFICES ASSUME ListenersPath, boot.clean, NEW r \in logs, ws'[r] = "OPEN"
               PROVE  ~boot'.reset /\ \E n \in DOMAIN unclosed : n >= boot'.at /\ unclosed[n] = id[r]
    BY <1>1, <1>4 DEF ResetFollows
  <2>1. \/ boot.at = 0 /\ ws[r] = "OPEN"
        \/ boot.at > 0 /\ ws[r] = "OPEN" /\ id[r] # boot.held
    BY <1>1, <1>2 DEF ResetStatus
  <2>2. PICK n \in DOMAIN unclosed : n >= boot.at /\ unclosed[n] = id[r]
    BY <1>1, <2>1 DEF ListInv, ResetFollows
  <2>3. boot.at > 0 => boot.held = unclosed[boot.at]
    BY <1>1 DEF ListInv, ResetFollows
  <2>4. n >= boot.at + 1
    BY <1>2, <1>3, <2>1, <2>2, <2>3
  <2>5. n \in Nat /\ boot.at \in Nat /\ n <= Len(unclosed)
    BY <1>2, <1>3
  <2>6. ~(boot.at + 1 > Len(unclosed))
    BY <1>3, <2>4, <2>5
  <2>7. ~boot'.reset /\ boot'.at = boot.at + 1
    BY <1>4, <2>6
  <2> QED BY <2>2, <2>4, <2>7
<1> QED BY <1>5, <1>7, <1>8, <1>9 DEF ListInv

\* The project starts or stops, or requests are served from now on.
LEMMA PhaseListInv ==
  ASSUME IInv, IInv', ListInv, StartProject \/ StopProject \/ BootDone
  PROVE  ListInv'
<1>1. UNCHANGED <<handler, id, ws, logs, unclosed, dirty, disk, boot>>
  BY DEF StartProject, StopProject, BootDone, objects, process
<1>2. ListTypeOk' /\ OpenIsListed' /\ SavedList' /\ SavedLogs'
  BY <1>1 DEF ListInv, ListTypeOk, TypeOk, IInv, OpenIsListed, SavedList, SavedLogs
<1>3. ActiveIds'
  <2>1. number > 0 => number' = number
    BY DEF StartProject, StopProject, BootDone, project, IInv, LogTypeOk
  <2> QED BY <1>1, <2>1 DEF ListInv, ActiveIds
<1>4. ResetFollows' /\ NoGhostOpen'
  <2>1. CASE phase' = phase
    BY <1>1, <2>1 DEF ListInv, ResetFollows, NoGhostOpen
  <2>2. CASE phase = "booting" /\ phase' = "up" /\ boot.reset
    BY <1>1, <2>2 DEF ListInv, ResetFollows, NoGhostOpen
  <2> QED BY <2>1, <2>2 DEF StartProject, StopProject, BootDone, process
<1> QED BY <1>2, <1>3, <1>4 DEF ListInv

LEMMA NextListInv == ASSUME IInv, IInv', ListInv, [BuildNext]_vars PROVE ListInv'
<1>1. ASSUME NEW r \in Request, Serve(r) \/ DesktopSocketCloses(r) PROVE ListInv'
  <2>1. CASE ArrivePlain(r)
    BY <2>1, InsertListInv DEF ArrivePlain
  <2>2. CASE ArriveSocket(r)
    BY <2>2, InsertListInv DEF ArriveSocket
  <2>3. CASE Respond(r) \/ SocketMessage(r)
    BY <2>3, WriteListInv
  <2>4. CASE SocketOpens(r)
    BY <2>4, OpenListInv
  <2>5. CASE SocketCloses(r) \/ DesktopSocketCloses(r)
    BY <2>5, CloseListInv
  <2> QED BY <1>1, <2>1, <2>2, <2>3, <2>4, <2>5 DEF Serve
<1>2. CASE StartProject \/ StopProject \/ BootDone
  BY <1>2, PhaseListInv
<1>3. CASE PruneTick
  BY <1>3, PruneListInv
<1>4. CASE BootTrim
  BY <1>4, BootTrimListInv
<1>5. CASE DeleteAllLogs
  BY <1>5, ClearListInv
<1>6. CASE SaveLog \/ SaveProject
  BY <1>6, SaveListInv
<1>7. CASE Restart
  BY <1>7, RestartListInv
<1>8. CASE ResetBegins \/ ResetOne
  BY <1>8, ResetListInv
<1>9. CASE UNCHANGED vars
  BY <1>9 DEF vars, ListInv, ListTypeOk, TypeOk, IInv, ActiveIds, OpenIsListed, SavedList,
              SavedLogs, ResetFollows, NoGhostOpen, Contains
<1> QED BY <1>1, <1>2, <1>3, <1>4, <1>5, <1>6, <1>7, <1>8, <1>9 DEF BuildNext, Next

\* Every reachable state satisfies the invariant of the unclosed list; with it
\* the whole of TypeOk.
THEOREM ListInvariant == HostSpec => [](ListInv /\ TypeOk)
<1>1. HostInit => ListInv
  BY InitListInv DEF HostInit
<1>2. IInv /\ IInv' /\ ListInv /\ [HostNext]_hostVars => ListInv'
  BY NextListInv, BuildStep
<1>3. ListInv => TypeOk
  BY DEF ListInv, ListTypeOk
<1> QED BY <1>1, <1>2, <1>3, Invariant, PTL DEF HostSpec

\* The CONNECTION listener and the trim: the id of an open websocket is on the
\* unclosed list, however many logs were trimmed or cleared meanwhile.
THEOREM OpenSocketsAreListed == HostSpec => []OpenIsListed
<1>1. ListInv => OpenIsListed
  BY DEF ListInv
<1> QED BY <1>1, ListInvariant, PTL

\* The reset loop of the START listeners: after a process that saved its changes
\* no stored log says OPEN without an open websocket, although closing a
\* websocket and resetting a log mark neither database.
THEOREM NoGhosts == HostSpec => []NoGhostOpen
<1>1. ListInv => NoGhostOpen
  BY DEF ListInv
<1> QED BY <1>1, ListInvariant, PTL

\* A trim leaves exactly MaxLogs logs, or more when all that are left are open.
THEOREM TrimsToTheLimit == HostSpec => TrimIsExact
<1>1. ASSUME IInv, ListInv, PruneTick \/ BootTrim, Cardinality(logs) > MaxLogs
      PROVE  \/ Cardinality(logs') = MaxLogs
             \/ Cardinality(logs') > MaxLogs /\ \A r \in logs' : ws[r] = "OPEN"
  <2> DEFINE C == {r \in logs : ws[r] # "OPEN"}
             n == Cardinality(logs) - MaxLogs
  <2>1. Trim
    BY <1>1 DEF PruneTick, BootTrim
  <2>2. IsFiniteSet(logs) /\ Cardinality(logs) \in Nat /\ MaxLogs \in Nat
    BY <1>1, MaxLogsAssumption, FS_CardinalityType DEF ListInv, ListTypeOk
  <2>3. C \in SUBSET logs /\ n \in Nat /\ n > 0 /\ C \in SUBSET Request
    BY <1>1, <2>2 DEF IInv, LogTypeOk
  <2>4. IsFiniteSet(C) /\ Cardinality(C) \in Nat
    <3> HIDE DEF C
    <3> QED BY <2>2, <2>3, FS_Subset, FS_CardinalityType
  <2>5. Removable = Oldest(C, n)
    BY DEF Removable
  <2>6. id \in [Request -> Nat] /\ \A r, s \in C : id[r] = id[s] => r = s
    BY <1>1 DEF IInv, LogTypeOk, UniqueIds
  <2>7. \A r \in logs : r \notin C => ws[r] = "OPEN"
    OBVIOUS
  <2> HIDE DEF C, n
  <2>8. /\ Removable \subseteq C /\ IsFiniteSet(Removable)
        /\ Cardinality(C) <= n => Removable = C
        /\ Cardinality(C) > n => Cardinality(Removable) = n
    BY <2>3, <2>4, <2>5, <2>6, OldestCount
  <2>9. /\ IsFiniteSet(logs \ Removable)
        /\ Cardinality(logs \ Removable) = Cardinality(logs) - Cardinality(Removable)
    <3>1. logs \cap Removable = Removable
      BY <2>3, <2>8
    <3> QED BY <2>2, <3>1, FS_Difference
  <2>10. logs' = logs \ Removable
    <3>1. CASE Removable = {}
      BY <1>1, <2>1, <3>1 DEF Trim
    <3>2. CASE Removable # {}
      BY <1>1, <2>1, <3>2 DEF Trim
    <3> QED BY <3>1, <3>2
  <2>11. CASE Cardinality(C) > n
    BY <2>2, <2>8, <2>9, <2>10, <2>11 DEF n
  <2>12. CASE Cardinality(C) = n
    BY <2>2, <2>8, <2>9, <2>10, <2>12 DEF n
  <2>13. CASE Cardinality(C) < n
    <3>1. Cardinality(logs') > MaxLogs
      BY <2>2, <2>4, <2>8, <2>9, <2>10, <2>13 DEF n
    <3>2. \A r \in logs' : ws[r] = "OPEN"
      BY <2>4, <2>3, <2>7, <2>8, <2>10, <2>13
    <3> QED BY <3>1, <3>2
  <2> QED BY <2>3, <2>4, <2>11, <2>12, <2>13
<1>2. IInv /\ ListInv =>
        ((PruneTick \/ BootTrim) /\ Cardinality(logs) > MaxLogs =>
           \/ Cardinality(logs') = MaxLogs
           \/ Cardinality(logs') > MaxLogs /\ \A r \in logs' : ws[r] = "OPEN")
  BY <1>1
<1> QED BY <1>2, Invariant, ListInvariant, PTL DEF TrimIsExact
=============================================================================
