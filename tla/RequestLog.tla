----------------------------- MODULE RequestLog -----------------------------
(***************************************************************************)
(* The request log of one project: the numbering of logs, the handlers     *)
(* that write a log when a request arrives, is answered or turns into a    *)
(* websocket, the trimming task, the delete-all request, the list of       *)
(* unclosed websocket logs kept on the project record, and the two         *)
(* database files (log.db, project.db) that are saved by independent       *)
(* four-second timers and read back after a restart.                       *)
(*                                                                         *)
(* A request stands for its log object: the handler keeps a reference to   *)
(* it even when the object has left the collection.                        *)
(*                                                                         *)
(* A definition marked Variant is a faulty form of the definition after    *)
(* it.  It is used only to confirm that a property can fail.               *)
(***************************************************************************)
EXTENDS Naturals, Sequences, FiniteSets

CONSTANTS
    Request,        \* the matched requests that reach the mock server
    MaxLogs,        \* the project's effective maxRequestLogNumber
    ListenersPath,  \* TRUE iff the database path is the "db" of eventListener.ts
    TornCrash,      \* TRUE iff the process may end with unsaved changes
    MaxRestarts     \* bound of the model: how often the process restarts

ASSUME MaxLogsAssumption == MaxLogs \in Nat \ {0}
ASSUME FlagsAssumption ==
    ListenersPath \in BOOLEAN /\ TornCrash \in BOOLEAN /\ MaxRestarts \in Nat

VARIABLES
    phase,      \* booting: the START listeners run; up: requests are served
    started,    \* the project is STARTED
    number,     \* its logIndexMap entry, 0 when it has none
    handler,    \* what the handler of each request is doing
    id,         \* the id of each log object, 0 before it is created
    ws,         \* websocketInfo.status of each log object
    logs,       \* the log collection
    unclosed,   \* project.unclosedWebsocketRequestLogIds
    dirty,      \* the databases with changes the autosave has not written
    disk,       \* the contents of log.db and project.db
    boot,       \* progress of the START listeners
    restarts

vars == <<phase, started, number, handler, id, ws, logs, unclosed, dirty, disk,
          boot, restarts>>
project == <<started, number>>
objects == <<id, ws, logs>>
process == <<phase, boot, restarts>>

\* waiting: the action has not answered yet; connecting and open: a proxied
\* websocket; finished: nothing more will be written.  No code sets the
\* WebsocketStatus CLOSING; none stands for a log without websocketInfo.
Handler == {"unsent", "waiting", "connecting", "open", "finished"}
WsStatus == {"none", "CONNECTING", "OPEN", "CLOSED"}
Database == {"log", "project"}

FirstNumber == 100000

\* trimmed: the boot-time trim is done; at: the position the reset loop works
\* on, 0 before it starts; held: the id it read there before its await; clean is
\* history: the last process saved everything and the trim left the list alone.
BootStart == [trimmed |-> FALSE, at |-> 0, held |-> 0, reset |-> FALSE, clean |-> TRUE]

LogTypeOk ==
    /\ phase \in {"booting", "up"}
    /\ started \in BOOLEAN
    /\ number \in Nat
    /\ handler \in [Request -> Handler]
    /\ id \in [Request -> Nat]
    /\ ws \in [Request -> WsStatus]
    /\ logs \subseteq Request
    /\ disk.logs \subseteq Request
    /\ disk.ws \in [Request -> WsStatus]
    /\ restarts \in 0 .. MaxRestarts

TypeOk ==
    /\ LogTypeOk
    /\ unclosed \in Seq(Nat)
    /\ dirty \subseteq Database
    /\ disk.unclosed \in Seq(Nat)
    /\ boot \in [trimmed : BOOLEAN, at : Nat, held : Nat, reset : BOOLEAN,
                clean : BOOLEAN]

Init ==
    /\ phase = "booting" /\ boot = BootStart
    /\ started = FALSE /\ number = 0
    /\ handler = [r \in Request |-> "unsent"]
    /\ id = [r \in Request |-> 0]
    /\ ws = [r \in Request |-> "none"]
    /\ logs = {} /\ unclosed = << >> /\ dirty = {}
    /\ disk = [logs |-> logs, ws |-> ws, unclosed |-> unclosed]
    /\ restarts = 0

Move(r, from, to) ==
    /\ handler[r] = from
    /\ handler' = [handler EXCEPT ![r] = to]

Ids(S) == {id[r] : r \in S}

\* filter: the members of seq outside S, the one of the k-th kept position at k.
Without(seq, S) ==
    LET kept == {n \in DOMAIN seq : seq[n] \notin S}
        place(k) == CHOOSE n \in kept : Cardinality({m \in kept : m < n}) = k - 1
    IN  [k \in 1 .. Cardinality(kept) |-> seq[place(k)]]

-----------------------------------------------------------------------------
(* Numbers and log writes.                                                  *)

\* Variant: numbering restarts at the size of the log.
NumberFromSize == FirstNumber + Cardinality(logs)

\* getMockRouter: 100000, or one more than the largest id in the log.
NewestNumber ==
    IF logs = {} THEN FirstNumber
    ELSE 1 + CHOOSE i \in Ids(logs) : \A j \in Ids(logs) : j <= i

\* The router, and with it the numbering, is built by the first start only.
StartProject ==
    /\ phase = "up" /\ ~started
    /\ started' = TRUE
    /\ number' = IF number = 0 THEN NewestNumber ELSE number
    /\ UNCHANGED <<handler, objects, unclosed, dirty, disk, process>>

StopProject ==
    /\ started
    /\ started' = FALSE
    /\ UNCHANGED <<number, handler, objects, unclosed, dirty, disk, process>>

NewLogNumber == IF number = 0 THEN FirstNumber + 1 ELSE number + 1

\* insertReqLog: the log enters the collection before the action runs.
InsertReqLog(r, status, to) ==
    /\ phase = "up" /\ started
    /\ Move(r, "unsent", to)
    /\ number' = NewLogNumber
    /\ id' = [id EXCEPT ![r] = NewLogNumber]
    /\ ws' = [ws EXCEPT ![r] = status]
    /\ logs' = logs \cup {r}
    /\ dirty' = dirty \cup {"log"}
    /\ UNCHANGED <<started, unclosed, disk, process>>

ArrivePlain(r) == InsertReqLog(r, "none", "waiting")

\* A websocket proxy returns at once: its response log is written in the same
\* turn that creates websocketInfo.
ArriveSocket(r) == InsertReqLog(r, "CONNECTING", "connecting")

\* Variant: a missing log is inserted again.
Upsert(r) ==
    /\ logs' = logs \cup {r}
    /\ dirty' = dirty \cup {"log"}

\* updateLogIfPresent: updating a log that was removed has no effect.
UpdateLogIfPresent(r) ==
    /\ dirty' = IF r \in logs THEN dirty \cup {"log"} ELSE dirty
    /\ UNCHANGED logs

\* insertResLog, after the delay, the proxied answer or the file.
Respond(r) ==
    /\ Move(r, "waiting", "finished")
    /\ UpdateLogIfPresent(r)
    /\ UNCHANGED <<project, id, ws, unclosed, disk, process>>

-----------------------------------------------------------------------------
(* Websockets.                                                              *)

\* The CONNECTION listener pushes the id and updates the project record.
SocketOpens(r) ==
    /\ Move(r, "connecting", "open")
    /\ ws' = [ws EXCEPT ![r] = "OPEN"]
    /\ LET written == IF r \in logs THEN {"log"} ELSE {}
       IN  IF ListenersPath
           THEN /\ unclosed' = Append(unclosed, id[r])
                /\ dirty' = dirty \cup written \cup {"project"}
           ELSE /\ dirty' = dirty \cup written
                /\ UNCHANGED unclosed
    /\ UNCHANGED <<project, id, logs, disk, process>>

\* A message in either direction is pushed to the log object.
SocketMessage(r) ==
    /\ handler[r] = "open"
    /\ UpdateLogIfPresent(r)
    /\ UNCHANGED <<project, handler, objects, unclosed, disk, process>>

\* Variant: closing one websocket forgets every listed one.
ForgetAllSockets(r) == unclosed' = << >>

\* The CLOSED listener filters the id out but does not update the record, so
\* the project database is not marked for saving.
ForgetSocket(r) ==
    unclosed' = IF ListenersPath THEN Without(unclosed, {id[r]}) ELSE unclosed

SocketEnds(r) ==
    /\ Move(r, "connecting", "finished") \/ Move(r, "open", "finished")
    /\ ws' = [ws EXCEPT ![r] = "CLOSED"]
    /\ UpdateLogIfPresent(r)
    /\ UNCHANGED <<project, id, disk, process>>

SocketCloses(r) == SocketEnds(r) /\ ForgetSocket(r)

-----------------------------------------------------------------------------
(* Trimming and clearing.                                                   *)

Oldest(S, n) == {r \in S : Cardinality({s \in S : id[s] < id[r]}) < n}

\* Variant: the status of the websocket is not looked at.
RemovableAll == Oldest(logs, Cardinality(logs) - MaxLogs)

\* Variant: one log more than the overflow.
RemovableOneMore ==
    Oldest({r \in logs : ws[r] # "OPEN"}, Cardinality(logs) - MaxLogs + 1)

\* pruneLogCollection: the oldest overflow logs whose websocket is not open.
Removable ==
    Oldest({r \in logs : ws[r] # "OPEN"}, Cardinality(logs) - MaxLogs)

\* pruneProjectLogs: the record is updated only if the list changed.
Trim ==
    IF Cardinality(logs) > MaxLogs /\ Removable # {}
    THEN LET remaining == Without(unclosed, Ids(Removable))
         IN  /\ logs' = logs \ Removable
             /\ unclosed' = remaining
             /\ dirty' = dirty \cup {"log"}
                    \cup (IF remaining # unclosed THEN {"project"} ELSE {})
    ELSE UNCHANGED <<logs, unclosed, dirty>>

\* A tick of startLogPruneTask.
PruneTick ==
    /\ phase = "up" /\ started
    /\ Trim
    /\ UNCHANGED <<project, handler, id, ws, disk, process>>

\* findAndRemove({}): open websockets and the unclosed list are not looked at.
DeleteAllLogs ==
    /\ phase = "up" /\ logs # {}
    /\ logs' = {}
    /\ dirty' = dirty \cup {"log"}
    /\ UNCHANGED <<project, handler, id, ws, unclosed, disk, process>>

-----------------------------------------------------------------------------
(* Persistence and restart.                                                 *)

SaveLog ==
    /\ "log" \in dirty
    /\ disk' = [disk EXCEPT !.logs = logs,
                             !.ws = [r \in Request |-> IF r \in logs THEN ws[r] ELSE "none"]]
    /\ dirty' = dirty \ {"log"}
    /\ UNCHANGED <<project, handler, objects, unclosed, process>>

SaveProject ==
    /\ "project" \in dirty
    /\ disk' = [disk EXCEPT !.unclosed = unclosed]
    /\ dirty' = dirty \ {"project"}
    /\ UNCHANGED <<project, handler, objects, unclosed, process>>

\* The process ends and a new one loads the files.  No handler survives.
Restart ==
    /\ restarts < MaxRestarts /\ restarts' = restarts + 1
    /\ TornCrash \/ dirty = {}
    /\ phase' = "booting"
    /\ boot' = [BootStart EXCEPT !.clean = boot.clean /\ dirty = {}]
    /\ started' = FALSE /\ number' = 0
    /\ handler' = [r \in Request |->
                     IF handler[r] = "unsent" THEN "unsent" ELSE "finished"]
    /\ logs' = disk.logs /\ ws' = disk.ws /\ unclosed' = disk.unclosed
    /\ dirty' = {}
    /\ UNCHANGED <<id, disk>>

\* pruneAllProjects, one of the START listeners.
BootTrim ==
    /\ phase = "booting" /\ ~boot.trimmed
    /\ Trim
    /\ boot' = [boot EXCEPT !.trimmed = TRUE, !.clean = @ /\ unclosed' = unclosed]
    /\ UNCHANGED <<project, phase, handler, id, ws, disk, restarts>>

\* The reset loop reads the id at a position and awaits the log collection.
ResetReads(n) ==
    boot' = IF ListenersPath /\ n <= Len(unclosed)
            THEN [boot EXCEPT !.at = n, !.held = unclosed[n]]
            ELSE [boot EXCEPT !.reset = TRUE, !.held = 0]

ResetBegins ==
    /\ phase = "booting" /\ boot.at = 0 /\ ~boot.reset
    /\ ResetReads(1)
    /\ UNCHANGED <<project, phase, handler, objects, unclosed, dirty, disk, restarts>>

\* Variant: only the first id of the list is looked up.
ResetStatusFirst == [r \in Request |->
    IF r \in logs /\ boot.at = 1 /\ id[r] = boot.held /\ ws[r] # "none" THEN "CLOSED" ELSE ws[r]]

\* The log may be gone, or carry no websocketInfo: the error is swallowed.
ResetStatus == [r \in Request |->
    IF r \in logs /\ id[r] = boot.held /\ ws[r] # "none" THEN "CLOSED" ELSE ws[r]]

\* The status is set in memory only: the log database is not marked dirty.
ResetOne ==
    /\ phase = "booting" /\ boot.at > 0 /\ ~boot.reset
    /\ ws' = ResetStatus
    /\ ResetReads(boot.at + 1)
    /\ UNCHANGED <<project, phase, handler, id, logs, unclosed, dirty, disk, restarts>>

\* index.ts waits for every START listener before it serves requests.
BootDone ==
    /\ phase = "booting" /\ boot.trimmed /\ boot.reset
    /\ phase' = "up"
    /\ UNCHANGED <<project, handler, objects, unclosed, dirty, disk, boot, restarts>>

-----------------------------------------------------------------------------
Serve(r) ==
    \/ ArrivePlain(r) \/ ArriveSocket(r) \/ Respond(r)
    \/ SocketOpens(r) \/ SocketMessage(r) \/ SocketCloses(r)

Next ==
    \/ \E r \in Request : Serve(r)
    \/ StartProject \/ StopProject \/ PruneTick \/ DeleteAllLogs
    \/ SaveLog \/ SaveProject \/ Restart
    \/ BootTrim \/ ResetBegins \/ ResetOne \/ BootDone

Spec == Init /\ [][Next]_vars

-----------------------------------------------------------------------------
(* Properties.                                                              *)

\* No two logs of the collection, nor of log.db, carry the same id, although
\* the numbering is restarted from the surviving logs after every restart.
UniqueIds ==
    \A S \in {logs, disk.logs} : \A r, s \in S : id[r] = id[s] => r = s

\* The log page shows and pages logs by descending id: a log that arrives has
\* a larger id than every log already there.
NewestIsLargest ==
    [][phase' = "up" =>
         \A r \in logs' \ logs : \A s \in logs : id'[s] < id'[r]]_vars

\* pruneLogCollection, "Logs whose websocket is still open are never removed,
\* since they may still be updated": while the process runs, only clearing the
\* whole log takes away the log of a websocket that is still open.
OpenSocketsKeepTheirLog ==
    [][phase = "up" /\ phase' = "up" =>
         \A r \in logs \ logs' : handler[r] = "open" => logs' = {}]_vars

\* A trim brings the log down to MaxLogs and not below, unless websockets that
\* are open alone exceed it.
TrimIsExact ==
    [][(PruneTick \/ BootTrim) /\ Cardinality(logs) > MaxLogs =>
         \/ Cardinality(logs') = MaxLogs
         \/ Cardinality(logs') > MaxLogs /\ \A r \in logs' : ws[r] = "OPEN"]_vars

\* A log that was trimmed or cleared does not come back when its request is
\* answered or its websocket changes: only a request that arrives adds a log.
RemovedLogsStayRemoved ==
    [][phase' = "up" => \A r \in logs' \ logs : handler[r] = "unsent"]_vars

\* The id of every open websocket is on the project's unclosed list, so that
\* the next process can find its log.
OpenIsListed ==
    \A r \in Request :
        ListenersPath /\ handler[r] = "open" => \E n \in DOMAIN unclosed : unclosed[n] = id[r]

\* eventListener.ts, "reset the opening websocket req log": once the START
\* listeners are done, a log says OPEN only if its websocket is open in this
\* process; it would never be trimmed otherwise.  Three cases are excused, all of
\* which leave such a log: another directory than the one the listeners read, a
\* process that ended with unsaved changes, and a trim at boot that shortens the
\* list while the reset loop indexes it.
NoGhostOpen ==
    phase = "up" /\ ListenersPath /\ boot.clean =>
        \A r \in logs : ws[r] = "OPEN" => handler[r] = "open"
=============================================================================
