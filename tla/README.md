# LiveMock in TLA+

LiveMock is a mock server for HTTP and websocket interfaces. A dashboard edits
*projects*; every project has a port of its own, on which an express server
answers requests by the project's *expectations*, proxies them to an upstream,
and records them in a *request log*. There are two builds: a back end with a
browser dashboard (`backEnd/`, `frontEnd/`), and an Electron application
(`desktop/`) that carries copies of both and talks over IPC. This directory
holds TLA+ modules of both builds and of the code they share (`core/`),
configurations that model-check them with TLC, and proofs that TLAPS checks.

Paths below are relative to the repository. `tla/PROJECT.json` maps every
definition to the lines it models and names every hazard with the properties
that cover it.

    cd tla
    tlc -config MCProjectLifecycle.cfg MCProjectLifecycle.tla
    tlapm ProjectBarProofs.tla

Contents: [inventory](#inventory) · [how time is cut into
steps](#how-time-is-cut-into-steps) · [modules](#modules) · [runs](#runs) ·
[fairness](#fairness) · [proofs](#proofs) · [findings](#findings) · [defects
found](#defects-found) · [not modelled](#not-modelled) · [plan](#plan).

## Inventory

The back end is one Node.js process, and so is the main process of the desktop
build. Each keeps its data in Loki databases, one file each, that are loaded on
first use and saved by an autosave timer every four seconds. There is no
transaction over several of them. A page is a React program with a store and a
query cache of its own; it learns of changes by fetching again, and by socket
events for the request log alone.

| Part | State | Operations | Talks to |
| --- | --- | --- | --- |
| Project lifecycle (`controller/projectController.ts`, `server/projectStatusManage.ts`) | project records in `project.db`; `projectStatusMap` and `projectServerMap` in memory | create, list, update, start, stop, delete | opens and closes mock servers; deletes the project's database files |
| Mock request (`server/mockServer.ts`, `action/*`) | one pending handler per request, the proxy's timer, the upstream exchange | match, delay, answer, proxy, serve a file, answer a preflight request | reads expectations and actions by reference; writes the log before and after |
| Match order (`core/struct/expectationGroup.ts`) | none | order the expectations, pick the first that accepts | used by the engine, the list endpoint and the failure page |
| Matchers (`matcher/*`) | none | compare a request with conditions | called by the engine |
| Expectations and groups (`controller/expectation*.ts`, `matcherController.ts`, `actionController.ts`) | two collections of the project's `expectation.db` | create, update, delete, list, import | the mock requests hold references to their objects |
| Import parsers (`core/import/*`) | none | read OpenAPI, Swagger and Postman files | called by the import |
| Request log (`log/logUtils.ts`, `log/logPruneTask.ts`, numbering in `mockServer.ts`) | the log collection in `log.db`, `logIndexMap` in memory | insert, write the response, trim to a maximum, clear | Loki events go to the log views |
| Websockets (`action/ProxyWebsocket.ts`, `common/eventListener.ts`) | `websocketInfo` of a log; `unclosedWebsocketRequestLogIds` of the project record | open, relay, close, reset after a restart | events `CONNECTION`, `CLOSED`, `START` |
| Log views (`controller/logController.ts`, `logFilterController.ts`) | a persisted view with filters, a Loki dynamic view, the socket listeners | page, query, filter, preset filters | socket.io or IPC to the log page |
| Log page (`page/LogPage.tsx`) | rows, selection, pause flag, filter bar, busy flags | first page, more pages, events, filters, clear | the log views |
| Expectation page (`page/ExpectationPage.tsx`) | list, cached groups, selection, dialogs | create, clone, edit, switch, delete, group, action | the expectation handlers |
| Project bar (`component/AppBar.tsx`, `ProjectSettingsModal.tsx`) | project list, selected project, dialogs | create, start, stop, settings, delete, switch | the project handlers |
| Mock from a log (`component/expectation/MockFromLogModal.tsx`, `core/import/fromLog.ts`) | a draft, its saves | edit, reset, save | creates expectations |
| Authentication (`auth/*`, `controller/auth*.ts`, `script/resetAdmin.ts`) | account, sessions and tokens in `project.db`; the throttle in memory | register, login, logout, change password, tokens, sweep, reset | guards every API route and the socket handshake |
| Persistence (`db/*`) | memory and file of every database | load, autosave, delete | everything above |
| Startup (`index.ts`, `electron/main.ts`) | the `START` listeners | run them all, then serve | trimming and websocket reset run there side by side |
| MCP server (`mcp/`), settings and sign-in pages, scripts | none | | the HTTP interface |

What is hard, and what makes each part correct:

* **Lifecycle.** `start`, `stop` and `delete` check the status, await, and act
  afterwards. Requests of several tabs overlap across those awaits; `listen`,
  `close`, the router and the deletion of files may fail. Correct means: the
  status on the dashboard and the real server agree, no two handlers switch one
  project at once, no project is abandoned halfway, every request is answered.
* **Mock request.** The proxy races its own timer, the upstream's headers, its
  errors and the client's departure. Meanwhile the action may be edited under
  the request. Correct means: one answer, no stream cut off by the timer, a
  wait that ends, a log that says what the client got.
* **Match order.** The engine sorts only the active expectations, the list sorts
  all; groups and single expectations are ranked against each other; ties are
  common. Correct means: both agree, and silencing one mock does not reorder
  others.
* **Import.** Its index mixes stored expectations with items that are inserted
  only after the loop, and one file may hold several items for one key. Correct
  means: no twins, and a failed import changes nothing (it does, see [defects
  found](#defects-found)).
* **Request log.** The numbering lives in memory and is rebuilt from whatever
  logs survived; answers and websocket events arrive for logs that were trimmed;
  the log and the project record are saved separately. Correct means: ids are
  unique and growing, trimming is exact and spares open websockets, nothing
  removed comes back, and no log says OPEN for ever.
* **Authentication.** Renewal is throttled, changes of the password end sessions
  and tokens in several steps, a crash loses the last seconds. Correct means:
  what an earlier password opened is gone, used sessions last, unused ones end,
  failed logins wait longer and longer.
* **Log views.** A filter lives in the view's record and in the pipeline of the
  Loki dynamic view, in two files. Handlers change the first, wait, and change
  the second; queries translate the record anew. Correct means: the list is
  narrowed by what the filters say, a preset is stored once, and a query with the
  filters of the view finds what its list shows.
* **Pages.** A page goes on after every await with what it read before: another
  project may be shown by then, another dialog open, another fetch under way,
  and pages and events come over two channels. Correct means: in quiet times the
  page shows what is stored, the selection is the one the last operation means,
  no control stays disabled, nothing is created twice.
* **Mock from a log.** Documents are flattened to dotted names, which the matchers
  resolve again. Correct means: the expectation accepts the request it was made
  from, matches the checked fields only, and replays the answer.

## How time is cut into steps

JavaScript runs one handler at a time until it awaits something that is not
ready. A stretch between two such points is one action, with every state change
in it, whatever functions it calls. An `await` that is already fulfilled when it
is reached (a loaded database, an `async` function without I/O) yields only to
microtasks and does not let another request in; such handlers are one action.
The points that do suspend:

| Module | Suspension points |
| --- | --- |
| `ProjectLifecycle` | the first load of a project's databases (`routing`), the outcome of `listen` (`listening`), of `close` or the three-second timer (`closing`), the deletion of four files (`deleting`) |
| `MockRequest` | the delay of the expectation (`delayed`), the upstream's headers and body (`headers`, `body`), the sending of a file (`file`) |
| `RequestLog` | a request's answer (`waiting`), a websocket (`connecting`, `open`), each position of the reset loop, which awaits the log collection |
| `LogView` | the first load of the log database, for which any number of handlers may wait |
| `LogPage`, `ExpectationPage`, `ProjectBar`, `MockFromLog` | every request of a page: it is sent, handled, and its answer arrives, each at some later moment |
| `ExpectationStore`, `Auth` | none: their databases are loaded when requests are served |

## Modules

### ProjectLifecycle, DesktopLifecycle, ListenerControl

`ProjectLifecycle` is `projectController.ts` with `projectStatusManage.ts`.
`live` is the project collection, `port` the port field of each record,
`status` and `server` the two maps, `bound` the port a server really listens on
(the operating system's side), `pc` and `target` the suspended handlers.

* `StartFirst` and `StartAgain` are the two branches of `start`: the first start
  of a project loads the databases and builds the router (`RouterReady` goes on
  from there), later ones reuse the server. `Listen`, `ListenThrows`,
  `ListenSucceeds` and `ListenFails` are `server.listen`, its exception for an
  illegal port, and its two events.
* After a failed start the status stays STARTING until the process restarts,
  as in the code: the test suite relies on it. The model keeps it.
* `StopAccept`, `CloseEnds`, `CloseFails` are `stopServer`, whose callback races
  with its timer; the `settled` flag makes them exclusive, so one of the two
  actions is taken once.
* `DeleteAccept`, `DeleteDone`, `DeleteFails`: the status is checked before the
  four awaits and not again.
* `BadId` are ids that `checkValidIdStr` refuses, `BadPort` ports that `listen`
  refuses by throwing. A port that is free in the model may still be taken by
  another program (`Listen` chooses).

`ListenerControl` states what the dashboard's two buttons rely on, without
handlers, records or maps: a listener runs STOPPED, STARTING, STARTED, CLOSING
in this order, an open port is announced, and closing ends.
`ProjectLifecycle` implements it with `phase <- status` and
`serving <- {p : bound[p] # NoPort}`.

`DesktopLifecycle` adds the variable `host` and the handlers of the desktop
build. One of them differs: a start registers its server before it listens, so
the server stays registered when `listen` throws. Its other difference, that a
start answers before its outcome is known, is seen by the caller only and is in
`ProjectBar`.

### RequestLog, DesktopRequestLog

One project's log. A request stands for its log object, which its handler holds
even after the object left the collection. `logs` is the collection, `id` and
`ws` fields of the objects, `number` the project's entry in `logIndexMap`,
`unclosed` the list on the project record, `dirty` and `disk` what autosave has
not written yet and the two files, `boot` the progress of the START listeners.

* `InsertReqLog` numbers and inserts before the action runs; `Respond`,
  `SocketOpens` and `SocketCloses` go through `UpdateLogIfPresent`, which does
  nothing for a log that is gone.
* `Trim` is `pruneProjectLogs` with `pruneLogCollection`: the overflow counts
  all logs, the removal skips open websockets.
* `ForgetSocket` does not mark the project database dirty, because the code
  filters the list without updating the record. `ResetOne` sets a status in
  memory only, for the same reason.
* `BootTrim` and `ResetBegins`/`ResetOne` run side by side in `booting`;
  `BootDone` is `index.ts` waiting for both.
* `ListenersPath` says whether the configured database path is the literal `db`
  that `eventListener.ts` uses. `TornCrash` says whether a process may end with
  unsaved changes; FALSE stands for a shutdown after both saves.
* `SocketOpens` is possible after the project was stopped: a handshake that is
  under way is not tied to the status. This allows more than most builds do.
* `SocketMessage` is a relayed message: it is appended to the log, which the
  model sees as a write to a log that may be gone.
* `boot.clean` is a history variable: no process ended with unsaved changes, and
  no trim at boot changed the unclosed list.

`DesktopRequestLog` has the copies of the desktop build. Its listeners read the
configured directory; its proxy never emits CLOSED, so an id stays on the
unclosed list until its log is trimmed (`DesktopSocketCloses`).

### MatchOrder, ImportParsers, ExpectationStore, DesktopExpectationStore

`MatchOrder` has the pure part: `BuildMatchOrderBlocks`, the order of blocks and
members with the stable sort's tie-break (documents of equal rank stay in
insertion order, groups are pushed before single expectations), the active
expectations, and the first one that accepts. A collection is a function from
document numbers, which Loki gives out in insertion order. What the matchers
accept is a set the property quantifies over.

`ImportParsers` has what a file becomes: the detection of its kind (a marker in
two kinds is decided by order), the keys of OpenAPI operations with the prefix
of the first server, the response that is picked, the sample that is made of a
schema (references, `allOf`, `oneOf`, objects, arrays, the limits against
recursion), Postman items with disabled ones, folders, variables resolved in
order, and saved responses. A path is a sequence of segments, a JSON value an
object, an array or a scalar.

`ExpectationStore` has the handlers that edit both collections. An update
changes one field at a time, since the handlers assign what the client sends; a
combined update is a sequence of such steps for every property here.
`UpdateExpectation`, `EditMatcher` and `EditAction` are the routes that edit one
document. `Import` is one action because the file is parsed before the
collection is read. What a file brings in is a member of the constant `File`, any
set of sequences of keys and contents; the run takes what `ImportParsers` makes of
`Document`, so that the proofs hold of every parser.
`Refused`, `AfterRefusal` and `ImportFails` model that Loki's `update` throws for
a document that was never inserted. The desktop handlers are a second copy of
the code and coincide, each in an operator of its own.

### MockRequest, DesktopMockRequest

The requests that one expectation accepts. `current` is the expectation's
action, `kind` and `sound` the fields of every action object ever stored,
`held` the object a request refers to, `impl` the implementation chosen when it
arrived, `timer` and `upstream` the proxy's timer and exchange, `res`, `gone`,
`sent` and `logged` the response object, the client, and the two answers.

* An update of the same type assigns to the shared object (`UpdateAction`); a
  type switch stores a new one (`SwitchType`). A waiting request keeps the old.
* `sound` says whether a response can be produced from the action's fields (a
  template or a header may be unusable); `CustomThrows` is the unhandled rejection
  that follows. A proxy adds its headers only after the upstream answered and the
  timer was cancelled; if Node refuses one, the exception ends the reading of that
  answer and leaves the client without one (`HeadersRefused`, `refused`).
* `Finish` is the `finish` closure of `ProxyAction`, with its `settled` flag. It is
  the callback of `proxy.web` as well, which also runs when the upstream resets the
  connection or sends garbage after its headers: then it destroys the response
  (`UpstreamFails`). An upstream that merely closes early tells nobody
  (`UpstreamBreaks`).
* `stuck` marks handlers that nothing will end: an upstream that closes early
  after its headers, a body that cannot be decompressed, a file whose client
  left during the delay. They are in the code; the client has its headers or is
  gone, but the log never gets a response.
* A zero delay is also `delayed`: this allows an edit between arrival and
  reading that a zero delay would not.
* What `http-proxy` and Node do (no callback when the client has left, giving up an
  upstream whose client left before it answered, or not, status 200 for a response
  nobody wrote to) follows their use in `ProxyAction.ts`.

The desktop build has its own copies of the server, of the actions and of the
handlers that edit them. They differ from the back end's in when a response text
is computed and in whether an action may refuse websockets, which this module
does not see; `DesktopMockRequest` names them one by one.

### LoginThrottle, Auth

`LoginThrottle` is the class of that name, time in minutes. `Auth` extends it
with the documents of `authStore.ts`: `db` is the memory of the process, `disk`
the file. `Save` writes all three collections at once, because they share
`project.db`. `Restart` loses what was not saved and the throttle's entries;
`ResetAdmin` is the script that runs while the process is down.

* `PowerOfTwo` is the `2 **` of `lockMinutes`, as a recursive function.
* The comment of the class (`loginThrottle.ts:11`) calls the first five failures
  free; the code locks at the fifth, and `authThrottle.test.ts:33-38` expects
  that. The model follows the code.
* A password is the number of changes so far (`generation`). `used`, `opened`
  and `firstFailure` are history variables: the code does not store them, the
  properties need them.
* A request that finds its session and is then refused for another reason
  (wrong current password, bad input) is a `UseSession`: the session was
  renewed before.
* Random keys are drawn once (`issued`). Names of tokens, times that are only
  displayed, cookies, the trusted proxies that determine an address, and the
  check of the origin are left out.

### LogView, LogFilter, LogQuery, DesktopLogView

The filters of one log view. `filters` is the record in `logView.db`, `pipeline`
the filter pipeline of the dynamic view in `log.db`, `loaded` says that `log.db`
is there, `attached` that the view went through the `once` of
`getLogDynamicView`, `disk` is the content of the two files.

* `Write` is the common course of the four handlers: change the record, await
  `getLogDynamicView`, bring the pipeline in line. While `log.db` is being
  loaded the handler joins `waiting`; `GoOn` ends the handlers in the order of
  their requests, before anything else happens, since they wait for the same
  promise (`Settled`).
* `Reconciled` is the `once`: missing active filters are applied, entries of
  others removed, and an entry that is there is not looked at. `Synced` is
  `syncDynamicViewFilter` and `removeDynamicViewFilter`.
* `Open` is the log page that asks for logs, or the start of the project.
* `Loki` saves the pipeline with the collection and restores it; the model takes
  this from `logUtils.ts:306-308`, whose comment speaks of ids that are stale
  after a reload, and from the reconciliation itself.
* `torn` is a history variable: the filters whose two saved copies disagreed when
  the process started and which nobody has edited since.
* What a filter matches (`criterion`) is only compared for equality.

`LogFilter` is what a criterion matches: conditions over texts and numbers, with
the coercions of Loki's operators, status families, missing responses.
`LogQuery` has the two query routes, by filters and by parameters, with their
refusals, limits and pages; the tools of the MCP server are their clients. `Asked` is
what a query makes of a filter: the name trimmed, and dates of the two time properties
turned into numbers (`normalizeFilterValue`), neither of which the pipeline does. How
texts read (digits, dates, blanks, case) is given by constants. Values that are arrays
under other conditions than IN and FAMILY are left out, and so are the names `$and` and
`$or` in the pipeline, integers beyond 2^53 and `-0`.
`DesktopLogView` adds the IPC handlers, which are the same step by step, and the
property that relates queries to the list.

### LogPage, DesktopLogPage

The page against its server. `log`, `listed`, `number` and `filters` are the
server's, `channel` holds the events under way, `joined` says that the socket is
in the room of the view, `pending` holds the requests with their answers once
they have one; everything else is state of the page, under the names it has
there. `trusted` and `chipsTrusted` are history variables: nothing has happened
since the last first page that the page has no answer to.

* `Deliver` merges an event: `binarySearch` finds its place by id, an id above
  all others reads `arr[-1]` (`Breaks`, `GoBlank`).
* `FirstArrives` and `MoreArrives` merge pages. The web page takes any answer,
  whatever project is shown by then; the desktop page drops late ones and must
  reset its flags (`DesktopMoreArrives`).
* What a filter matches is arbitrary: a changed filter changes `listed` in any
  way. A resumed page fetches again.
* `Newest` is the list that is sorted, not a way to sort, `Merged` a function of the
  part of the page that was appended, and the range `BinarySearch` looks at is a pair:
  the proofs are about these forms. `MaxId` is positive because a project that
  stands still has a log.

### ExpectationPage, DesktopExpectationPage

The page against its handlers. `stored` and `groups` are the server's, `list`
and `selected` the page's, `cached`, `loaded` and `fetched` react-query's cache,
`open`, `target` and `saving` the dialogs. A handler that awaits two answers is
two actions; what it read before its await travels in the request (`index`,
`next`, `members`). A query that is fetched again cancels the one before, and the
handlers that wait for it go on (`waits`). `Ordered` lists a finite set of numbers;
the order of the list and the rows that remain after a deletion are made of it.
`trusted`, `aim`, `made` and `lost` are history variables: `made` counts what the server
stored for a dialog since it was opened (`Count`), `lost` the creates among them whose
answer was lost (`Fails`).

### ProjectBar, DesktopBar

The bar over `DesktopLifecycle`, with which it shares its requests: a call of
the bar takes a slot, is sent, handled by the actions of the lifecycle, and
answered. `Refresh` is `refreshProjects`; whatever list arrives last is shown.
`erased` is a history variable: the projects whose deletion was answered and that
no later answer brought back.
`NotDone` has the start of the desktop build, which is answered as a success
while `listen` fails. The network loses calls on the web only.

### Matchers, MockFromLog

`Matchers` are the conditions and the method, path, query and parameter matchers
over documents, which are functions from key paths to leaves. `Get` is how lodash
finds a field by name: the whole name as an outermost key first (`Path`), else one
key per segment, where brackets cut too (`Cut`); the path may end in a leaf, a
container, a character of a string or a length (`Builtin`). `Flat` is how the dialog
names a leaf. `MockFromLog` is the dialog: a draft made
from a log, edits of its rows and its answer, reset, saves that end while the
dialog is closed or another is open, and the expectation that is stored.

### Modules for TLC and proofs

`MC*.tla` give the constants their small values. `*Proofs.tla` extend the modules
they are about: `ProjectBarProofs` has the lifecycle and the bar that shares its
requests, `MockProofs` the mock request and the dialog that makes a mock from a log.
A definition marked *Variant* is a faulty form of the one after
it and takes no part in any specification: put in its place, it makes the named
property fail, which shows that the property can fail. `PROJECT.json` pairs each
property with such a variant.

## Runs

Every run but `delete_running` and `auth` covers both builds: either `host` is
chosen in `Init`, or the steps of both are in the next-state relation. Only the
back end has accounts.

| Run | States | What it shows |
| --- | --- | --- |
| `lifecycle` | 122 914 | Safety, refinement of `ListenerControl` and liveness of the lifecycle handlers |
| `delete_running` | violation | A start during a delete |
| `request_log` | 1 147 259 | Ids, trimming, removal, the unclosed list and the reset, with a torn crash |
| `expectation_store` | 50 295 | Match order and import on every small store, and samples of schemas |
| `mock_request` | 148 197 | Answers, timer, upstream and edits |
| `auth` | 789 212 | Account, sessions, tokens, throttle |
| `log_view` | 399 675 | Record and pipeline of a view's filters, and queries |
| `log_page` | 430 231 | The log page against pages and events |
| `expectation_page` | 216 776 | The expectation page against its handlers |
| `project_bar` | 1 102 281 | The project bar over the lifecycle handlers |
| `mock_from_log` | 600 440 | Drafts made from logs, and what they accept and answer |
| `matcher_presence` | violation | SHOWED refuses a field that is there |

The bounds, and why they are enough:

* **lifecycle**: three projects, three ports, two requests in flight. Conflicts
  over a project need two requests, conflicts over a port two projects; the
  third project has an id and the third port a number that is refused, so that
  the failure paths run beside the good ones. No counter needs a bound: project
  ids are created once.
* **request_log**: three requests against `MaxLogs = 1`, so that the overflow can
  be one or two and one websocket alone can fill the log; one restart, possibly
  torn. Ids repeat, if at all, after the newest logs are gone and the process
  restarts, for which this is long enough. The requests are symmetric.
* **expectation_store**: four documents in all, groups and expectations together:
  two groups with a member each, a group of three, a group against three single
  expectations. Three ranks give every outcome of a comparison, ties included.
  Five files: OpenAPI with one operation; with two paths that differ only in the
  name of a parameter; Swagger 2 with such a pair after another key; a Postman
  collection; one that cannot be converted. Two keys and two contents are told
  apart in stores of at most two documents (`LargeIsAlike`), which is where a
  refused import and twins arise; the order of answers, for which four documents
  are needed, looks at neither. A file is imported only if it fits. Besides,
  `SamplesAreShallow` evaluates the sample of every system of three schemas that
  refer to each other and to themselves.
* **mock_request**: two requests and two action objects: one request can hold the
  old object while the other gets the new one.
* **auth**: time up to 4 with a session of 3 and a throttle of 2 covers a renewal
  in time, one refused by the throttle and an expiry; two session keys for the
  caller and another one, one token; two generations, two names and one
  restart; one free failure and a cap of 2, so that the lock grows and meets its
  cap; one address, because the entries of addresses do not touch each other.
  `Save` is disabled after the last restart, when nobody would read it.
* **log_view**: two waiting handlers on two filters, so that an edit can
  overtake, undo or be overtaken by another before any reached the pipeline; three
  criteria, so that an edit can be missed, one of them a date, which queries and
  pipeline read differently; a preset beside composed filters, with
  two ids, so that a client can send one the view does not know; one restart,
  which reads the two files saved at any two moments. Ids are symmetric. Four
  logs and pages of two: answered, refused and unanswered ones, and a page that
  is not the whole answer. `ConditionsAgree`, `PagesAreComplete`,
  `ParametersNarrow` and `FiltersAreRead` evaluate conditions, pages, parameters and
  filters on them, among these blanks, lower case, dates, refused names, values,
  statuses and times, and one filter too many. No view of the run has too many filters
  or a name with blanks: `FewFilters` and `PlainNames` matter to the theorem.
* **log_page**: one project whose log changes and one that stands still, two logs
  of two versions, pages of one row, two requests and two events in flight: a
  page and an event can pass each other, a row can be in both, vanish between
  two pages, or be updated before it was seen. Each page lives through one of
  five scenarios (`Budgets`) that bound how often each kind of step happens.
* **expectation_page**: three expectations in two projects, one of them in a group
  or not, up to two created; four requests in flight. Eleven scenarios pair the
  operations whose handlers overlap: create and delete, delete and select and
  switch, two creates, two creates of which one may lose its answer after it was stored,
  group and delete, three changes of an action, and so on, with one failure where the
  code handles one.
* **project_bar**: two stored projects and one to create, a port that is refused,
  two slots for requests, four clicks and one lost call: two operations with
  their refreshes overlap, and a third one follows.
* **mock_from_log**: seven logs: no fields, a query, a nested body with null and a
  number, dots and brackets in outer and in inner names, an empty outermost name, an
  array and a string in its place; with JSON, HTML and no response. Four edits, among them a reset and two saves.

The interesting properties:

* `StatusMatchesServer`, `BoundPortIsRecorded`, `NobodyStuckHalfway`: two maps,
  the records and the operating system agree although each is changed in
  different turns of different handlers.
* `ControlSpec`: every behaviour of the handlers, liveness included, is one of
  `ListenerControl`.
* `UniqueIds`: by these ids views are paged and websocket logs found.
  `NewestNumber` counts from the largest surviving id; counting from the size
  would repeat ids.
* `OpenSocketsKeepTheirLog`, `TrimIsExact`, `RemovedLogsStayRemoved`: the
  comments of `logUtils.ts` on what trimming may do.
* `OpenIsListed`, `NoGhostOpen`: the unclosed list and the logs agree across
  closings of other websockets and restarts.
* `BestAnswers`: the result of blocks and sorts is the best active expectation,
  defined without either. `ListShowsEngineOrder`: sorting all and sorting the
  active ones agree. `SilencingIsLocal`: taking expectations away never swaps
  two that remain. `ImportMakesNoTwins`.
* `AnsweredOnce`, `StreamsAreNotCut`, `UpstreamReleased`, `LogTellsTheAnswer`,
  `ImplFitsAction`, `AcceptedIsAnswered`.
* `ActiveFiltersNarrow`, `EditsReachTheList`: two copies of the filters, written at
  different moments and saved apart, end up alike; `OnePresetEach`: a client
  that does not know the stored id does not add a second one;
  `QueriesShowTheList`: the routes that translate the filters anew agree with the
  pipeline, in both builds. What they read differently is named (`NoDates`,
  `PlainNames`, `FewFilters`).
* `CredentialsFitAccount`, `ActiveSessionsLast`, `IdleSessionsEnd`,
  `BackoffHolds`: the promises the README and the comments make about logins.
* `QuietPageIsExact`, `QuietChipsAreStored`, `QuietListIsStored`,
  `QuietBarIsExact`: whatever overlapped before, a page at rest shows what the
  server has. Each names the disturbances the page has no answer to, and no
  others.
* `SelectionFollows`, `DeletedNotSelected`, `CreatedOnce`: what the last operation
  means to select, what must not be selected, and what must not be stored twice: one
  opening of a dialog stores one expectation, and one more for each lost answer.
* `BusyEnds`, `SavingEnds`: no path through answers, drops, cancellations and
  failures leaves a control disabled.
* `OnlyCheckedFieldsAreMatched`, `ReplaysTheAnswer`: flattening and resolving
  names undo each other where names are unambiguous, and what is stored is what was captured.

`CHECK_DEADLOCK` is off in all runs but `log_view`: projects need not be edited and
finite supplies of requests, documents, keys and clicks run out, where the model,
not the system, stops.

## Fairness

Only what the process or the transport itself guarantees is assumed.

* `DesktopLifecycle!FairHostSpec`: loading a database, listening and deleting a
  file end, well or badly, as the runtime promises. `close` may never report, and
  no fairness is assumed of it: what is fair is `CloseEnds`, because the
  three-second timer of `stopServer` calls the same function.
* `DesktopMockRequest!BothSpec`: delays end and the proxy's timer fires, as
  `setTimeout` promises. Upstreams may stay silent at any point, clients may
  stay for ever, a file may never be sent. `AcceptedIsAnswered` rests on the
  timer alone. It excuses a client that left and a response that cannot be
  produced, a custom one or one to which the proxy adds an unusable header.
* `DesktopLogPage!FairSpec` and `DesktopExpectationPage!FairSpec`: a request is
  handled and answered, or it fails. That is what `fetch` and `ipcRenderer.invoke`
  promise. Nothing is assumed of events or of the user.

The other modules state safety only. No dashboard user and no upstream is ever
assumed to do anything.

## Proofs

TLAPS checks these for every value of the constants that satisfies the named
assumptions, so for any number of projects, ports, requests, logs, keys and
restarts. The theorems about the lifecycle and the request log are stated of
`HostSpec`, which has the handlers of either build; those about the mock request and
the log view are carried over to the desktop build by `DesktopImplements`; all others
speak of specifications which have the steps of both. Only back ends have accounts.

The library's induction theorems take an operator as a parameter, which the
provers cannot instantiate. Where a definition recurs over the natural numbers,
the induction is about a set instead: `NaturalInduction` (a set with 0 and with the
successor of each natural number in it holds all of `Nat`) follows from the
well-foundedness of `<`. A recursive function is first shown to exist
(`PrefixesExist`, `NatRecursion`, `FindExists`, `AddsExist`, `JoinedExists`), without
which its definition says nothing.

**`ProjectBarProofs`, first part: the lifecycle** (assumes `IdAssumption`,
`PortAssumption`; both builds).
`TypeCorrect`, `StatusIsTruthful`, `BoundPortIsTheRecordedOne`,
`SwitchesAreExclusive`, `NoHalfwayStateIsAbandoned`, `ImplementsListenerControl`.
The four invariants hold only together and with `InFlight`, which ties every
suspended handler to the status it left: without it `ListenSucceeds` could
announce a project another handler has meanwhile moved. Two switches
never overlap because a suspended start or stop keeps its project in STARTING or
CLOSING, where neither is accepted.
The refinement theorem maps each action to a step of `ListenerControl` or a
stutter; it uses the invariant in the previous state.

**`RequestLogProofs`** (assumes `MaxLogsAssumption`, `FlagsAssumption`; both
builds).
`IdsAreUnique`, `NoResurrection`, `ArrivalsSortFirst`, `OpenLogsSurviveTrimming`,
`OpenSocketsAreListed`, `NoGhosts`, `TrimsToTheLimit`.
`UniqueIds` is not inductive: the proof adds `NumberCovers` (the number in memory
is at least every stored id, and a started project has one), `IdsBounded` (a
largest id exists, on which the `CHOOSE` of `NewestNumber` rests), and that a
stored log's request has arrived, in the collection and in the file alike, which
carries the invariant over a torn crash. `OpenSaysOpen` and `BootIsQuiet` give
the property about open websockets.
The unclosed list has an invariant of its own, `ListInv`. `OpenIsListed` needs that
no two handlers at work share an id (`ActiveIds`), or closing one websocket would
take another off the list. `NoGhostOpen` needs the history of a log that says
OPEN: its id was on the list that was saved (`SavedList`, `SavedLogs`, which hold
although neither closing nor resetting marks a database), and during the reset it
stands at or after the position of the loop (`ResetFollows`). `TrimsToTheLimit`
counts what `Trim` may remove.

**`MockProofs`, first part: the mock request** (assumes `ActionAssumption`).
`TypeCorrect`, `WaitingRequestsFindTheirType`, `TimerNeverCutsStreams`, `SettledFreesUpstream`,
`LogIsTruthful`, `OneAnswer`. The invariant says, for every place a handler can
be suspended at, what its timer, upstream and response look like: a request
that waits for headers has sent nothing, an exchange that is asked or answering
belongs to a handler at that very place, the timer runs only there, a failure of
the upstream that nobody heard of is one whose client has left (`Unheard`), and the
current action is a stored object. So `finish` meets a response that has begun only
when the upstream failed, never when the timer fires.

**`MockProofs`, second part: the dialog** (assumes `LogAssumption`; both builds).
`MatchesTheCheckedFields`, `ReplayIsExact`. Half of this is about names: a row is
named by joining its keys (`FlatIs`), and in a document whose nested fields have
names without dots in a key, brackets or an empty beginning (`Plain`) lodash finds
under that name the leaf it was made of (`GetNamed`). Under a name the log does not
list it finds no leaf, unless the name leads into a string (`GetUnnamed`, `Clear`), so that a matcher made of a checked row accepts what
says the same there (`SlotMatches`). The other half, `DialogInv`, follows the draft: what the
open dialog, a save under way and a stored expectation hold was made of one log and
its edited rows, and an answer that nobody edited is still the captured one, whatever
dialog is closed, reset or opened while a save is under way.

**`AuthProofs`** (assumes `ThrottleAssumption`, `AuthAssumption`).
`OldCredentialsAreGone`, `UnusedSessionsExpire`, `UsedSessionsStay`,
`FailuresAreSlowedDown`, `AuthTypeCorrect`. The invariant `Sound` is stated of a database and holds of `db` and of `disk`, so
that a restart, which copies one to the other, preserves it whatever was lost.
`Timed` is what makes the throttle harmless: the last use of a session is less
than one throttle after its last renewal, from which both bounds follow.
`BackoffHolds` is inductive with the types. Its proof is in the numbers: the power
that `LockMinutes` computes, capped, is the lock that `DocumentedLock` doubles and
caps at every step (`LocksAreDocumented`); and a failure is accepted only after
`lockedUntil`, to which the locks so far add up.

**`LogViewProofs`** (assumes `FilterAssumption`, `BoundAssumption`; the queries
`QueryAssumption`).
`ActiveOnesNarrow`, `LastEditNarrows`, `PresetsAreSingle`,
`QueriesAgreeWithTheView`. The properties speak of
moments at which nobody waits; between them they do not hold. The invariant says
what does: a filter that no handler waits for is in step (`InStep`), and of the
handlers that are about one filter the last carries what the record says
(`LastWordsRecorded`), so that the queue, once empty, leaves every filter in
step. `OnePreset` is stated of the record and of its file. A query translates the
filters anew; `QueriesAgreeWithTheView` says that its page is the page of what the
pipeline lets through, and that stating presets as parameters gives the same. A filter
is asked as it is shown if its name is plain and it holds no date (`AskedAsShown`), and
a parameter is read as it is stated (`StatedIsRead`).

**`ProjectBarProofs`, second part: the bar** (assumes `BarAssumption` and the
assumptions of the lifecycle; both builds). `BarInvariant`, `BarTypeCorrect`, `QuietBarsAreExact`,
`DeletedProjectsAreNotSelected`. The bar shares its requests with the lifecycle
handlers, so its invariant contains theirs: a suspended handler works for the call
in its slot and for no other (`OwnCall`). `ListsAreFresh` says that an answered list
is the stored one unless a change has marked it as overtaken, and `RefreshOwed`
that a page which does not show what is stored has a call under way that will make
it fetch, which is what leaves a quiet page exact. `ErasedIsGone` needs that a
delete remembers rows without its own project (`SlotsAsk`).

**`ExpectationStoreProofs`** (assumes `RankAssumption`, `BoundAssumption`,
`FileAssumption`; both builds). `StoreTypeCorrect`, `BestExpectationAnswers`,
`OneOrderForAll`, `ImportsMakeNoTwins`, `SilencingStaysLocal`. Three steps lead to
the match order. A finite set with a strict total order is sorted by counting
what comes before each element (`Places`, `SortedLists`); the sorted members of the
sorted blocks, joined, hold every expectation once (`ConcatenatedJoins`); and the
comparison of blocks is the lexicographic order of four numbers, priority, time,
group or single, document number (`BlockBeforeIsLex`). The result is
`MatchOrderIs`: of two expectations `MatchOrder` lists first the one that `Ahead` puts
first, and `Ahead` looks at no third one (`AheadAmongActive`). From that follow that
the list and the engine agree, that silencing is local, and that the first that
accepts is not beaten. For imports the proof follows the items of a file: each new
one has a number of its own, and a key gets one only if no document and no
earlier item had it (`ImportBringsOneEach`).

**`ExpectationPageProofs`** (assumes
`ExpectationPageAssumption`, `BudgetAssumption`; both builds).
`ExpectationPageTypeCorrect`, `CreatedOnceHolds`, `SelectionFollowsHolds`,
`QuietListIsStoredHolds`. The types are not inductive alone. `Base` adds what holds of the requests together
(`RequestsOk`): each has a number of its own, the groups of a project are fetched
by one request that all handlers wait for, a list is fetched once at a time until
it was there once, a list that nothing disturbs is the stored one; and of the documents
(`DocumentsOk`): no id twice, no text that was not written. A step of either build
is a step of the page, a step of the server or the end of a request (`NextIs`,
`IpcServes`), and the three theorems that follow look at nothing else.
`CreatedOnce` needs `BusyOk`: the dialog of a command under way is saving, and no two
commands hold one dialog, so that an answer finds the dialog it was sent from, or
another one; and `CreateOk`: while a create is under way, its dialog has stored what
its lost answers excuse, and one more only if this create is handled already. `SelectionFollows` holds at rest; while requests are under
way `Aims` holds: either somebody waits for the groups and will fetch the list, or
every list under way that moves the selection moves it to the row aimed at, or the
row is selected already. Whoever fetches again takes over what the request it
cancels was meant to do, which is what `ListRefetchedIs` and `GroupsRefetchedIs` say.
`QuietListIsStored` holds at rest as well; `QuietOk` is what holds of a trusted list
at any time. Commands under way are about the project shown, what they add is not
there yet, the action dialog is not about an action still to be added, and a group
that is being deleted is known by its members (`PageOk`). A row and its document
have the same group, and each other field is equal, or a command accounts for it
(`RowOk`): an edit that was carried out for the text, a switch that was thrown before
its request was sent for `active`, an addition, a change or a removal carried out
for the action. Rows that are stored no more are those of a delete whose answer is on
its way (`RowsOk`). A create that was carried out suspends all this until its answer
arrives, and with it the list (`StoreOk`). `Throws`, `Taken`, `Takes` and `Drops` name
the four ways a command touches the page: it is sent, the server takes it, its answer
is shown, it is refused or fails. With no command left only equality remains
(`QuietRow`).

**`LogPageProofs`** (assumes `LogPageAssumption`, `BudgetAssumption`; both builds).
`SearchFinds`, `TypeCorrect`, `QuietListIsExact`, `QuietBarShowsTheStored`,
`OnlyDisturbedPagesThrow`. The first part is about lists. Sorting a finite set of
rows gives what its definition promises (`NewestSorts`), and a descending list of some
rows of a set, the others below its end, begins that order (`PrefixOfNewest`); inserting,
replacing, deleting and appending a page keep a list descending and change the rows
they are meant to (`InsertIs`, `UpdateIs`, `DeleteIs`, `MergedIs`). `UpdateIs` rests on
`SearchFinds`: the binary search is followed down its ranges by induction on their
length.

The property speaks of moments without events; the invariant says what holds while some
are on their way. `Follows` relates a list, the events and what the view lists by
now, for each log alone: if no event is about it, the list is right about it, or it is
below the end of a list with more to load (`QuietTells`); the last event about it tells
what has become of it (`LastTells`); the first one fits the list, no insert of what is
there and no update of what is neither there nor below the end (`FirstFits`); and an insert comes exactly
where a delete came before (`NextFits`). The server keeps this when it reports a change
(`ReportsFollow`, of which `ChangeReports` and `RemovalReports` are the two cases), the
page keeps it when it takes the first event (`TailFollows`), and a page of the view
restores or extends it when no event about the view is on its way (`FirstFollows`,
`MoreFollows`). That an answer finds this so is the invariant of the requests,
`PagesOk`: a clean page is the only one under way, nothing about its project is in the
channel, its answer is what the view lists now, and a further page starts at the last
row of the list. A step leaves a clean page as good as it was (`Calm`) or spoils it.
`ListOk` says `Follows` of a trusted list; with an empty channel only `QuietTells`
remains, which `QuietList` turns into the property.

`FirstFits` gives `OnlyDisturbedPagesThrow` as well: an update the page hears finds its
row, or one below the end, and `SearchFinds` says that the search leaves the list for
neither. It needs `RefOk`, that a trusted list is one of the view whose events are
taken. The filter bar has `ViewsOk`, that no save is under way beside a clean answer
with filters, and `ChipsOk`: at most one save is under way, the bar waits for it, and the
stored filters are those of the bar, or those it will have once the answer is
there. The types need that ids tell the logs of a project apart (`LogOk`) and that a
first page is asked for only of a view that is known (`KnownOk`), without which
`fetched` could outgrow `known`.

Only model-checked:

* liveness (`RequestsAnswered`, `AcceptedIsAnswered`, `BusyEnds`, `SavingEnds`, the
  fairness part of `ControlSpec`): fairness and ENABLED are beyond the prover;
* what the parsers make of a file, `SamplesAreShallow` included: `Sample` and
  `Leaves` of `ImportParsers` are RECURSIVE operators, which the prover cannot
  reach. That is why the store takes the result as a constant;
* `ConditionsAgree`, `PagesAreComplete`, `ParametersNarrow`, `FiltersAreRead`, which TLC
  evaluates on samples.

Four properties changed because their proofs failed:

* `DeletedNotSelected` once said that a project whose deletion was answered is not
  selected until a list that still holds it arrives. That is false when an
  empty list, asked for before the first create, arrives while a delete is in
  flight: the bar is mounted anew and forgets that it is busy, so a second delete
  starts from rows that hold the first project. When both are answered the first
  project is back and selected. It takes three slots and five clicks, more than
  the run has. `DeleteAnswered` now takes out of `erased` what it brings back; see
  [defects found](#defects-found).
* `SelectionFollows` let the list of a project that was left, when it arrived late,
  pass for the selection the user asked for. When the project has been shown
  again and something was created in it since, that list overrides the newer
  selection. `ListArrives` now takes such an aim back.
* `QuietListIsStored` missed two new actions under way to one row. The server gets
  the second one first, the answer to the first one shows it, the user deletes it,
  and the late answer to the second one shows an action that is stored no more.
  It takes three steps on the actions of one row, which no scenario had;
  `ActionAnswered` now lets go of `trusted` there (`Alone`), and a scenario has them.
* `SilencingIsLocal` had its implication bound to one item of a conjunction list
  instead of the whole list. It now reads as it was meant.

## Findings

Two, each a run that TLC ends with a counterexample.

* **A deleted project keeps running** (`delete_running`,
  `projectController.ts:161`). Delete is accepted, start is accepted while the
  files are deleted, delete removes the record: the server listens, no list shows
  it, and neither an update nor another delete can reach it. `POST /stop/:id`, which
  does not look at the record (`projectController.ts:253-267`), still ends it once it
  is STARTED, for whoever remembers the id. The test suite says that a project that is not
  STOPPED must not be deleted.
* **Presence conditions are the wrong way round** (`matcher_presence`,
  `matchUtils.ts:34`). SHOWED never accepts a field that is present, NOT_SHOWED
  does; for arrays both compare with the value. `mcp/README.md:254` says that they
  are presence checks and ignore the value.

## Defects found

What the models show besides. No document promises the opposite in words that a
run could quote, or the behaviour is excused in a property by name; each is in
the model, so that the properties hold of the code as it is.

Server:

* **A refused import leaves changes** (`expectationController.ts:122`,
  `ExpectationStore!AfterRefusal`). A second item for a new key makes
  `collection.update` throw for a document that was never inserted: earlier items
  stay overwritten, new ones are missing, no counts are reported. Such files are
  common: paths that differ only in the name of a parameter, or Postman requests
  that differ only in their query, have one key.
* **Websocket logs stay OPEN with another database directory**
  (`eventListener.ts:14`). The listeners of the back end use the literal `db`
  although the path is configurable.
* **The reset at boot skips logs** (`eventListener.ts:19`). The trim, which runs
  beside it, replaces the list by a shorter one between two positions of the loop.
* **A restart narrows the list by a criterion that nobody sees**
  (`logUtils.ts:361`, `LogView!torn`). The reconciliation compares ids only. A
  filter that was edited between the saves of `logView.db` and `log.db` keeps the
  old criterion on one side until it is edited again.
* **A date in a saved filter narrows by its text** (`logUtils.ts:238`,
  `LogQuery!NoDates`). Queries turn an ISO date on `req.requestTime` or
  `res.responseTime` into a number (`logController.ts:266-286`), the pipeline does not:
  GREATER shows nothing, LESS everything. `mcp/src/logFilters.ts:33-38` promises dates for
  the filters of queries and, by `simpleFilterInputSchema`, for saved ones. The pipeline
  also takes names that queries trim or refuse (`PlainNames`), and more than 50 filters.
* **The desktop build never takes an id off the unclosed list**, because its proxy
  never emits CLOSED; and it proxies websockets even when the action has
  `supportWebsocket` off.
* **A proxied client waits for ever when the action adds a header Node refuses**
  (`ProxyAction.ts:54-76`, `MockRequest!HeadersRefused`). The timer is cancelled
  before the headers are applied, and the exception comes before the answer is
  piped. A custom response with such a header, or with a template that throws, is
  never answered either (`CustomThrows`).
* **Postman schemes are checked before variables are resolved**: a `{{base}}` that
  stands for a `ws://` address is imported as a request.

Log page:

* **The page goes blank** (`component/common.ts:48`, `LogPage!Breaks`). The binary
  search of an id above all others reads `arr[-1]`; an update of a log whose
  arrival the page missed throws while React renders.
* The web page merges a late page of the project that was left before into the
  list (`LogPage!MoreArrives`), so that the detail pane may show a log of another
  project; the desktop page deselects by id alone, so that the deletion of a log in
  another view closes the pane (`DesktopLogPage!OnViewLog`).

Expectation page:

* **A create pressed again stores a twin** (`ExpectationPage.tsx:385`). When the answer
  to a create is lost after the server stored it, the dialog stays open, and Create
  draws a fresh id. `CreatedOnce` allows one expectation more for each lost answer.
* The answer of a cancelled or older list arrives late and overrides the selection
  the user made since; that of a project that was left and shown again overrides
  what was created in it since (`ExpectationPage!ListArrives`).
* A draft is saved to whichever expectation is selected when Save is pressed.
* The deletion of a group interrupts the pending selection of a create.
* Changes of an action are applied at the place the row had before the await. Two
  new actions of one row whose answers overlap, and a deletion between them, leave
  an action on the page that is not stored (`ExpectationPage!Alone`).

Project bar:

* A start that fails leaves STARTING, which locks start, port and delete until the
  process restarts; on the web no refresh shows it, on the desktop the failure is
  reported as a success.
* The settings dialog accepts ports above 65535, which the project form refuses:
  `listen` throws and the project is stuck in STARTING.
* A list that was overtaken stays shown, and a late one brings a deleted project
  back.
* The rows a delete remembers outlive the page they came from. When a late empty
  list mounts the bar anew, its delete button is free again; of two deletes that
  then overlap, the later answer shows the project of the other one again and may
  select it (`ProjectBar!DeleteAnswered`).
* The settings dialog keeps its draft when the project below it changes, and saves
  it to the other project.

Mock from a log:

* Names are not what lodash reads. A row for a nested field with a dot or brackets in
  its key (`filter.tags[]`) or with an empty outermost key is looked up along other
  keys, so that the expectation refuses the request it was made from
  (`MockFromLog!Plain` excuses them). A row for an element of an array also reads
  the character of a string: `tag.0` IS `x`, made from `["x", 1]`, accepts `?tag=x`,
  whose own log has no `tag.0` (`MockFromLog!Clear` excuses it).
* An expectation whose MATCH_GLOB or NO_MATCH_GLOB has an empty value stops the
  matching: micromatch throws, nobody handles the rejection, the request gets no answer
  and no later expectation is tried (`Matchers!StringMatch` is FALSE there).
* JSON strings, null and HTML are replayed as `{}`, HTML with its own content type
  although the dialog says that it always returns JSON.
* A save that ends closes a dialog that was opened meanwhile; Save pressed again
  after a lost answer makes twins; status 0 can be saved.

## Not modelled

* **Settings and sign-in pages**: forms over the routes that `Auth` and
  `ExpectationStore` model; what they keep does not outlive a request.
* **The editors of matchers and actions** inside `ExpectationDetail.tsx`: their
  content enters `ExpectationPage` as one number.
* **Header matchers, and forms with files**; regular expressions and globs are
  given relations.
* **Persistence**: `RequestLog`, `LogView` and `Auth` have the files they need; that
  autosave may write the files of a deleted project again, and that a record and
  its first view are saved apart, is not in any module.
* **The text of websocket messages**, of responses and of logs.
  `websocketManage.ts` and `promiseDatastore.ts` are used by nobody.
* **Requests that no expectation accepts** get no answer at all; `MockRequest`
  begins with the expectation that accepts.
* **Startup**: the reading of the configuration, the mounting of routes and the
  windows of the desktop build.
* **MCP server** but for the log tools, whose parameters and paging are in
  `LogQuery`: the others pass one call on to a route.
* **Scripts** that fill a database for development.

## Plan

Done: everything in the inventory but for the list above. What would come next:

1. **ProjectRecords**: `project.db` and the four databases of a project with their
   own saves, create, delete and restart; to show: what a restart can find.
2. **Composition of `ExpectationStore` and `ExpectationPage`**: the real order in
   place of "newest first", contents in place of one number.
3. **Settings and sign-in pages** over `Auth`.
4. **Proofs**: every invariant and action property of a passing run is proved. Left are
   `ConditionsAgree`, `PagesAreComplete` and `ParametersNarrow` for all inputs.
