# Verification of the SHM platform backend

The repository is the backend of a structural-health-monitoring platform: edge
gateways and DTUs deliver readings, readings are stored and checked against the
alert rules of their channel, users look at them, submit analysis jobs and upload
3D models, administrators manage users and acknowledge alerts. It runs as a
FastAPI process, one Celery worker with four pool processes for all queues, a DTU
listening process, PostgreSQL, Redis (broker, cache, pub/sub) and MinIO.

The modules here are translated from the code under `src/app` and from the gateway in
`src/scripts`; where code and documents disagree the module follows the code, and section 4
lists the disagreement.

## 1. Inventory

| Component | State it keeps | Operations | Talks to | What is hard |
|---|---|---|---|---|
| Analysis jobs (`routers/analysis`, `services/analysis_service`, `tasks/analysis_tasks`) | row `analysis_jobs` (status, result_key), object in MinIO | submit, cancel, run, result | broker, worker, MinIO | commit before dispatch, retry of everything, redelivery (`acks_late`), revoke racing the task, rows loaded before an await |
| Threshold alerts (`tasks/alert_tasks`, `services/alert_service`, `routers/alerts`) | rows of `alerts`, session identity map | reconcile a batch, acknowledge | ingest, Redis pub/sub, notifiers | test-then-insert without constraint, stale objects of a long session, half-done batches repeated |
| Setup and users (`services/setup_service`, `services/user_service`) | rows of `users` | init-admin, create, update, delete, reset password | every authenticated route | counting and committing are not atomic, operators lose their rights while their request runs |
| DTU server (`dtus/server.py`) | open ports, connection buffers, unbounded queue, batch, stop flag | start, accept, receive, batch, stop | `batch_ingest` | chunks and frames, deadline against batch size, graceful stop, a start that fails at one port |
| Data ingest (`services/data_service`) | `readings`, `latest:*` keys, asyncpg pool | batch_ingest, latest, timeseries | Redis, alerts queue | COPY is all or nothing, cache and table are written in different orders, crash between the steps |
| 3D models (`routers/models`, `tasks/model_tasks`) | rows of `3d_models`, two objects | upload, convert, delete | broker, MinIO | unconditional status writes, deletion during conversion |
| WebSocket (`ws/manager`, `ws/endpoints`) | list of sockets per project, listener task | subscribe, disconnect, broadcast | Redis pub/sub | list changed across awaits, one listener for all |
| Edge gateway (`scripts/run_edge_adapter.py`) and its adapters (`plugins/protocols/{mqtt,modbus_tcp,http_json}_adapter`) | bounded queue, listener task | connect, listen, read_batch, push_ingest, disconnect | ingest route | full queue, readings taken and not delivered, one bad message that spoils a batch, a listener that ended unnoticed |
| Topology and permissions (`services/{project,device,sensor,channel}_service`, `dependencies`) | projects, devices, sensors, channels, user_projects | CRUD, assign_user, access checks | all routes | check before insert, deletion with dependants, rights and rows that change between check and commit |
| Platform settings, MinIO client | singleton row, lazily created session | get, update, init, close | PostgreSQL, MinIO | two first requests |
| Framing (`modbus_rtu_tcp.py`) | the rest of a stream | split_rtu_frames, decode | DTU server | resynchronisation after noise, frames cut anywhere, the sign of registers |
| Tokens, dashboard, middleware, registries, simulators, migrations | none, or fixed at start | read-only or wiring | | nothing interleaves |

What makes each correct is stated by the properties of section 4; section 7 says which
components are not modelled and why. `PROJECT.json` lists every
component with its sources and every hazard with the line at which it bites.

Interactions: `batch_ingest` dispatches `check_threshold_batch` (modelled as
`DataIngest!DispatchCheck` and `AlertLifecycle!Submit`). Its callers, the DTU consumer
(`DtuServer!Ingest`, `IngestRaises`) and the gateway (`EdgeGateway!Post`, `PostFails`), rely on
what `IngestContract` promises of the readings whose codes the platform knows: they are stored
together or not at all, and may be stored although the answer is lost; a reading of unknown
codes is skipped alone and the batch answered as if nothing had happened. What a connection's bytes become is `RtuFraming`, what the
server does with it `DtuServer`. The alert task and the ingest publish to the channel the
WebSocket listener reads (`AlertLifecycle!Tell`, `DataIngest!Publish`,
`WsBroadcast!Publish`). All routes authenticate against the users table
(`UserAdmin!Authenticated`, `Topology!Begin`); the routes of projects, devices, sensors and
channels, of readings and of alerts pass the checks of `Topology`, except the list of alerts
without a filter, which checks nothing but the login.

## 2. Modules

| Module | What it is |
|---|---|
| `AnalysisJob` | jobs, cancel handlers, broker, worker slots, object store |
| `JobLifecycle` | abstract: the lifecycle of one job when every service operation is atomic |
| `AlertLifecycle` | alerts of one channel, batches, workers, acknowledgements |
| `UserAdmin` | users table, setup and administration handlers |
| `DtuServer` | ports, connections, queue, consumer, stop |
| `RtuFraming`, `RtuCrc` | frames in a byte stream, and the CRC |
| `EdgeGateway` | the gateway's loop around a polled adapter or the MQTT listener |
| `DataIngest` | concurrent ingest calls over the readings table, the cache, the published readings and the dispatched checks |
| `IngestContract` | abstract: what an ingest promises its callers, subscribers and the alert check |
| `ModelConversion` | 3D models: upload handler, conversion task, deletion, object store |
| `WsBroadcast` | WebSocket endpoints, subscription lists, the listener |
| `Topology` | projects, devices, sensors, channels, permissions, and the requests that use and change them |
| `MC*` | instances for TLC: fault budgets, batches, payloads, streams, trees, symmetry |
| `*Proofs` | theorems and proofs about the module of that name: `AnalysisJob`, `AlertLifecycle`, `UserAdmin`, `ModelConversion`, `WsBroadcast`, `Topology` |
| `DtuProofs` | the same for `RtuFraming` and `DtuServer`, the two ends of a DTU connection |
| `IngestProofs` | the same for `EdgeGateway` and `DataIngest`, the two ends of the ingest route |

Definitions used as mutants stand directly before the definition they vary and say
so in a comment. They are not part of any specification.

Common conventions. A database transaction under READ COMMITTED is a read step and a
commit step whenever the code decides on what it read; what it writes is what
SQLAlchemy would write: the columns whose new value differs from the loaded one, by
primary key. An awaited call may fail where the code could be hurt by it, at most as
often as a budget allows. A terminated or killed process loses its memory only.

### AnalysisJob

`status`, `resultKey` are columns of the row; `objects` is MinIO; `queue`, `control`
and `revoked` are the broker's messages, the broadcast revokes and the worker's
memory of them; each slot has a program counter `pc`, its message and what it read.
The stages follow `_run`: `accepted` (before `mark_running`), `marking`, `analysing`,
`guarded`, `stored` (around the two cooperative guards), `succeeding`, `failing`; then
`ended` or `retried` until the message is acknowledged, which is when a crash makes the
broker deliver a finished job again. `Raise` is `raise self.retry(...)`: a second message
beside the one not yet acknowledged. A cancel request is `CancelLoad` (the route loads
the row), `CancelCommit`, `CancelRevoke`; the status it tests is the loaded one,
because `get_job` returns the identity-mapped object.
Celery's own behaviour (delivery, revoke, lost workers, the visibility timeout) is
external and taken from the options in `celery_app.py`: late acknowledgement, one
message prefetched. Retry delays are abstracted to delivery in any order.

`JobLifecycle` has one action per service operation with the statuses it may find when
each is atomic. It allows a cancellation to overwrite an outcome and a run to overwrite a
cancellation, because the code does both; it forbids that success and failed replace each
other, that a finished job runs again, and that a job becomes pending twice.

### AlertLifecycle

A reading is its timestamp and the set of levels whose rules it fires; the value and
the thresholds only decide that set (`evaluate_thresholds`). There is one rule per
level and one channel: rows of different channels never meet in a query. `memory` is
the part of the SQLAlchemy identity map that survives a commit: the rows the local
names `alert` and `closed` refer to. This is what makes two findings visible, since
`expire_on_commit=False`. A worker step is a query with a flush, a commit, or the
event (`Tell`) with the notice (`Notify`), of which either may fail: the code logs that and goes
on. `raised` is between sending a retry and acknowledging the message it repeats, where a
crash leaves both messages in the queue. A commit may take effect and its answer be lost
(`CommitUnanswered`): the batch raises, and its retry finds the row as the commit left it and
sends nothing. `Crash` is the death of the whole worker, whose messages are delivered again,
`Kill` that of one pool process, whose message is acknowledged as `celery_app.py` sets it up, so
that the batch is gone. `untold`, `unnoticed` and `killed` are history variables: which rows'
last change had its event lost, which openings their notice, and which batches died. An acknowledgement is `AcknowledgeLoad` and
`AcknowledgeCommit` (the commit of `get_db`).

### UserAdmin

A user is a row id with the name it was created with; a row has two bits, admin and
active. Handlers are a record with their stage: operator authenticated, target
loaded, guards passed, committed. `fresh` is a history variable: the handlers that
counted the other admins and were not overtaken by a commit since. Deletion fails on
foreign keys, updates on rows that are gone, inserts on unique columns: all are
`Refuse`. `UpdateSelf` is an update of one's own row that the guards let pass: the row it
compares with is the one loaded with the token, so it writes the email at most.
`ResetPassword` finds the user again after hashing in a thread, or fails.

### DtuServer

`start()` loads the devices, opens one port after the other (`StartListener`), skips those
without one (`SkipDevice`) and creates the consumer last (`Started`): connections are
accepted and queue readings before that. A port that cannot be opened ends the process
(`StartRaises`). `phase` goes from starting to running, closing and stopped, or to failed.
A frame is two halves and yields one reading, numbered in the order of decoding; a
read returns one or more halves. `buffer` keeps its Python type because the code
changes it. `TakeItem`, `EndBatch` and `EmptyBatch` are the loop of `_consumer` with
the deadline as a nondeterministic choice. `StopReturns` waits as `Server.wait_closed`
does in the deployed Python 3.12. `batch_ingest` leaves out readings of unknown codes one by
one (`skipped`) and stores the others; or it raises, after its COPY took effect or before, and
the consumer logs the batch as dropped: a dropped reading may be stored, and no document
says otherwise.

### RtuFraming, RtuCrc

The function `split_rtu_frames`, called again and again (`Call`) with the rest it returned and
the bytes that have come since, as its docstring asks: `stream` is all that will ever come,
`arrived` what has been given to it and `next` the first byte of the rest. This is not what
`_handle_conn` does with it, whose second chunk raises: that is `DtuServer!ExtendRaises`. An
iteration of its loop is one action: `Accept` a frame, `Resynchronize` one byte on,
or `Wait`, which returns. Conditions on a position look only at bytes from there on, so
bytes are never copied. The specification is `ScannerSpec`. Every accepted frame is decoded at once (`Decode` is
`_decode_frame`, with the integer decoders of `modbus_tcp_adapter`); `readings` collects what
its loop over the registers returns, with the frame and the register each value is from. How
many values a byte has (`ByteRange`, 256 in the code) and the CRC are parameters: the theorems
hold for any even number and any CRC; TLC uses 16 values, a CRC of
eight bits and the code's own loops (`RtuCrc`), which it also evaluates for eight bits with
the code's polynomial on the check value `tests/test_modbus_rtu_framer.py` has. Scaling and
floats are left out.

### EdgeGateway

`run_loop` with each of the three adapters it can be given. A message or a poll is the
content that decides what becomes of it: it parses or not, its code is unknown to the platform,
it is refused by the schema, it cannot be encoded as JSON, it repeats a key, or it makes
`_parse` or the listener raise; a polled reading may be any of these that a peer or a
register can produce, `twin` being the second reading of one channel in a poll. Messages
are numbered as they are received (`received`), so that order and loss can be told. The
MQTT listener is a task of its own with its own stages; the queue is `asyncio.Queue(maxsize)`
with the handling of `QueueFull`. `Connected` is where `max_iterations = 0` reads nothing.
A post is answered, refused, or breaks before or after the platform has stored the batch
(`StoreBatch`): the readings of known codes in their order, unless one of the batch is unfit or
its key exists. Ctrl-C is a fault that may
come at any await. `disconnect` cancels the listener and empties the queue.

### DataIngest

A reading has a channel, a time and a value; (time, channel) is the primary key. A call
resolves its batch against the channels that exist, copies it, executes SET and PUBLISH
for each reading, one command at a time since other clients' commands come in between,
and dispatches the check. `COPY` refuses the whole batch when a key exists or a channel
has gone since the resolution (channels are created and deleted by their own routes; one
with readings cannot be deleted), and it may take effect although its answer is lost.
Each of the four systems may fail and the process may end between any two of them.
`accepted`, `cached` and `published` are places in the batch: a batch may name a key twice.
`newest` and `overlapped` are history variables: which reading COPY stored last, and for
which channels two calls were between their COPY and the end of their pipeline at once.
A code resolves to one channel.

In `IngestContract` what a batch resolves to is kept as a whole, or the call breaks, perhaps after it was; of what is kept each reading is shown and published, the latter once; the check is
dispatched; the call answers when all of that is done, unless Redis or the broker have
failed. `DataIngest` implements it under the mapping of `Phase` (a call is keeping from its
COPY to its answer), `Kept` and `Down`; the steps of the pipeline that only move a program
counter are stutters.

### ModelConversion

A row of `3d_models` has its status, the version of the GLB its `glb_key` names (0 for
null) and whether it shows an error. The object keys carry fresh uuids, so objects are
numbered per model. `Updated` is what an UPDATE leaves: a session loads the row, assigns
and writes the columns that differ from the loaded ones; it raises when the row is gone,
unless nothing differs. The stages of a slot follow `_run` and the two exception handlers
(`rejecting` for the `ValueError` of the conversion, `raised` for everything else, whose
own failure is only logged). The upload handler stores the source, commits the row, sends
the message and marks the row failed when sending raises, though the broker may have the
message. A deletion loads the row, commits, then removes the objects whose keys it loaded.
Crashes, killed pool processes and the visibility timeout are as in `AnalysisJob`; this
task never retries.

### WsBroadcast

`active` is `active_connections` with its order, because the listener iterates over the
list itself while it awaits each send: `index` is the list iterator's. Endpoint coroutines
append and remove between two awaits of the listener. After its loop the listener removes
the sockets it could not send to, one after the other and without an await (`Prune`):
nobody else moves in that stage. `staying` and `disturbed` are
history variables: who has been in the list since the round began, and whether anybody has
left it since. A send to a client that has gone may raise or not; a Redis failure ends the
listener for good.

### Topology

`rows` are the ids that exist, `parent` the foreign key each was created with: no update
schema has one, and an id is not used twice. A request is one transaction with the stages
begun (authenticated, and its role loaded), permitted (the route's check passed), tested (the
service has read what it decides on) and done. `Calls` enumerates what the routers
offer: for each operation the rows it may name and the right its route demands. `Commit*`
repeats what PostgreSQL decides: foreign keys, unique constraints, NOT NULL of the columns
SQLAlchemy would null when a project or device with children is deleted, the cascade from
a sensor to the channels that were loaded with it. One alert route has the need `login`, which
nothing denies: the list without `project_id` and `channel_id`. `data` are the channels and projects that
readings, alerts, jobs or 3D models refer to. `ChangeRole` is `UserAdmin` seen from here;
`held` is a history variable, the rights an operator has had since its request began.

## 3. Bounds

- Jobs: two jobs (one with a time range, which takes the other path through `_run`), two
  slots and one cancel handler show every pairwise race: slots against each other, a slot
  against a handler, a revoke against both; a third of any kind repeats them.
  `MaxRetries` is 1 in JobSafety, with one fault of each kind but duplicates, and 2, the
  code's value, in JobLive, where one slot executes both jobs in turn and one error and one
  duplicated message occur: fairness and the retries of a job with a time range need no second slot.
- Alerts: one or two levels and batches of up to three readings over two or three
  timestamps: fire, recover, fire within and outside the suppression window, late
  readings; two batches in either order, or the same twice. `MaxRetries = 1` (3 in the code): a
  second repetition starts from states the first one reaches. At most one error or unanswered
  commit, one death of the worker or of its process, and one lost event or notice
  (`MaxErrors`, `MaxCrashes`, `MaxFailures`); `MaxEvents = 3` bounds batches and faults together, so
  that every pair of faults meets one batch and every single fault two.
- Users: three rows, of which two may have the same name, and two handlers: the guard
  counts one other admin, so three rows have a last one, its rival and a bystander.
- DTU: two devices with four connections between them, batches of two, five readings: full, partial,
  empty, failing and partly skipped batches occur, a batch spans devices, and readings are queued before the
  consumer exists.
- Framing: bytes of 16 values, so that 16 is the number after which a length or a
  register wraps, and all 1331 streams of three pieces: whole frames with one and two
  registers, of another slave, exceptions and frames with no or odd data; broken CRCs,
  halves of frames, noise that announces a long frame and noise that announces nothing. Each is cut
  in every way. Three pieces put a frame behind and before each kind of noise.
- Gateway: each adapter; a queue of two with four messages overflows and is drained, three
  iterations follow each other, two registers make a poll of which one reading is spoiled or
  unknown; two faults, so that one happens while another is handled; one key that may repeat.
- Ingest: three calls over two channels; two of them repeat a key, two follow each other
  on one channel, one spans both channels; one fault of each kind, channels created and
  deleted at any time.
- Models: one model, since every statement is by primary key and every object key carries
  the model's own uuid; two slots, one deletion, any two faults of different kinds. A
  second fault is needed to see one exception handler fail inside the other.
- Topology: a project with a device, a sensor and a channel, an empty project, and rows to
  add: a project, two devices of one code, two sensors of one code, and a channel whose code is
  taken in one sensor and free in the others, so that two creators race for a code, and one
  row is created while its place is deleted; an administrator and a
  member with write permission in one and read permission in the other project. Two requests
  of any kind, one change of role and one row that data refers to: every property relates
  a request to one concurrent change.
- Ws: two clients and two projects: one that leaves and one that is skipped, and a list
  that is not looped over. Three messages: a first round, one in which the list has
  changed, and one after it.

No run uses a state constraint; every bound is a constant in a guard. Symmetry is
used for safety only. `CHECK_DEADLOCK FALSE` is set everywhere: the systems come to
rest when nothing is submitted, dispatched or connected any more.

## 4. What is checked

| Run | Properties | What it shows |
|---|---|---|
| JobSafety | TypeOK, AtMostOneExecutor, PendingHasCarrier, CancelIsFinal, ImplementsLifecycle | no double execution, no pending job forgotten, a settled cancellation stays, refinement of `JobLifecycle`; with one fault of each kind |
| JobLive | ServedResultIsStored, EveryJobSettles | when nothing fails every job ends, except that one with a time range whose preparation raises is left running for good; results are stored before they are promised, also under retries and duplicates |
| AlertSerial | UniqueOpen, ReadingReconciled, ShownAgrees, OpenIsNotified, BatchesComplete | one worker, two batches, with retry, redelivery, deaths, lost events and acknowledgement: one open alert per level, levels that agree with the reading, clients that saw what the row says and administrators who were notified unless that very event or notice was lost, every batch ends unless its process died |
| UserRaces | TypeOK, CountedCommitKeepsAdmin | two handlers: what a count is still worth |
| DtuBatches | TypeOK, InOrder, QueuedIsHandled, StopEnds | each reading stored at most once and in order, left out for its unknown code, or dropped with its batch; what was queued before the consumer started or stop() was called is handled; the end of stop() |
| RtuFraming | FramesAreFound, ChunksDoNotMatter, ReadingsAreMeant | no valid frame outside those found is passed over; `split_rtu_frames` finds the same frames however the stream is cut between its calls; registers decode to the number they mean |
| EdgeGateway | GatewayTypeOK, Accounted, EndsClean | readings reach the platform in order and at most once; none of a known code is missing unless a call failed or a reading spoiled its batch; the gateway ends, with no listener and an empty queue |
| Ingest | TypeOK, LatestIsNewest, ImplementsContract, StoredIsChecked | refinement of `IngestContract`; the cache follows the table unless calls overlap; a Redis failure does not cost the alert check |
| Ws | InOrder, NoneLeftBehind, UndisturbedRoundIsComplete, EveryMessageIsHeard | own messages only, once, in order; no closed socket left in a list; rounds without a leaver are complete; nobody who leaves stops the listener |
| Models | TypeOK, ReadyHasObject, NothingLeaks, EveryModelSettles | what can be downloaded is stored; conversions end; without faults only a deletion during the conversion leaves an object |
| Topology | TypeOK, NothingWithoutRight, CodesLocate, RemovalsAreMeant | no request is served or changes anything its operator never had the right to, but for the one route that checks nothing; device codes are unique, sensor codes in their device, and channel codes in their sensor, however creators race; rows vanish only by a deletion that names them or their sensor, and never while data refers to them |

`TypeOK` of `AlertLifecycle` and `WsBroadcast`, `ScannerTypeOK` of `RtuFraming`, and
`AdminRemains` for one handler, are proved and need no run.

One run finds a counterexample to what a document says (quoted in `PROJECT.json`
"findings"): AlertRace, in which two workers insert two open alerts of one channel and level.

Disagreements met while modelling, which the modules contain and no run is kept for:

| Where | The document or comment says | The code does |
|---|---|---|
| `analysis_tasks.py:94`, `:208` | a refused job is not retried | `Ignore` is caught and retried (`MarkRunningRead`) |
| `analysis_tasks.py:190` | the uploaded file is cleaned up | it stays in the store (`SecondGuard`) |
| `analysis_service.py:97` | only pending and running jobs can be cancelled, a cancelled one is not written back | guards and commits are not atomic, on either side (`CancelCommit`, `MarkSuccessCommit`) |
| `analysis_tasks.py:44` | running leads to success or failed | a job with a time range raises outside the handlers and stays running (`FetchRangeRaises`) |
| `docs/api/analysis.md:232` | a job cancelled while the plugin runs ends as cancelled | `mark_failed` overwrites it when the plugin raises (`MarkFailedCommit`) |
| `docs/api/alerts.md:32` | resolved_by is null after automatic recovery | reopening does not clear it (`Written`) |
| `docs/development/modules.md:159` | the second concurrent confirmation gets 409 | both succeed (`AcknowledgeLoad`) |
| `docs/development/database.md:72` | a level that fires within the window reopens the alert | the stale object of the session hides the change (`Reopen`) |
| `docs/api/alerts.md:156` | clients get `resolved` for a confirmed alert | nothing is published (`AcknowledgeCommit`) |
| `docs/api/setup.md:78` | the second count stops concurrent setup | both pass (`InitRecount`) |
| `docs/api/setup.md:80` | once initialized, 409 for ever | an emptied table is uninitialized again (`InitCount`) |
| `docs/api/users.md:110` | LAST_ADMIN: the last admin cannot be lost | two concurrent changes each count the other's target (`CountOthers`, `UpdateCommit`) |
| `docs/api/protocols.md:176` | partial and joined frames are handled by the server | the buffer has become `bytes`: the second chunk raises (`ExtendRaises`) |
| `docs/api/data.md:187` | the latest value is the one written last | of two overlapping calls the later pipeline wins (`SetLatest`) |
| `docs/api/data.md:224` | a subscriber gets the readings and alerts of its project | a client that leaves during a round makes the iterator skip the next one (`EndSend`) |
| `run_edge_adapter.py:119` | `--max-iterations` 0, the default, runs for ever | it connects, reads nothing and leaves (`Connected`) |
| `docs/development/database.md:164`, `docs/api/data.md:97` | a channel code names one channel | two sensors of a device may have channels of one code; a reading goes to either (`CodeFreeAt`) |
| `docs/api/projects.md:156`, `docs/api/devices.md:142`, `docs/api/sensors.md:89`, `docs/api/channels.md:137` | deletions cascade to devices, sensors and readings | only the channels of a sensor and the links of users to a project go along; anything else that is left refuses the deletion (`CommitDelete`; a cascade is the mutant of `RemovalsAreMeant`) |
| `docs/api/alerts.md:38`, `:45` | a user sees the alerts of visible projects only; without a filter only an admin may list all | `GET /alerts` without `project_id` and `channel_id` checks nothing and lists the alerts of all projects (`AlertRoutes`, need `login`) |
| `docs/api/protocols.md:148` | `device_code` of the configuration stands in when a message has none | such a message is dropped as one without its fields (`Parses`; `mqtt_adapter.py:112`) |
| `docs/api/protocols.md:150` | a message that is no JSON is dropped and the subscription goes on | bytes that are not UTF-8 end the listener (`ListenerRaises`); a number too large for a float takes the messages before it along (`ReadQueueRaises`) |
| `docs/api/models.md:125` | DELETE removes the objects of the model | a GLB stored after the row was loaded stays (`StoreGlb`, `DeleteGlb`) |
| `docs/api/data.md:314` | a refused subscription closes the socket with 4403 | the socket stays open and may subscribe again (`Subscribe`) |
| `docs/development/modules.md:305` | stop() drains the queue | readings of connections that outlive the consumer stay in it (`Continue`) |

UniqueOpen holds with one worker and fails with two, AdminRemains holds with one handler
(`SerialKeepsAdmin`) and fails with two: the first is what the algorithm is good for, the second
what the deployment makes of it.

## 5. Fairness

Safety runs use none. `AnalysisJob!Fairness`: a submitted handler dispatches, a started
cancel request goes on, each pool process goes on with its task or takes a waiting
message, the worker reads its control queue: these are the progress of an event loop and
of a worker's main loop. No fault, submission or cancellation is fair.
`AlertLifecycle!Fairness` is the same for worker processes. `DtuServer!Fairness`: the
coroutine of `start()` and the consumer task are scheduled and `stop()` continues when what
it awaits is done; nothing makes a device send or leave, or `stop()` be called. `StopEnds` therefore starts from "the devices have gone".
`EdgeGateway!FairGatewaySpec`: the loop (`LoopStep`) goes on, its polls and posts end
(they have timeouts), and disconnect is reached; no message need arrive, and the listener need not run.
`DataIngest!Fairness`: each call is a coroutine of a running event loop. `ModelConversion`:
upload handlers and pool processes that can go on do; nobody has to upload or delete, no
message is lost by fairness and no fault is fair. `WsBroadcast!Fairness`: the listener
and the endpoint coroutines are scheduled; a send ends, if only because the server closes
a connection that does not answer its pings; no client subscribes, leaves or stays by
fairness. Every liveness property names what may prevent it: `EveryJobSettles` any
fault, and the one path on which the code itself leaves a job with a time range running
(`LeftRunning`: nothing is left that would change its row); `BatchesComplete` a pool process that
died with the batch, after the errors `MaxErrors` permits, which its retries cover;
`EveryModelSettles` a broken upload and a killed process, `StoredIsChecked` a dead process and a refusing
broker, `EveryMessageIsHeard` a failure of Redis, which ends the listener.

## 6. What is proved

Proved by TLAPS for every value of the constants that satisfies the assumptions of the
module (bounds are natural numbers, null values are outside the sets they stand for,
fault budgets are functions):

- `AnalysisJobProofs`: `TypeCorrect` and `ServedResultsStored` hold without further
  assumption. `ExecutionSafe` is the inductive invariant behind `OneExecutor`,
  `SettledCancelIsFinal` and `Implementation`, for a broker that never holds a message of
  a job twice (no visibility timeout, no crash between a retry and its acknowledgement): a
  job has at most one carrier (its submitter, one message, or one slot), what a slot is
  about to overwrite is pending, running or cancelled, and a cancel handler's job exists.
  The carrier part is needed since `AtMostOneExecutor` alone is not preserved by the
  delivery of a second message; the second part is what makes the abstract actions'
  guards true. `Implementation` maps each step to a step of `JobLifecycle` or a stutter.
  `PendingIsCarried` needs no such broker: `CarrierInvariant` adds that a job whose revoke was
  sent, and one a task has marked, is no longer pending, and that every retry was paid for by
  an error, so that a task which gives up on a pending job has met more errors than retries.
- `AlertLifecycleProofs`: `AlertsWellFormed` (types, and that what workers and requests hold
  refers to what exists), then `OneWorkerKeepsUnique` from "the level a worker is about to
  open is closed", which an acknowledgement preserves because it only closes. With one
  worker (`\A v, w \in Workers : v = w`, the hypothesis of that theorem and of the next ones)
  `SessionAgrees` shows the `SessionInvariant`: what the session remembers of a row is what
  the row says or is about to say, acknowledgements apart (`MemoryAgrees`), what was flushed is what will be
  committed, an event is about the row as committed, and a level that matching has gone past
  stays as it left it. From it follow `ReadingIsReconciled` and `ClientsAreTold`. `OpenIsSent`
  holds for any number of workers: who opens an alert is the one who sends its notice, and
  what takes the notice away (a failing dispatch, an unanswered commit, a death in between)
  puts the row into `unnoticed`, from where only its next opening takes it; so retries,
  redeliveries and acknowledgements lose none. `untold` is the same for events. `NobodyAssumption` says that "acknowledged by nobody" is not
  the name of a user.
- `UserAdminProofs`: `UsersTypeCorrect`; `CountsProtectLastAdmin` for any number of
  handlers, from "what a fresh handler counted is still there"; `SerialKeepsAdmin` for one
  handler, from "its operator is an active admin other than its target".
- `ModelConversionProofs`: `TypeCorrect`, then `ReadyModelsStored` from `StoreInvariant`.
  `ReadyHasObject` is not inductive: a deletion in progress must be known to have removed
  the row for good (the upload handler creates a row once, before any task, message or
  deletion knows the model), a task must have stored the version it is about to write, and
  a task whose loaded row already names that version must not find a row without one,
  since it would write the status alone (`KeysStay`). `StoreIsTidy` adds `TidyInvariant`,
  of what is true while nothing has failed: a model has one message or one task, a task
  finds a row that names no GLB yet (the second follows from the first), and a deletion removes
  the source before the GLB.
- `IngestProofs`, the platform's end: `IngestTypeCorrect`, `IngestSafe` and from them
  `IngestImplementsContract`, for any batches, repeated keys included. That a reading is
  published once needs `Exclusive`: what a call is still to publish lies in the table, so no
  other call stored it or published it before; that only stored readings are shown needs
  `FeedIsStored`. What the pipeline has left out is excused by `PushedIsThrough`: Redis
  failed. `NewestIsShown` needs `FreshInv`: while no two calls have met on a channel, one call
  at most has readings of it to publish, it is the one that stored last, it goes through
  its batch in order, and what it has passed is in the cache.
- `IngestProofs`, the gateway's end: `GatewaySafe` is the inductive `GatewayInv`, from which
  `GatewayTypeCorrect` and `ReadingsAreAccounted` follow: readings stored, in the
  batch and in the queue follow one another (`Follow`), what is stored has a known code
  (`StoredIsKnown`), and what was received with one and parses is among them unless a call failed or
  a reading spoiled its batch (`NothingMissing`). `LoopOK` is needed for the order: there is a
  batch exactly while it is posted, so what is read next comes after it. They hold
  for any queue length, number of registers and iterations.
- `WsBroadcastProofs`: `ListsAreClean` from `ListInv`; `MessagesInOrder` from `OrderInv`, whose
  part `TargetIsNew` says that the iterator is past everybody who was sent the message of the
  round, so that removals, which only move items down, cannot bring anybody back; and
  `UndisturbedRoundsReachAll` from `RoundInv`: who stays is still ahead of the iterator, being
  sent to, or done.
- `DtuProofs`, the scanner: `NothingIsPassedOver` from `Settled`: each position behind the
  rest lies in a frame that was found, or begins none whatever bytes are still to come.
  `CuttingDoesNotMatter` compares the scanner with `AtOnce`, a recursive function of
  positions. `SplitInv` says that what was found, followed by what splitting finds from the
  rest on, is what splitting finds from the first byte on, for every later end of what has
  arrived, and that between two calls the rest cannot become a frame yet. A recursive
  function is a choice among the functions that satisfy its equation: that there is one, and
  that all of them agree with the scanner, follows from a least counterexample
  (`LeastExists`), so no induction theorem is needed. `DecodedIsMeant` from
  `DecodedInv`: a reading comes from a frame that has arrived, and its value is the number its
  bytes mean (`Number`, the sum over them), modulo the size of its type and within its range
  (`SignedMeaning`), for any register map with natural addresses and the integer types.
- `DtuProofs`, the server: `ServerSafe`, the inductive `ServerInv` behind `ServerTypeCorrect` and
  `StoredInOrder`: items of the batch and of the queue stand in the order of their decoding,
  after everything handled, which was stored in order, left out or dropped (`InTurn`), and a consumer that has not begun has taken nothing
  (`NothingTaken`), for any devices, connections and batch size. `NothingIsLeftWaiting` adds
  `TasksOK`: without a consumer there is no open port once `start()` is over.
- `TopologyProofs`: `TopologySafe` is the inductive invariant `TypeOK`, `TreeInv`, `RightsInv`.
  `TreeInv` says that rows have places that exist and that two requests do not add one id; the
  constraints at the commit keep it, not the tests before. `RightsInv` says that a request
  that was let pass has the right in its history, for the project found from its row, unless its
  route needs a login only: since a row keeps its place, that is the project of the row at the
  commit too. From it follow
  `NothingIsDoneWithoutRight`, `CodesAlwaysLocate` and `RowsAreRemovedAsMeant`.

Liveness is out of the prover's reach, but not the half of it that is safety: that at no
moment somebody is stuck because nobody is left to act. These theorems state it for any
value of the constants; that the one who is left does act is what the runs add.

| Liveness | Safety half | Theorem |
|---|---|---|
| EveryJobSettles | `PendingHasCarrier`, `RunningHasSlot` | `PendingIsCarried`, `RunningIsExecuted` |
| EveryModelSettles | `UnsettledHasCarrier` | `UnsettledIsHeld` |
| BatchesComplete | `BatchIsKept` | `NoBatchIsLost` |
| QueuedIsHandled, StopEnds | `WaitingHasConsumer`, `ExitsEmptyHanded`, `StaysDown` | `NothingIsLeftWaiting` |
| EndsClean | `StoppedIsClean`, `StaysStopped` | `StoppedForGood` |
| StoredIsChecked | the guard of `IngestContract!Answer` | `IngestImplementsContract` |

`EveryMessageIsHeard` has no such half worth stating: only `ListenerFails` ends the listener.

- `RunningIsExecuted` (no message is duplicated): what could leave a running job without a
  slot is a cancellation whose revocation kills the slot. `StoppedIsOver` says that such a
  revocation was asked for by a handler that saw the job running, is sent only when its commit
  has taken the job out of that status, and that no slot is about to mark it running
  again (`Marked`).
- `UnsettledIsHeld` allows one failing call: after it the inner or the outer exception
  handler writes the outcome, and only a second failure, there or in the upload handler
  that marks the row, leaves the model behind. `HandlerIsPaid` says that the outer handler runs
  after an error or for a model that was deleted. A killed process is excluded, since
  its message has been acknowledged.
- `NoBatchIsLost` (one worker): a message is taken and comes back with the worker's death, or is
  gone with its pool process, which is excepted (`killed`); each
  retry was paid for by an error (`RetriesArePaid`), so a batch that was given up has met more
  errors than it may be retried.

The strengthenings of `AnalysisJob`, `AlertLifecycle`, `ModelConversion`, `DataIngest` and
`DtuServer` were model-checked on the instances of section 3, or somewhat larger ones, and so
were the safety halves of all of them but `DataIngest`.

Only model-checked:

- liveness under fairness (`EveryJobSettles`, `BatchesComplete`, `QueuedIsHandled`, `StopEnds`,
  `EndsClean`, `StoredIsChecked`, `EveryMessageIsHeard`, `EveryModelSettles`), beyond the safety
  halves above;
- the CRC itself (`RtuCrc`), which is computed with recursive operators; the proofs take any
  predicate for it;
- the counterexample of AlertRace.

## 7. Plan, and what is not modelled

Every component with state and decisions of its own is modelled, and every safety property
of the passing runs is a theorem. What is left, in this order:

1. Composition of `DtuServer` and `EdgeGateway` with `IngestContract` in one module, so that two
   deliverers of the same key meet; today each is checked against the contract alone, and
   `Ingest` has the two calls.
2. Larger instances where they add a case: three clients around the listener, two models
   with one pool.

A run is kept for each distinct question; a question about a new module takes the place of
a run that documents a disagreement, which then moves to the table of section 4.

Not modelled, and why:

- Platform settings: one singleton row that is read and written without a decision in
  between; the losing one of two first requests gets an error from the primary key. The
  object store client is a session created at first use; the store itself is a variable of
  `AnalysisJob` and `ModelConversion`.
- Notification senders: `gather(return_exceptions=True)` over at most two of them;
  `AlertLifecycle!Notify` has the call of `dispatch_alert`, its failure and that the failure is
  caught; what a sender does, and that one sender may fail and the other not, is left out.
- Tokens and password hashing: stateless. That the row and not the token decides who is
  an administrator is in `UserAdmin` and `Topology`.
- Dashboard and other read-only queries, response wrapping, configuration: no state.
- Plugin registries, analyzers, conversion of files, scaling and floating point: import-time
  wiring, or numbers TLC cannot evaluate.
- Migrations, simulators, maintenance and report tasks: schema scripts, generators of test
  data, placeholders.
