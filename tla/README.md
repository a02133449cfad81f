# Fuzzbin: a verification project

Fuzzbin manages a library of music videos: a FastAPI server with a SQLite
database, background jobs that download, organise and describe videos, and a
React frontend that follows the jobs over a websocket. This directory holds a
TLA+ model of the parts of the server in which several activities share state,
the TLC configurations that check it on small instances, and theorems about all ten
of its state machines whose proofs TLAPS checks for every instance.

`PROJECT.json` lists components, runs, mutants, hazards, findings and theorems,
and maps every definition to the lines of the source it stands for. Paths below
are relative to `src/fuzzbin/` unless they begin with `tests/`.

1. [The system](#1-the-system) - 2. [The modules](#2-the-modules) -
3. [The runs](#3-the-runs) - 4. [What is proved](#4-what-is-proved) -
5. [Where the code and its documentation disagree](#5-where-the-code-and-its-documentation-disagree) -
6. [Not modelled](#6-not-modelled) - 7. [Plan](#7-plan)

## 1. The system

The server is ONE process with ONE asyncio event loop. Concurrency is the
interleaving of coroutines at the awaits that really suspend; threads appear
only behind `aiosqlite` (one thread that executes the statements of one
connection in order) and behind blocking file operations. All coroutines share
one database connection, hence one transaction: a `commit()` of any of them
makes everything issued so far durable, a `rollback()` discards it.

### Inventory

| component | state it keeps | operations | what is hard | what makes it correct | module |
|---|---|---|---|---|---|
| **Job queue** `tasks/queue.py`, `tasks/models.py` | registry, priority heap, cron templates, workers, rows of `jobs` | submit, retry, cancel, purge, worker loop, scheduler pass, recovery, stop | every await is a scheduling point; a crash between any two; status in memory and in a row; workers that die | no job lost or run twice, dependencies first, ends final and announced once, queued jobs finish | `JobQueue` |
| **Event bus, websocket** `core/event_bus.py`, `web/routes/websocket.py` | pending progress, flush timers, the bus's lock; connections, subscriptions | emit, flush, terminal events, shutdown; connect, subscribe, broadcast | debouncing against terminal events; a client that is slow or vanishes; awaiting a task under the lock it wants | last progress precedes the end, nothing after it, a listed job's end is seen, no deadlock | `JobEvents` |
| **Configuration** `common/config_manager.py` | the live object, a bounded history, a debounced save, `config.yaml` | update, batch, undo, redo, save, start | what is a copy and what is shared; a batch failing half-way | the current snapshot is what the manager shows and, until an undo, what the server runs with; unsaved changes are about to be saved | `ConfigManager` |
| **Import chain** `tasks/handlers.py` | status and path of a row, temporary and library files, the chain's jobs | add, download, post-process, organize, NFO, pipeline; retry, cancel, stop | several jobs on one video; a file handed from job to job; clean-up on errors and not on restarts | a finished row names the right file, the library keeps its copies, temporary files have an owner | `ImportPipeline` |
| **Batch imports** `tasks/handlers.py`, `workflows/` | many rows, counters of a job, the jobs it hands rows to | NFO directory, Spotify playlist, track lists, IMVDb, YouTube, batch download, enrich, refresh | lookup and insert are separate; items fail one by one; jobs submit jobs | no twins but from races, counts add up, no row stranded, every job ends | `BatchImport` |
| **Files of a video** `core/file_manager.py`, `services/video_service.py`, `web/routes/files.py` | rows (path, is_deleted), files in library and trash, thumbnails | organize with rollback, trash, restore, purge, empty trash, duplicates, thumbnails, repair | paths read before and used after awaits; a failing write after the move | row and file stay together, one file per video, only a purge destroys one | `VideoFiles` |
| **Library tables** `core/db/repository.py`, `connection.py`, schema triggers, tag routes and service | videos, history, tags, links, artists, collections, the search index; one transaction | about thirty calls, each a program of statements | the shared transaction; read-modify-write over awaits | links lead to rows, counters count, index agrees; quiet means whole | `Library` |
| **Limits and retries** `common/*_limiter.py`, `common/http_client.py`, `api/base_client.py`, `api/*_client.py` | token bucket, semaphore, OAuth token in memory and file, response cache | acquire, sleep, send, retry, charge | a lazily refilled bucket shared by sleepers; cancellation in a queue | never more than the rate allows, no slot lost, every call ends | `ApiClients`, `RateContract` |
| **Authentication** `auth/*`, `web/routes/auth.py`, `web/dependencies.py` | password hash, denylist and its cache, failures per address, OIDC logins under way | login, first password, refresh, logout, change password, provider login | checks and records on different sides of an await; a cache in front of a table | guesses bounded, logout holds, one identity, a blocked address is let in again | `Auth` |
| **Lists, searches, exports** `core/db/query.py`, `services/search_service.py`, `services/base.py`, `core/db/exporter.py` | cached counts, .nfo and playlist files, saved searches, scheduled tasks | list, facets, cached counts, export by request or job, create, delete, run | page by page over a table that changes; two computations of a cached value | pages partition, facets are reachable, counts recent, exports fresh, ids not reused | `VideoQuery`, `Catalogue` |
| **Upkeep** `core/db/migrator.py`, `core/db/backup.py`, `services/backup_service.py` | schema, `schema_migrations`, archives | migrate, back up, verify, retain | a crash between two statements or in a write; two backups at once | complete schema while up, a good archive stays | `Maintenance` |
| Lifespan `web/main.py`, `__init__.py` | order of start and stop | startup, shutdown | bus is shut down before the queue stops | the Start, Stop, Exit, Shutdown and Restart actions of the modules above | several |
| External tools `clients/*` | none | subprocesses | time-outs | outcomes are choices in `ImportPipeline` and `VideoFiles` | in part |
| Enrichment services, previews of `web/routes/add.py`, parsers, path organizer, text helpers, metrics, frontend | none of their own, or of the browser | requests and pure functions | - | - | no (section 6) |

### How the parts interact

A route submits a `Job` to the queue, which writes a row, puts it on the heap and
runs its handler in a worker. Handlers call `update_progress`, whose callback
starts a task on the event bus; the worker emits the terminal event. The bus
broadcasts through the connection manager to the endpoints of the clients, and
an endpoint reads the queue's registry when a client subscribes. The handlers
of the import chain submit each other; the batch imports submit the handlers
of the chain. Handlers and the requests of the video service meet in the rows of
`videos` and in the files, on one connection. API clients are made anew by each
job. The configuration manager is independent of these; a restart is the only
event that touches all.

## 2. The modules

| module | models | extends / instantiates |
|---|---|---|
| `JobLifecycle` | what the queue promises: a job is executed at most once, after its dependencies | - |
| `JobQueue` | `tasks/queue.py` with the jobs table | instance of `JobLifecycle` |
| `JobQueueProofs` | theorems about `JobQueue` | `JobQueue`, `TLAPS` |
| `JobEvents` | event bus, connection manager, websocket endpoint | - |
| `ConfigManager` | configuration and its history | - |
| `ImportPipeline` | the handlers that bring one video into the library | - |
| `ImportPipelineProofs` | theorems about `ImportPipeline` | `ImportPipeline`, `TLAPS` |
| `BatchImport` | the handlers and workflows that go through a list | - |
| `BatchImportProofs` | theorems about `BatchImport` | `BatchImport`, `TLAPS` |
| `VideoFiles` | file manager, video service and the requests for files | - |
| `VideoFilesProofs` | theorems about `VideoFiles` | `VideoFiles`, `TLAPS` |
| `Library` | the repository on its shared connection, with triggers and callers | - |
| `StorageProofs` | theorems about the two modules that keep what outlives the process | `Library`, `ConfigManager`, `TLAPS` |
| `RateContract` | what a rate limit promises: an eager token bucket | - |
| `ApiClients` | the shared client of an API | instance of `RateContract` |
| `TrafficProofs` | theorems about the two modules that talk to the outside | `JobEvents`, `ApiClients`, `TLAPS` |
| `Auth` | login, tokens, throttle, provider | - |
| `AuthProofs` | theorems about `Auth` | `Auth`, `TLAPS` |
| `VideoQuery` | query builder, filters, facets: operators without state | - |
| `Catalogue` | what reads the library, and the saved things | `VideoQuery` |
| `Maintenance` | migrations, backups, and the server that is up: `Catalogue` composed with a process that starts, stops and crashes | `Catalogue` |
| `MaintenanceProofs` | theorems about `Maintenance` and the part of `Catalogue` it runs | `Maintenance`, `TLAPS` |
| `MC...` | constants of the instances TLC checks | the module of that name |

In all of them an action is the code between two awaits that may suspend.
An await that cannot suspend, or during which nobody can see a difference, is
not a step. Operators marked *Mutant* are plausible mistakes in a definition
that follows them; `PROJECT.json` pairs each property with one that breaks it. Two pairs of
modules share a module of proofs, so the definitions of `ApiClients` and of
`ConfigManager` are named apart from those of their neighbours (`ClientInv`, `ConfigInv`).
Variables marked *history* record what happened and influence nothing.

### JobQueue

* `status[j]` is the in-memory object's status, `jobs`, `templates`, `heap` the
  containers of the queue; `submit[j]` says that `submit()` of `j` awaits its
  INSERT and holds `self._lock`; `wpc[w]` names the await a worker is at.
* `row` is the status column as the shared connection sees it, `disk` what is
  committed. `Write` issues a statement, `Commit` commits all of them, a failing
  write (bounded by `MaxFaults`) rolls everything uncommitted back, as
  `update_job_status` does, and the queue swallows the error. An awaited write
  has returned when `Committed(j)`.
* `Take`, `StartHandler`, `HandlerReturns / Raises / TimesOut / Aborts`,
  `Announce...`, `CheckWaitingJobs` are the worker from one await to the next,
  `SchedulerPass` one pass over the templates, `Start` recovery and start-up,
  `Stop`, `CancelWorker` and `Exit` the shutdown or a crash.
* A handler is external to the module: it may end in any of the four ways. Which
  handlers answer a cancellation by raising `CancelledError` is the constant
  `Aborting`.

### JobEvents

* `emits`, `pending`, `flush`, `lock` are the bus: tasks that will emit,
  `_pending_progress`, its timer task, the lock as far as it is held over an
  await. `todo` and `stuck` describe broadcasts: whom each event is still to be
  sent to, and who is suspended in a send to each connection, in order.
* `client`, `active`, `subs` are the endpoint, `active_connections` and
  `_job_subscriptions`.

### ConfigManager

* `store` is a heap of `Config` objects; `live`, `app` and `snaps` are references
  into it, because who shares an object with whom is the point of the module.
* `live` is the object the manager shows (`GET /config`), `app` the one `get_config()`
  gives the rest of the server. They are one object until an undo, a redo or a refused
  batch gives the manager another; nothing gives it to the server.
* `Coerce` is what validation makes of a value (a string that becomes a number);
  raw values stay in the live object, as in the code, and are compared coerced.
* Operations run without suspension up to the scheduling of the save. The save is a task
  nobody awaits: `Save` merges the dump, which leaves defaults out, into the file, and
  `FailSave` is the `ConfigSaveError` that ends the task with nothing left pending.

### ImportPipeline

* `jobs` is the sequence of all jobs ever submitted, each with the step its
  handler is at and the temporary file it was given; `files` maps the existing
  files to the video they show, `torn` has the library files that are copies cut short;
  `status`, `path`, `title` are columns of the row.
* The queue is reduced to what handlers see: a free worker takes a pending job,
  `Cancel` changes a status that the handler reads where its code does, `Restart`
  ends running jobs without their error paths, `Retry` submits the same
  parameters again.
* `Fail` is an exception at any await, with the `except` block of the handler it
  belongs to: `CleansUp` and `Blame` say what that block removes and writes.
* The move of a chain's file is a copy (its directory is under `/tmp`), a pipeline's a
  rename: `FailCopy` is the copy that raises half way, with the clean-up that removes its
  source, and `Restart` may come in the middle of one. A copy that is not cut short is
  one step (`Move`): it does not await.
* `BeginAdd` looks the row up, `Create` inserts it: another job may have in between.

### BatchImport

* `rows` is the table in the order of ids, with the title and identities an
  import looks for; `jobs` are the batch jobs with their list, their place in it,
  their step and their counters; `children` are the jobs they hand rows on to.
* What differs between the importers are operators over `Kind(j)`: how a title
  matches (`Alike`: LIKE finds "Hello" in "Hello World", or titles that normalize alike),
  when work is committed, what a failing item leaves, what cancels.
* A call of the repository is atomic here; `Library` looks inside. `BEGIN` and `COMMIT` of
  the importers' transactions may be refused (`NextItem`, `Yield`, `End`), which fails the job;
  since every call commits its own writes, the rows it made stay.
* Deleted rows are looked past when a row is searched, and updated all the same:
  `update_video` reads them too (`repository.py:491`).

### VideoFiles

* `ops[c]` is the request client `c` has in progress: its step and the paths it
  read at its first await. `files` maps the places (library, trash, trash of the
  trash) to the video whose bytes they hold, which is also the hash that
  `move_video_atomic` compares. `thumbs` and `missing` are what is derived from
  the file: thumbnails in the cache and the status a repair gives.
* `todo` is a list of videos with the paths that were read for all of them at
  once (empty trash, verification), `rest` the duplicates still to be removed.
* `NamesApart` says of a scene that no two of its videos can be found at, or organised to, one
  path: `RowFindsFile` and `MissingIsLost` are claimed where it holds, `FilesOutliveMoves` everywhere.
* `broken` marks the situations in which the code parts a row from its file: a
  request that is not `organize` is interrupted between move and row or by a
  thumbnail that has gone, and two overlapping requests move the file to and
  fro. `stirred` and `left` do the same for `missing` and `thumbs`.

### Library

* A call is a program, a sequence of statements (`Programs`, built from operators named
  for the repository's methods); `line` is the queue of the connection's thread,
  whose head is executed and replaced by its successor at the end of the line.
* `open` is `in_transaction`: a write opens the transaction, `BEGIN` fails if one
  is open and then rolls it back with whatever others wrote, any commit ends it.
* `db` and `disk` hold the tables as sets, functions and relations; the triggers of
  `001_initial_schema.sql` are part of the statement that fires them.
* A call may stop at any statement: the error path of a handler or route, which
  leaves the transaction open, and the restart, which loses it.
* An export may fail unnoticed (`ExportFails`), and an import sets the tag of the decade without
  one (`ImportTag`); `untold` has the videos whose file may differ from their tags for such a reason.

### ApiClients and RateContract

* `tokens` and `since` are the lazily refilled bucket, in units so that fractions are
  integers; `value`, `waiters` and the pc `"granted"` are `asyncio.Semaphore` with
  its FIFO of futures that nobody has woken yet; `left` is what remains of a sleep. `Tick` lets a unit
  of time pass.
* `api` chooses the client: Discogs changes `rate` from a header, Spotify fetches a
  token first (`ttl`, `saved`), the cached client charges the bucket after the answer.
* `meter` is the eager bucket of `RateContract`; a grant must be possible there.
* A rate of zero, which a header of Discogs can set, makes a call that finds too few
  tokens end with an exception (`AcquireToken`).

### Auth

* `db`, `disk` are the user's row and `revoked_tokens`; `denied`, `allowed` the
  two halves of `TokenDenylistCache`, `failures` the throttle, `logins` the OIDC
  transactions. `req[c]` is the request of client `c` and the await it is at.
* `Use` and `ChangePassword` are requests that read the denylist's table (`Present`);
  `Watch` is a stream or a connection for events, which ask the cache alone.
  `forgotten` are the tokens that were in the cache when it was emptied.
* Time is kept in countdowns, so that no clock grows: a `Tick` lowers all of them.
* `menu` fixes which kinds of requests come in one behaviour and what has happened
  before it: a bound on combinations, not on interleavings within one.

### VideoQuery, Catalogue, Maintenance

* `VideoQuery` has the builder (`WhereText`, `Search`, `Paged`, ...), `ApplyToQuery` of
  the filters, `Execute`, `Count` and `Facet`. `Execute` puts each selected row at
  its `Place` in the order and cuts the window out. `Like` and `Match` are relations
  between words given as constants.
* `Catalogue`: `call[c]` is the call of caller `c`, with its request and what it
  has read so far; an edit of the library may fall between any two reads.
  `cache` keeps the entries of `AsyncLRUCache` and of the route's cache by key, each with
  its place in the order in which keys came.
* `Maintenance`: `applied` are the statements of migrations whose effect is in the
  schema, `recorded` the versions in `schema_migrations`, `archive` the backup
  directory by the second in the names. While `phase` is `"up"` the calls
  of `Catalogue` are served, too.
* `Mixed = FALSE` keeps reads of videos, saved things and faults with backups in
  behaviours of their own, and lets a write of an .nfo file fail once and before the edit.

## 3. The runs

"Holds" means that TLC visits every reachable state of the instance without a
violation. State counts are of distinct states, after symmetry. `Inv` is the
conjunction of the type invariant with the invariants named after it. Each run ends within
about two minutes on two cores.

| run | instance | what holds |
|---|---|---|
| `queue_core` (1.7 M states) | an import `a` with a time-out whose handler aborts when cancelled, a retry `d` of it, an urgent job `b` that depends on `a`; two workers | `Inv` (`NoJobLost`), `DependenciesFirst`, `RowsTellTruth`, `EndsOnce`, and that the queue implements `JobLifecycle` (`ImplementsLifecycle`), through cancellation, retention, stop, any number of crashes and restarts |
| `queue_faults` (0.7 M) | an aborting import, a cron template and a clone of it; two workers; one failing write; fairness | `TemplatesNeverRun`, and every queued job is finished (`QueuedJobsFinish`), although a rollback of the shared connection takes rows away |
| `events_jobs` (0.25 M) | two jobs, one with two updates, that contend for the bus's lock, one connection; fairness | `Inv` (`ClosedIsForgotten`), `LastProgressSent`, `ListedJobsEnd`, `NothingAfterEnd`, and `EndIsAnnounced`: no deadlock between the terminal event and the flush task it awaits |
| `config_history` (0.8 M) | two fields, two valid values, one that is coerced and one refused, a history of two snapshots, four objects, one failing batch per process | `ConfigInv` (`CurrentSnapshotIsLive`, `UnusedSnapshotsStay`, `ServerFollows`), `UnsavedIsScheduled` |
| `import_videos` (0.1 M) | one video with two possible paths, two workers, two requests (chain, pipeline or retry), one event: a cancellation, an edit, a failure, a copy cut short or a restart; fairness | `Inv` (`FileWaitsForJob`, `TempHasHeir`), `OrganizedRowHasFile`, `LibraryKeepsVideos`, `ImportSettles` |
| `batch_jobs` (0.5 M) | three items (one title contains another, one is a version of another), every kind of batch job, two at a time, one event: a change by a user or a fault; fairness | `Inv` (`CountsAddUp`, `ImportedIsLinked`, `ImportsAsPreviewed`), `TwinsFromRaces`, `NoneStranded`, `JobsEnd` |
| `files_requests` (1.5 M) | several scenes: one video with three requests; with two requests and rows changed alone and thumbnails; with two requests and a repair; two videos that are organised and resolved as duplicates, by one request with a fault or by two without; two videos whose metadata put them at one path, by one request at a time with a fault or by two without. One failing write or crash in the others, trash of depth two | `Inv` (`OneFileEach`, `MissingIsLost`, `ThumbHasRow`), `RowFindsFile`, `FilesOutliveMoves` |
| `library_calls` (1.2 M) | two callers, two calls of any kind, two videos, two tags, four libraries to begin with, one crash, cancellation or failed export | `Inv` (`TablesAgree`), `WholeWhenQuiet` |
| `clients_calls` (0.2 M) | three tasks that call any number of times, one slot for MusicBrainz and two for the others, a burst of two, rates zero to two, two attempts, one restart; fairness | `ClientInv` (`BucketNotAhead`, `SlotsConserved`), `GrantsWithinRate` (refinement of `RateContract`), `SlotsInTurn`, `TokensFlow` |
| `auth_sessions` (1.0 M) | two clients behind one address; six menus: passwords and tokens, the provider and tokens, and two pairs in a cache of two entries, without a fault; passwords, the provider and tokens alone, with one restart or foreign rollback; fairness | `Inv` (`IssuedToBound`), `GuessesBounded`, `RevocationTakesHold`, `BlockedIsLetIn` |
| `maintenance_upkeep` (0.9 M) | two migrations, two videos and pages of one, two callers, two backups on two workers, one edit, one crash, failing write or .nfo file that cannot be written | `Inv` (`CacheBounded`, `PagesPartition`, `FacetIsReachable`), `ServedIsRecent`, `QuietExportIsFresh`, `SchemaIsComplete`, `GoodArchiveStays` |
| `queue_dependents` | two jobs, one depends on the other | violated: `DependentsStopWaiting` (section 5) |

Most of these properties hold with an exception that the code makes necessary
(`broken`, `raced`, `lost`, `late`, `upset`, ...). Each exception is a history
variable that records the event, so that the property says of everything else
that it is right; section 5 lists what the exceptions are.

### Bounds, and why they are enough

* *Queue.* A job is submitted once (`Fresh`), which bounds everything but crashes;
  those are unbounded, as are stops. Two workers are what a race between two
  takers, two finishers or a finisher and a dying worker needs; three jobs give a
  dependency, a priority inversion and a retry. `MaxFaults` = 1 suffices for the
  effect of a rollback on other coroutines' rows.
* *Events.* Two updates make debouncing replace one, two jobs make the lock
  contended; one connection is enough to be slow or to vanish at any point.
* *Configuration.* Four objects and two snapshots let the deque overflow, or
  an update follow an undo (both in a row only in the proofs); one failing batch per
  process, any number of failing saves and restarts.
* *Import chain.* Two requests with the jobs they submit are two activities on one
  video, which is what the row and file races need. One event (`MaxEvents`) skips an
  error path, runs one at any step, or changes a row under a job; that the safety
  properties hold for any number of events, alone and together, is proved.
* *Batch imports.* Two jobs of any two kinds run at once or one after the other; lists
  of two items let the second be taken for the first. `BatchSize` = 1 gives an NFO
  import two transactions. One event, as in the import chain, and any number by proof.
* *Files.* Three requests interleave check, move, verify, write and rollback; with the
  additional kinds two suffice, since each exception needs one other request; so do two
  for duplicates, each removing what the other keeps.
  `MaxDepth` = 2 is a file that is trashed although it lies in the trash. `RowFindsFile` and
  `MissingIsLost` are about scenes in which no two videos share a path (`NamesApart`), as in
  all but one; in that one a request at a time tells what the code does from what an overlap does.
* *Library.* Two calls of two callers: every pair of the calls, statement by
  statement. Three tag ids let a tag be deleted and come again. `Beginnings` are
  one video with or without a tag, and two with an automatic tag on one or a tag on both: what
  a deletion, a decade and a replacement tell apart.
* *API clients.* Three tasks for two slots make one wait, two attempts make one
  retry; a bucket of four units with rates of one and two has every filling level. The number
  of calls is not bounded; MusicBrainz's one slot makes two tasks stand in line while a third calls again.
* *Authentication.* Two attempts and two clients are a block and one request past
  the check. A menu offers at most two kinds of requests, and a fault comes with one kind alone:
  kinds meet only in the user's row, and a fault ends all requests. Token pairs influence one another only in the cache: two pairs fill it, so
  that half of its entries are evicted while a lookup or a logout is under way.
* *Catalogue, Maintenance.* Two videos on pages of one turn a page; a cache of one
  entry evicts; two backups share a second or not; a migration of two
  statements can be cut in its middle.

`CHECK_DEADLOCK FALSE` stands where the bounded system stops: when all jobs have
ended and all clients are gone, when the requests are used up, or when the
video's row has been erased.

### Fairness

* `JobQueue`: the event loop runs every coroutine that can go on, so each
  worker and each `submit()` is weakly fair; the connection's thread commits what
  it was given; a service manager starts the process again; and a handler ends -
  by its own time-outs on downloads and HTTP calls. Requests, crashes and stops are
  not fair.
* `JobEvents`: the steps of the bus, and `Resume`: a send ends because the
  peer reads or the server's websocket keep-alive closes the connection.
  Nothing is assumed of clients.
* `ImportPipeline`, `BatchImport`: some job that can go on does. Requests are finitely
  many, so that no job is passed over for ever by new ones; the queue's own
  fairness is the subject of `QueuedJobsFinish`.
* `ApiClients`: time passes and each task that can go on does; the semaphore and the
  order of wake-ups are the code's, not the fairness's.
* `Auth`: every request under way goes on; `Tick` is strongly fair, because a tick
  comes between statements and the moments without one recur. `BlockedIsLetIn` is claimed
  of behaviours in which they do.

## 4. What is proved

Each theorem is about the specification TLC checks, for all values of the constants that
its module's assumptions allow; TLC evaluates those assumptions in every run. No bound of
section 3 (calls, faults, clocks, requests, ids) is used by a proof as more than a
natural number.

| module | theorem | statement | further assumption |
|---|---|---|---|
| `JobQueueProofs` | `TypeCorrect`, `PlacementCorrect`, `NoJobLostCorrect`, `InvCorrect` | `Spec => []TypeOK`, `[]Placement`, `[]NoJobLost`, `[]Inv` | - |
| | `DependenciesFirstCorrect` | `Spec => []DependenciesFirst` | - |
| | `TemplatesNeverRunCorrect` | `Spec => []TemplatesNeverRun` | - |
| | `EndsOnceCorrect` | `Spec => EndsOnce` (action property) | - |
| | `AtMostOnceCorrect` | `Spec => []AtMostOnce` | `MaxFaults = 0` |
| | `RowsTellTruthCorrect` | `Spec => []RowsTellTruth` | `MaxFaults = 0` |
| | `ImplementsLifecycleCorrect` | `Spec => ImplementsLifecycle` (refinement) | `MaxFaults = 0` |
| `TrafficProofs`, of `JobEvents` | `InvCorrect`, `LastProgressSentCorrect`, `ListedJobsEndCorrect` | `Spec => []Inv`, `[]LastProgressSent`, `[]ListedJobsEnd` | - |
| | `NothingAfterEndCorrect` | `Spec => NothingAfterEnd` (action property) | - |
| of `ApiClients` | `ClientInvCorrect` | `ClientSpec => []ClientInv` | - |
| | `GrantsWithinRateCorrect` | `ClientSpec => GrantsWithinRate` (refinement) | - |
| `ImportPipelineProofs` | `InvCorrect`, `OrganizedRowHasFileCorrect` | `Spec => []Inv`, `[]OrganizedRowHasFile` | `TitlesApart` |
| | `LibraryKeepsVideosCorrect` | `Spec => LibraryKeepsVideos` (action property) | `TitlesApart` |
| `BatchImportProofs` | `InvCorrect`, `TwinsFromRacesCorrect`, `NoneStrandedCorrect` | `Spec => []Inv`, `[]TwinsFromRaces`, `[]NoneStranded` | - |
| `VideoFilesProofs` | `BasicsCorrect` | `Spec => [](TypeOK /\ OneFileEach /\ ThumbHasRow)` | - |
| | `InvCorrect`, `RowFindsFileCorrect` | `Spec => []Inv`, `[]RowFindsFile` | - |
| | `FilesOutliveMovesCorrect` | `Spec => FilesOutliveMoves` (action property) | - |
| `StorageProofs`, of `Library` | `LibraryInvCorrect` | `Spec => []Inv` | - |
| | `WholeWhenQuietCorrect` | `Spec => []WholeWhenQuiet` | `"untag" \notin Services` |
| of `ConfigManager` | `ConfigInvCorrect`, `UnsavedIsScheduledCorrect` | `ConfigSpec => []ConfigInv`, `[]UnsavedIsScheduled` | - |
| `AuthProofs` | `InvCorrect`, `RevocationTakesHoldCorrect`, `GuessesBoundedCorrect` | `Spec => []Inv`, `[]RevocationTakesHold`, `[]GuessesBounded` | - |
| `MaintenanceProofs` | `InvCorrect`, `QuietExportIsFreshCorrect` | `Spec => []Inv`, `[]QuietExportIsFresh` | - |
| | `SchemaIsCompleteCorrect`, `ServedIsRecentCorrect` | `Spec => []SchemaIsComplete`, `[]ServedIsRecent` | - |
| | `ActsOnWhatWasPickedCorrect`, `GoodArchiveStaysCorrect` | `Spec => ActsOnWhatWasPicked` (which no run checks), `GoodArchiveStays` (action properties) | - |

The further assumptions:

* `MaxFaults = 0` of the queue: the database takes every write. With one failing write
  the three properties are false, TLC finds the counterexamples (see *Job queue* below).
* `TitlesApart` of the import chain: the paths that two videos' metadata can build are
  different. Where they are not, the organizer of one video replaces the other's file, which
  section 6 lists as not modelled; the run has one video.
* `"untag" \notin Services` of the library: nobody replaces a video's tags by an empty list.
  With that call `WholeWhenQuiet` is false, since `set_video_tags` then returns without a commit
  (section 5); the run leaves the call out for the same reason. `LibraryInvCorrect` has it in.

### Job queue

The argument is built in layers, each inductive relative to the ones below.

1. `TypeOK`, with the link between `wjob` and `wpc`.
2. `Placement`: where a job can be. `NoJobLost` is not inductive by itself: it has to be
   known that a job nobody submitted has left no trace (`FreshJobs`), that a job on
   the heap is registered, unheld and pending or cancelled (`HeapPlacement`), that a
   held job is registered and running or over (`HeldPlacement`), that a job
   `submit()` will queue is registered (`SubmitPlacement`), and that templates stay
   out of the registry until a restart puts their rows there (`RegistryPlacement`).
3. `Readiness`: whatever may still be executed - on the heap, held, about to be
   queued, or PENDING in the database, committed or not - has its dependencies
   among `succeeded`. The database is part of it because recovery queues what it
   finds there; a rollback falls back to `disk`, which satisfies it as well.
4. `Committedness`: whatever was started is neither queued in memory nor PENDING or
   WAITING in the database. This is where the commit before the handler's start
   is needed, and where a failed write breaks the property: the RUNNING row is
   rolled back, the error swallowed, the handler started, and after a crash
   recovery queues the job once more. Hence `MaxFaults = 0`; TLC finds the
   counterexample with one fault.
5. The refinement maps a job to `none`, `accepted`, `executing` or `over` (`StageOf`);
   each action is a step of `JobLifecycle` or a stutter by 1-4 and by
   `RunningStarted`, that a handler at work was started.
6. `Endings` relates a job that has been announced to its status and its worker; with it a
   step that announces a job finds it unannounced. `TrueRows` compares the rows, those of the
   connection and those on disk, with what memory knows and with what the
   registry has dropped.

### Events

`BusOrder` says where the latest progress of a job is: in a task that will still emit it, in
the pending entry, or among what was sent; and that the first two are over before the job's end
is announced, under the lock and during shutdown. `FollowersServed`: only what
was sent is received or on its way, and whoever is alive is still registered for the
jobs it was told of. With `TypeOK`, `Tables`, `ListedJobsEnd` and `ClosedIsForgotten` they are
inductive; `LastProgressSent` follows, and `NothingAfterEnd` step by step.

### Configuration

What updates change in place is a snapshot's object only if it was restored
(`LiveIsApart`), so that the others stay (`UnusedSnapshotsStay`); until the first undo, redo
or failing batch the manager and the server share one object (`OneObject`), from which
`CurrentSnapshotIsLive` and `ServerFollows` follow. The file holds coerced values
(`FileIsProper`): a restart reads back what was saved because coercing twice is coercing once.

### Library

`LibraryIInv` has three parts. `Stored`: what the connection sees and what is on disk each
satisfy `Sound`, and differ only while a transaction is open, so a rollback and a crash lead
to a sound state again. `InLine`: every call is a sequence of statements, and is once in
the line of the connection if it has any left. `Noted`: the types of the rest. `Sound` is
`TablesAgree` with the ranges of the columns, and it is preserved statement by
statement: a trigger is part of the statement that fires it, so one lemma for each helper that
changes the tables (`LinkedSound`, `RemovedSound`, ...) gives `WrittenSound`. That a statement
is of the right form when its turn comes needs the types of the programs that
`Programs`, `Then` and `After` build, among them the lists that a read is replaced by.

Here, too, the proof found a definition to repair: two alternatives of a `CASE` in `After` overlapped,
which TLC resolves by order and the language does not.

`WholeWhenQuiet` is not inductive: it says nothing while a call is under way, and what one call
has left unfinished may be settled by a statement that another still has in hand. `Whole`, which
with `LibraryIInv` is inductive, says who settles it. Unless a call failed or was cut off:

* `Tidy` is about the text of every program: a write has a commit ahead of it, a change of tags an
  export, an insertion the commit and the history row that follow at once, a read of a status its
  handler; and a history row comes right behind the status it tells, or behind the commit of the row.
* `Owed`: while connection and disk differ, somebody has a commit ahead, or is about to write a
  history row or to roll back.
* `Told`: of the callers that are about to tell a video's status, the last in the line tells the
  one that is set; if there is none, the newest history row tells it. `FirstTold`: nobody else tells
  of a video before its creator does.
* `Exported`: the file of a video has its tags, or somebody has an export of it ahead, or the
  video is in `untold`.
* `RowsKnown`: history only of videos with a row.

The proof goes once over the methods, to see that each begins as a tidy program that sets and tells
nothing yet (`Fresh`), and that a read is replaced by such a part of one. Then it goes over the
statements. Each moves its caller to the end of the line or out of it (`Moves`); it changes no
table (`Lightly`) or is a write with known effects (`Changed`) whose caller has something left to do
about it (`Left`), and each of the four conditions is kept by a lemma about either kind. Commits,
rollbacks and exports have lemmas of their own. A loop over a list of videos or tags is a
concatenation; what two programs have in common that is kept when they are joined, all
of it has (`FlattenIn`, from the first place where it would fail).

### Import chain

The invariant is about the world (`Types`; `Stored`, where files lie; `Rows`, the status of a
video and its file) and about each job by itself. `Fine` says of a job what its step implies:
which temporary file is its own (`OwnsTemp`), that the file it works on is there until it is
moved and that then there are jobs that took it (`Hands`), and what it has found or put in the
library (`Shelves`). A hand-over is the existence of a job that took the file, and jobs
are never removed, so that no induction over chains is needed. `LibraryKeepsVideos` is a case distinction over the
handlers' steps, each of which puts the file elsewhere before it removes it; what a move lands
on belongs to its own video (`Landing`), so that a copy cut short strikes at that one alone.

### Batch imports

`BatchIInv` is about the jobs, the rows and the jobs handed on (`JobsFine`, `RowsFine`,
`ChildrenFine`) and contains `TwinsFromRaces`. `Fine` says of a job by its step:

* `Placed` and `Holds`: where it is in its list, and that the row it holds is one it made or
  found for the item it is at.
* `Tally`: its three counters add up to the items it has passed, its own rows among them;
  `Foresees`: an import that was alone counts what its preview counted.
* `Gives` and `Awaits`: each row whose file it was to hand on has a job that took
  it or is still among those it will hand on, and so has each that waits for a download.
* `Unseen` carries `TwinsFromRaces` over the gap between lookup and insert: no
  untouched row is titled as the item that an import which is alone is about to write.

Jobs and rows are never removed, and what a step of one job does to the rows is bounded by
`Stays`: another job's row keeps its maker and its links, and changes its title only when
marked as touched. So each action is one lemma about the job that moves, and one
argument (`Others`) serves the rest. The attempt showed that `TwinsFromRaces`
as first stated was false with three requests: an IMVDb import of an item renames
the row it finds, whose new title another import then rightly takes for an item it has
looked up under the old one. The history variable `sought` keeps the title a row was
made for, and the property is about it.

### Files

`OpsOrder` says what a request is in the middle of, `ThumbOrder` that a row
is erased after its thumbnail; with `TypeOK` and `OneFileEach` they give `BasicsCorrect`. `FileNames` says that
files lie only where their video can have put them. `RowFindsFile` and `MissingIsLost` begin with
`NamesApart` (no two videos share the place they are found at or organised to), under which no move
meets another video's file; so do the parts of the invariant they need (`OnStage`). `CarryOrder` follows one video's file through the request that carries it, its
verification and its rollback, and `RepairOrder` the status "missing" through repairs.
Without `NamesApart` a file is lost to whatever is renamed onto it. `Solo` shows that,
where requests are served one at a time, the target that organize and restore found free is
still free when they move, and the place a rollback returns to is still empty: `soft_delete`, which
does not look, is then the only one to lose a file.

### API clients

`PromiseKept` is the refinement's invariant: what the lazy bucket would hold after a refill at the
highest rate is at most what the eager one of `RateContract` holds, so each
grant is possible there. The books of the semaphore count slots held, slots promised to
tasks that have been woken, and the counter itself; a cancelled waiter that was already
woken hands its slot on.

### Authentication

`Fine` says what a request knows at each of its steps. `Revoked` says that a token that was
logged out has its row and is forgotten by the half of the cache that would let
it in within `negative_ttl`. `Throttled` counts, per address, the failures on record and the
requests that have passed the throttle and whose password is not yet looked at
(`Guessing`): together they are never more than the requests the address may have under way and
the limit allow (`Crowd`), because each of them passed when fewer were on record. The timers of a
cache or an address are handled through their order (`InOrder`); the first of them that is
still of interest exists by the least-number principle (`LeastExists`). `Held` adds what streams
depend on: a token that is logged out is in the cache or was there when it was emptied; it
is proved on top of the others.

### Upkeep

* `MigrationOrder`: a start applies by version what `schema_migrations` lacks; until a start
  is cut off the schema holds what is recorded and what this start has done.
* `IdsGiven` and `Knows`: no row has an id that was not given out, ids only grow, and what a
  client holds of a row is what the row held when its id was given.
* `BackupInv`: who writes to which archive (`Apart`, `Owns`), and that the archives newer than the
  newest good one are shared or belong to other backups at work (`Behind`). Retention keeps
  `keep` archives, so by the pigeonhole principle it keeps a good one unless there are
  as many of those. The condition in `GoodArchiveStays` is what the attempted
  proof asked for: with three backups the files of failed or
  concurrent ones can fill the retained places, which no instance with two shows.
* `CountsInv`: an entry of a cache, or the answer of a call, lacks no edit made before it was
  asked for, and is served only while it lives. An entry stored late by a
  slow computation carries the time at which it was asked for. `CacheInv` adds that no two
  entries of a cache have one place in the order of their use, so that an eviction takes one.
* `RowsInv` and `ReadInv`: what a call holds by the step it is at (`Form`); that a list with no
  edit since it was begun has counted what its query selects and shows the page it was
  asked for (`Answers`); that with no edit since an export was begun each
  video it selects is settled, among those in hand, or on a page still to come (`Exports`).
  `PagesPartition`, the facets and `QuietExportIsFresh` follow without another induction over steps.
* Pages are reasoned about by places. `Sorted` puts a video at the place that is one more than the
  number of those ahead of it, so that the pigeonhole principle makes places and videos a
  bijection (`PlaceOnPage`, `PagesShowAll`), and division with remainder assigns each place to
  one page. For `FacetIsReachable` the clauses of a filter are shown to contribute
  independently of one another (`FilterAlone`), so that a chosen value keeps every video
  it was counted from (`ChosenClauseHolds`).
* `CatalogueAssumption` says of the requests what the routes validate (page and size are
  positive, filters are those of `VideoFilters`, a query has the fields of `VideoQuery`) and of
  the rows that they have the table's columns and that a text is `LIKE` itself.

### Model-checked only

* Liveness (`QueuedJobsFinish`, `EndIsAnnounced`, `ImportSettles`, `JobsEnd`, `SlotsInTurn`,
  `TokensFlow`, `BlockedIsLetIn`): `ENABLED` and fairness are beyond the prover.
* What a recursion computes for every input: induction over data takes an operator as a
  parameter, which no installed prover instantiates. The theorems rest on no such result: recursive
  functions and folds are used through the equations of one step, or for membership in a set that
  each step keeps, by a smallest counterexample.
* `WholeWhenQuiet` with the call `"untag"`: false (section 5).
* `AtMostOnce`, `RowsTellTruth` and the refinement of the queue when writes fail: false.

## 5. Where the code and its documentation disagree

Shown by a run (`PROJECT.json`, `findings`):

* **A dependent can wait for ever** (`queue_dependents`). A dependency counts as
  met only while the registry holds the completed job (`tasks/queue.py:746`), and the
  worker removes it right afterwards (`queue.py:728`). A job submitted after that, or
  parked again by a restart, is never promoted; `tasks/models.py:87` promises that it
  runs once its dependencies are complete.

What follows was met while modelling. The models contain the behaviour; the
properties except it by the history variables, or the instances leave out the
case, as said here; none of it has a run of its own.

*Queue.* A handler that answers a cancellation by raising `CancelledError`
(`tasks/handlers.py:723`) ends its worker (`queue.py:694`), against `queue.py:521`;
with as many of them as workers the queue stands still, so `QueuedJobsFinish` needs one
aborting job fewer than workers. A job cancelled while queued leaves by a `continue`
(`queue.py:622`) and stays in the registry; `retry_job()` accepts a cancelled job whose
handler still runs (566); cancelling all jobs of a video changes rows only
(`core/db/repository.py:3552`), the queued jobs run all the same. A recovery that fails is
logged (857-858) and the queue starts without the jobs of the last process, whose rows stay as they
were (`Start`); `submit()` does not ask whether the queue runs (319-335), so that a job may
be queued while it is down.

*Events.* A flush that began by itself and waits for a slow client can be
overtaken by the terminal event, which skips that client (`core/event_bus.py:212`;
the comment at 322 says that final progress is sent before).

*Configuration.* An undo does not reach the server: `undo()` and `redo()` exchange the
manager's object (`common/config_manager.py:790`) and nothing assigns `fuzzbin._config`, so that
`get_config()` (`fuzzbin/__init__.py:411`, "Get current configuration") gives what was
undone, and later updates do not reach it either, until a restart (`ServerFollows`,
`CurrentSnapshotIsLive`: `used`). After an undo the next update changes the restored snapshot in
place; `config_manager.py:75` calls it immutable (`UnusedSnapshotsStay`). A default is
never saved: the dump leaves out what has its default (`common/config.py:1115`) and is merged
into the file, which keeps the former value (1142); `web/routes/config.py:515` says that the
change is saved (`UnsavedIsScheduled` is about other values). `update_many` rolls back on a
`ValidationError` only (`common/config_manager.py:633`), against "atomic" at 613; a refused
batch leaves the refused values in the object the rest of the server has (662); the validated
copy is discarded and the raw value kept (547). A save that fails is logged and not tried
again (712).

*Import chain.* The semaphore that limits downloads to one (`tasks/handlers.py:27`) is
used by the pipeline and not by the chain. `shutil.move` (518) of a chain's file copies it
from `/tmp` (3327) over the library's file: when the copy fails half way, the library has
a truncated file, the clean-up (3617-3625) has removed the source, and the row may still
name that file; `LibraryKeepsVideos` names this case and no other. `organize_failed` is set "(allow retry)"
after the file a retry needs has been removed (3627); with edited metadata a row can
name a path from which a later job moved the file away, which is why
`OrganizedRowHasFile` is claimed for unedited videos only.

*Batch imports.* `imvdb_video_id` and `youtube_id` are unique over deleted rows too, while
lookups skip those; the LIKE lookup takes "Hello" for "Hello World"; the "transaction"
of the NFO and Spotify imports is not one (see *Library*); a progress callback raises
`CancelledError` in the middle of a batch, whose post-processing is then never
submitted; a failed item leaves its row; a list import overwrites the status of a
downloaded video. Some handlers never succeed: `handle_import` of YouTube addresses, which
reads `ytdlp_path` of the whole configuration (2581, `ytdlp_client.py:120`), jobs submitted as `VIDEO_POST_PROCESS`
without `temp_path` (774, against 3421), metadata enrichment, which reads
attributes of dicts, and refresh, whose keyword arguments do not exist. The models count
their items as failed or skipped, as the code does.

*Files.* The trash overwrites what it holds: `soft_delete` renames onto whatever
the trash already has under the same name (`core/file_manager.py:921`), so that of two videos
organised to the same path and trashed one after the other the first loses its file for good,
and restoring its row brings up the other's; `web/routes/bulk.py:214` and 216 speak of a
soft delete that "can be restored" and of files "moved to trash", `web/routes/files.py:329`
of restoring them (`FilesOutliveMoves` names the case). `soft_delete` and `restore` are not rolled back when the
row cannot be updated (925). Requests that move one file to and fro at the same
time can leave the row pointing at nothing. The check that a target is free
precedes the move by several awaits (787). Restoring a row alone leaves
its file in the trash; erasing a row alone leaves its thumbnail.
`resolve_duplicates` accepts the video to keep among those to remove, and two of them with
different keepers remove every copy. A repair sets "missing" from a report that
is old by then, and nothing takes it back. A thumbnail made during an erasure stays; one
that vanishes during it (ffmpeg removes what is late or too large) makes the erasure fail
after the file is gone.

*Library.* Methods called inside `transaction()` commit it, so that the bulk operations
(`repository.py:2230`, `web/routes/bulk.py:148, 263, 341`: "single transaction") and
`update_decade_tag` (1901: "Atomically") are not atomic. `BEGIN` fails while
another call has a transaction open, and the error path then rolls back the other's work
(127-149), whose caller reports success. `update_video` may write the status it read
over a newer one without a history row (516-544); it changes deleted rows, too (491-494). An
export that fails, or whose job cannot be submitted, is logged and no more
(`tag_service.py:55-60, 88-94`), and the imports' `auto_add_decade_tag`
(`tasks/handlers.py:1105, 2965, 3107`) is followed by none: the .nfo file differs
from the tags until the next one. `bulk_apply_tags(replace)` may fail on a
tag that its own trigger dropped, `add_video_tag` on one deleted since it was looked up;
failed writes leave the transaction open. A hidden artist or collection
keeps its name, which can then not be inserted again. Deleting a tag exports no .nfo
file. Callers read what others have not committed. `set_video_tags` with an empty list never
commits (1621-1656), and the route for tags passes an id where a name is
expected (`web/routes/tags.py:142`): the "untag" call is defined in `Library` and not
offered in the run, because `WholeWhenQuiet` fails for it. `web/routes/collections.py:200` calls a
method that does not exist.

*API clients.* A retry takes no token, so that `GrantsWithinRate` is about first
attempts; a cached client charges the bucket after its request; each
job makes a client with a bucket of its own (`Renew`). `RateLimiter.acquire` (103-136) keeps
no line: a newcomer may take the token that another call sleeps for, and while others keep
calling one call may wait for ever, which is why only `TokensFlow` is claimed of the bucket.
A header of 0 makes the rate zero (`discogs_client.py:229`): calls then end in a
`ZeroDivisionError` (`rate_limiter.py:123`) until the client is made anew, since a rate of zero is
never adjusted.

*Authentication.* Two first logins may race and bind the later identity over the earlier one
(`web/routes/auth.py:895`), against `tests/api/test_oidc_auth.py:415`; `raced` excepts it. A revoked token opens a stream:
`_authenticate_websocket` (`web/routes/websocket.py:458`) and `stream_video`
(`web/routes/videos.py:985`) ask the cache of the denylist and not its table, so that a restart or a
password change lets a logged-out token in; `web/routes/auth.py:432` says that it cannot be used
again (`RevocationTakesHold` excepts `forgotten` tokens there).
After a refresh the old refresh token stays good, though the answer calls it rotated.
`revoke_all_user_tokens` empties a cache only. `cleanup_expired_tokens` compares ISO
times with `datetime('now')` as text. Two requests may both set the initial
password. The OIDC provider caches its discovery before it has validated it.

*Lists, exports, upkeep.* A late computation may replace a newer count in the cache; an
export that read a row earlier may write its .nfo last, and one that fails is counted
(`tasks/handlers.py:4639`) and leaves the old file or a part of the new (`WriteFails`; both `late`).
Pages by OFFSET skip videos when others are deleted between two of them; the job's query
has no ORDER BY (`tasks/handlers.py:4603-4606`), so that its pages follow one another only because SQLite
scans the table by row id, which the model takes as the order. `get_facets` counts deleted videos
in its total. Rows of `scheduled_tasks` are never run by a scheduler, only on
request. Two backups of one second share a file, and the
failing one deletes the other's; with `retention_count` = 1 and two workers a backup may
delete the only good archive (which `GoodArchiveStays` excepts: the run has just this retention,
and `GoodArchiveStaysCorrect` is for every one); a backup that was stopped leaves a valid but incomplete
archive, which `verify_backup` accepts although `web/routes/backup.py:181` says that it checks for the
expected files. Migrations 002 and 004 add columns and cannot be repeated: a crash
inside one leaves a database with which the server never starts again
(`cut`, `refused`). `handle_trash_cleanup` (3952) and
`handle_cleanup_job_history` (4013) do not await `fuzzbin.get_repository()`: each of
their runs fails, and neither trash nor history is ever purged.

## 6. Not modelled

Left out of the modelled parts:

* Queue: parsing of cron expressions (a template is due when it likes), the
  contents of jobs and results, statistics.
* Events: authentication, message formats, the REST side of the job list.
* Configuration: reload callbacks (no code registers any), the types of values
  beyond valid, coerced and refused.
* Import chain: the probe's data; two videos whose metadata build the same path.
* Batch imports: the IMVDb branch of `handle_import`, which raises a `TypeError`, duplicate resolution by job, which reads attributes of dicts, and the batch
  download whose files are named by the title alone; `services/import_service.py` and the
  non-streaming NFO import, which nothing calls.
* Files: the .nfo beside the video, the copy that replaces a rename between file
  systems, a custom restore path, the search for duplicates and the readings of trash
  and statistics (no state), `cleanup_old_trash` (its one caller fails before it),
  `backfill_imvdb_urls`.
* Library: columns no property tells apart; `create_with_artists`, which nothing calls.
* API clients: endpoints, `try_acquire` and `clear_cache`, which nothing calls.
* Authentication: what is inside a signed token; `is_active`, which never changes.
* Catalogue, Maintenance: the PATCH of a scheduled task (one UPDATE), `clear_caches`; the
  restore of an archive, which the command line does while the server is down.

Components that are not modelled, and why:

* *Parsers and data models*, *path organizer*, *text, path and genre helpers*: functions without
  state on text, whose wording no property of the system depends on; they appear as constants
  (`Titles`, `Target`, `Longer`, `Versions`, `Like`).
* *Enrichment services* and the previews of `web/routes/add.py`: requests to other services
  and a choice among their answers; they change nothing.
* *External tools*: processes. What they leave in the file system is a choice in
  `ImportPipeline` and `VideoFiles`.
* *Job metrics*: figures computed from the registry for one answer.
* *Schemas* of requests and responses, *middleware*, *logging*: formats.
* *Web frontend*: another program in another language; its reconnecting websocket
  client is the one part with behaviour of its own.

## 7. Plan

Done: the modules of section 2 with their runs, and the theorems of section 4.

Next modules: the composition of `ImportPipeline` with `VideoFiles` (the organizer of
a chain against the requests on the same row), the .nfo file that moves with its video, and the
frontend's websocket client with its reconnection against `JobEvents`.
