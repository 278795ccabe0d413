# GeoStream: TLA+ specifications

GeoStream accepts video rendering jobs over HTTP, keeps them in a PostgreSQL
table, hands their ids to a pool of worker goroutines through a bounded queue,
has each one rendered by a Python service or script, and publishes the video.
Workers hold jobs under leases; sweeps take jobs back from workers that are gone.

These modules model the job life cycle, which carries the correctness of the
system; several nodes over RabbitMQ; the renderings of a job with their files,
progress and client stream; the tile cache; the frame arithmetic; and the circuit
breaker in front of the renderer service. TLC checks them on small instances, and
TLAPS proves the main safety properties for every value of the constants. Paths
below are relative to the repository.

## 1. Inventory

| Component | State | Operations | Interacts with | Hard behaviour |
|---|---|---|---|---|
| Job repository, `internal/model/job_repo.go` | the `jobs` table | insert, claim (CAS), verify, extend lease, complete, fail, recover, delete, progress | called by handlers, workers, heartbeats, sweeps | lost answers; stale callers; each statement is atomic, no two are |
| Pipeline, `internal/worker/pipeline.go` | worker goroutines, `jobCancels`, heartbeats, contexts | worker loop, processJob, abort, recovery sweeps, shutdown | repository, queue, renderers, video store | every interleaving of the above; lease expiry; crashes |
| Channel queue, `internal/queue/channel.go` | a buffered channel | publish, consume, close | handlers and sweeps publish, workers receive | capacity; send after close |
| RabbitMQ queue, `internal/queue/rabbitmq.go` | broker queue, bridge goroutine, bounded channel, depth | the same | the same | acknowledgement before processing; length limit; blocked bridge |
| Create and delete handlers, `internal/handler/job_handler.go` | none of their own | admission count, insert, submit; abort, delete video, delete row | repository, queue, pipeline, store | several steps of which any may fail or be overtaken |
| Server process, `cmd/server/main.go` | contexts, signal handling | boot, shutdown | all | order of boot and shutdown; restart |
| Circuit breaker, `internal/worker/circuit_breaker.go` | state, count, time of last failure | Allow, RecordSuccess, RecordFailure | shared by all workers through one renderer client | lock upgrade in Allow; late results |
| Renderer clients, `internal/worker/*renderer_client.go` | a breaker each | Render | breaker, service | which outcomes count as failures |
| Video store, `internal/worker/s3.go` | one object per job | upload, presign, delete | workers, delete handler | stale and racing writes |
| SSE progress, `internal/handler/sse_handler.go` | one poll loop per client | poll | `jobs` table | when does the stream end |
| Tile cache, `services/renderer/cache.py` | Redis and a directory | get, set, backfill | renderer threads and processes | non-atomic writes, expiry, partial failure |
| Compositor and script, `services/renderer/compositor.py`, `scripts/generate_video.py` | frame plan, output file | render, re-encode, report progress | cache, WMS | integer arithmetic, shared output path |
| Orbital tracker, `scripts/orbital_tracker.py` | none | propagate, clamp-and-shift box | compositor | edges of the map |
| Authentication, queries, metrics, configuration, generated code | | | | nothing that takes several steps |

What makes each of them correct:

* **Repository and pipeline**: only the claim in force finishes a job; a stale
  worker changes nothing; no job is lost between table, queue and workers; a
  job does not stay PROCESSING for ever; an abort hits the right call; a job
  completed with an S3 URL has its object.
* **Queue**: bounded; hands each id out once; keeps moving.
* **Shutdown and restart**: shutdown ends; a restart takes over what was left.
* **Breaker**: the count agrees with the state; a healthy service is used again.
* **RabbitMQ**: an accepted job is on its way to a worker, or a node that starts
  will find it, or it was lost in one of a few named ways; redelivery never gives
  one job to two workers; a user's active jobs stay near the limit.
* **Renderings**: a video published by a rendering nobody disturbed is whole;
  a completed job shows all of its frames; a client's stream ends, and with the
  outcome that stands.
* **Frame plan**: every planned step runs; progress is what was written; the
  viewing box stays on the map around the satellite.
* **Tile cache**: torn, mixed and undecodable tiles do not stay.

`PROJECT.json` lists all components with their status, and the hazards of this
code, each at the line where it bites with the properties that would catch it.

## 2. Modules

```
                                            ┌── MCPipeline           (TLC)
JobRepo ─┬─ Pipeline ── PipelineProperties ─┴── PipelineProofs ─┬── PipelineTicketProofs
         │                    │ INSTANCE                        └── PipelineRefinement
         │               JobLifecycle
         │                    │ INSTANCE
         ├─ Ingest ──── IngestProperties ───── IngestProofs
         │    └ RabbitQueue   │ INSTANCE (JobLifecycle)
         └─ Render ──── RenderProperties ─┬─── MCRender              (TLC)
              └ FramePlan                 └─── RenderProofs
                  └ FramePlanProofs ───────────┘
TieredCache ── TieredCacheProofs
CircuitBreaker ── CircuitBreakerProofs
```

### JobRepo: the jobs table

One operator for the WHERE clause and one for the SET list of each statement of
`job_repo.go`. A row keeps `status`, `worker` (worker_id), `lease`, `version`,
`retry` and `url`. `lease` abstracts lease_expiry to unset, in the future, or in
the past. Timestamps, request parameters and progress counters are left out: no
guard reads them. CANCELLED is left out because no reachable code writes it
(`checkCancelOrError`, pipeline.go:421-441, is only called with an error and
returns before the cancellation branch).

### Pipeline: the orchestrator

One server process over the table and the video store, through crashes,
shutdowns and restarts. A step is one SQL statement, one queue operation, one
call to a renderer or to the store, or one cancellation; anything may happen
between two of them.

| Variable | In the code |
|---|---|
| `jobs`, `video` | the jobs table; who last wrote the S3 object `videos/<id>.mp4` (the local files are in `Render`) |
| `queue` | `ChannelQueue.ch` |
| `life`, `epoch` | where `main()` is; the process incarnation (worker ids carry a fresh uuid, pipeline.go:104) |
| `todo` | ids a sweep has obtained and not yet published |
| `pc`, `cur`, `aborted`, `beat` | per worker goroutine: next statement of `processJob`, its jobID, its job context cancelled by `AbortJob`, its heartbeat running |
| `cancels` | `Pipeline.jobCancels` |
| `create`, `delete` | per job, progress of its create and delete requests |
| `stamp`, `parked` | history: the version a call's claim wrote; the ids left PENDING with nobody to publish them |
| `faults`, `stops` | bounds |

| Actions | Code |
|---|---|
| `Receive`, `ReceiveAndExit`, `WorkerExit` | `worker`, pipeline.go:102-124 |
| `ClaimWon`, `ClaimRefused`, `ClaimError`, `ClaimAnswerLost` | CAS pickup, 137-142 |
| `LoadJob`, `LoadError` | GetJobByID and startHeartbeat, 144-154 |
| `RenderOk`, `ServiceError`, `SubprocessError` | the fallback chain, 156-185 |
| `MarkJobFailed`, `MarkFailedError` | 148, and `checkCancelOrError` 421-426 |
| `OwnershipValid`, `OwnershipLost`, `UploadOk`, `UploadError`, `MarkJobCompleted`, `MarkCompletedError` | 187-216 |
| `Heartbeat`, `HeartbeatStop`, `LeaseExpires`, `LeaseLapses` | `startHeartbeat` 396-419 and the clock |
| `StartupReclaim`, `StartupFetch`, `StartupFetchError`, `StartupDone` | `StartupRecovery` 467-492 |
| `ScheduledSweep`, `SweepAnswerLost`, `PublishRecovered`, `SkipRecovered` | `StartScheduledRecovery` 495-519 (the last two also publish for the startup sweep) |
| `InsertJob`, `InsertAnswerLost`, `SubmitJob`, `SubmitRefused` | `CreateJob`, job_handler.go:134-171 |
| `AbortJob`, `DeleteVideo`, `DeleteRow`, `DeleteRowError` | `DeleteJobHandler`, job_handler.go:205-227 |
| `ShutdownServer`, `CancelContext`, `CloseQueue`, `Exit`, `SweepPanics`, `Crash`, `Restart` | main.go:231-252, `GracefulShutdown` 443-463 |

Contexts matter and are kept apart: claim, load, verify and upload run on the
pipeline's context (`CtxDone`), rendering, completion and the MarkFailed after a
render error on the job's own (`JobCtxDone`), heartbeats' statements and the
scheduled sweep on a context that is never cancelled.

Without S3 the video is the local file that renderings open, truncate, rename
and re-encode step by step; that is the subject of `Render`, and here `RenderOk`,
`ServiceError` and `SubprocessError` say nothing of it.

Simplifications:

* taking an id from the channel and storing the cancel function is one step:
  the code between only logs;
* a completion and the deferred calls of `processJob` are one step, and a
  heartbeat tick in flight when its call returns is ordered before the return;
* ids of one sweep are published in any order;
* an `ErrCircuitOpen` or a service error is the same `ServiceError`: the next
  renderer is tried. `UseService` stands for gRPC or HTTP: main.go:132 creates
  the HTTP client only when there is no gRPC client, so the chain has at most
  one service and the subprocess;
* a failed DELETE of the object, a request aborted by its client, and a
  statement cut off by its context are database or store errors;
* deletes come from the owner of the job, and after a successful delete there is
  no second one.

### JobLifecycle: the abstract specification

What table and pool promise together: a job is worked on under a claim, the pair
of the job and the round the claim opened; a newer claim or a recovery makes it
void; only the claim in force finishes the job; a finished job changes no more
until it is deleted. `PipelineProperties` instantiates it with the row status as
`phase`, the row version as `round`, and `<<cur[s], stamp[s]>>` as the claim of
a call that is past its own. `IngestProperties` does the same for nodes, and
`RenderProperties` for the calls of one job: there a recovery lies between two
claims, so the c-th claim opens round 2c - 1 and no history is needed. `Render`
begins after the INSERT, so what it shows is that every *step* is one of the life
cycle.

### CircuitBreaker

A step is one critical section of `cb.mu`. `Allow` has two when it moves the
breaker to HALF_OPEN (circuit_breaker.go:61-67: it gives up the read lock before
it takes the write lock), so a caller in `upgrading` may find any state.
`cooled` abstracts the comparison of lastFailureTime with the cooldown. A call
ends in success, in a failure of the service, in the cancellation of its own job
(`CallCancelled`; renderer_client.go:109-112 records it as a failure), or in
nothing recorded (`NotSent`, 92-99).

### RabbitQueue and Ingest: several nodes

`RabbitQueue` is the queue of `rabbitmq.go`: the broker queue (`ready`) and, per
node, its connection and bridge goroutine (`link`), the delivery in the bridge's
hand (`held`), whether it is already in the channel (`sent`), and the channel
(`jobChan`). The broker is external and modelled from what the code asks of it:
x-max-length with the default overflow (drop-head), persistent messages, manual
acknowledgement, prefetch 1 (so one delivery in hand), publishes without confirms.
A broker that serves a waiting consumer before it accepts the next message is the
one assumption about its speed (`Quiet`): with a slower one messages are dropped
although a consumer waits.

| Actions | Code |
|---|---|
| `Publish`, `PublishError`, `PublishUnsent` | `Publish` 94-119: accepted, on a dead connection, written to a connection that breaks |
| `Deliver`, `Forward`, `Ack`, `CloseChan` | the goroutine of `Consume` 137-169 |
| `Take` | a worker's receive |
| `Cut`, `Leave`, `Connect` | the connection or the process is lost; a new process dials |

`Ingest` composes it with the jobs table (`JobRepo`), the create handler from the
count of active jobs on, one worker per node, leases, and both sweeps of every
node. COMPLETED stands for FAILED too; the inside of a call, deletes and graceful
shutdown are in `Pipeline`.

| Actions | Code |
|---|---|
| `CountJobs`, `TooManyJobs`, `InsertJob`, `InsertError`, `SubmitJob` | `CreateJob`, job_handler.go:85-171; an INSERT may fail, or succeed and lose its answer |
| `Receive`, `Claim`, `ClaimError`, `WorkerExit` | pipeline.go:102-142; when the claim fails its message has long been acknowledged |
| `Finish`, `FinishError` | the last statement of `processJob`, or its failure |
| `LeaseExpires`, `LeaseLapses` | heartbeat and clock |
| `StartupReclaim`, `StartupFetch`, `StartupFetchError`, `StartupDone` | `StartupRecovery` 467-492: a failed reclaim is logged, after a failed fetch nothing is republished |
| `ScheduledSweep`, `SweepAnswerLost`, `Republish` | 495-519: a sweep may reclaim rows and never learn their ids (505-508) |
| `ConnectionLost`, `Crash`, `Restart` | faults of a node |

`crowd` (the most requests that were ever between count and insert), `lost` (ids
the broker dropped or a connection took with it) and `parked` (ids left PENDING
with nobody to publish them) are history.

### FramePlan: the arithmetic

`compositor.py:211-274, 356-364` and the same lines of `generate_video.py`: steps,
dates, frames per step, reported progress; the orchestrator's cap of 300 frames;
and the box of `compute_tracking_bbox`. Times are whole seconds and the quotient
`time_range / total_steps` is exact; Python rounds it to a microsecond, which
cannot move a step across 23:59:59 because the spread steps end a whole step
before it. Angles are in units of 1/10000 degree, the precision the code returns.

### Render: what overlapping renderings do

All claims of one job (`Call`, in their order) and the renderings they start: one
by the service, one by the script. The two paths `<id>.mp4` and `<id>_raw.mp4`
are names (`dir`) of files (`content`: partial, whole, mixed), and a rendering
writes to the file it opened (`sink`) whatever it is called by then, as POSIX does.

| Actions | Code |
|---|---|
| `OpenWriter`, `DrawStep`, `RenderRaises`, `Release` | compositor.py:236-366 |
| `MoveAside`, `EncodeStarts`, `EncodeRefused`, `EncodeOk`, `EncodeFails`, `RemoveRaw`, `Restore`, `LookForRaw` | compositor.py:368-392, generate_video.py:382-406, each error handler included |
| `Claim`, `ServiceAnswers`, `ServiceGivenUp`, `ServiceCancelled`, `ScriptOk`, `ScriptFails`, `Verify`, `Complete` | pipeline.go:126-216 |
| `StatementFails` | the error branches of `MarkFailed`, the verify and the completion: the call returns |
| `ReadProgress`, `ProgressLost` | the scanner loop 372-379 and `UpdateProgress`, whose error line 377 drops; `missed` is history |
| `KillScript`, `OrphanEnds` | exec.CommandContext (354) kills the script; its ffmpeg goes on |
| `AbortJob`, `RemoveVideo`, `DeleteRow` | `DeleteJobHandler` with local files |
| `Poll` | the tick of `StreamProgress`, sse_handler.go:64-103 |

Assumed: the service and the script see the same `videos` directory, and the
client of the stream stays. `frame_count` is a column that `UpdateProgress`
rewrites with what the script was asked for, so what is asked of a later
rendering (`Asked`) is read from `shown.total`. When a rename of the fallback finds
no file, compositor.py tries it once more on its way out (382, 388); the two are
one step of `Restore`.

### TieredCache: one tile

One tile's file and Redis value, and any number of threads in `fetch_wms_image`
(compositor.py:40-106 with `cache.py`; the script's own copy, generate_video.py:25-97,
is a fetcher without Redis). Two requests of one URL may be answered with different
bodies (`Body`): a server that is not GIBS is asked without TIME and serves live
data (generate_video.py:28). Some bodies are no images (`Body` without `Good`):
such a body is cached first, then decoded, and then the next attempt is made, so it
stays in Redis and in the file (compositor.py:91-100).

A copy says for each piece which body it came from. Opening for writing empties
the file and each writer fills in its own pieces, so overlapping writers leave
holes, and mixtures when their bodies differ. All bodies have the same number of
pieces: a longer body's tail that a shorter one leaves behind is a mixture like
any other. All errors the code swallows are steps: Redis, disk, request, retry, a
killed process. `cutOff` (a write was broken off), `mixed` (the last open met a
writer of another body) and `exposed` (a torn file was read) are history.

## 3. What TLC checks

| Run | Instance | Properties | What it shows |
|---|---|---|---|
| `pipeline_stale` | 1 job, 2 workers, queue of 1, S3, subprocess, deletes, 2 faults, 1 stop | `Fenced`, `OneTicket`, `CompletedHasVideo`, `RetryCountsFailures`, `OnlyClaimantFinishes`, `ImplementsLifecycle` | stale calls, in every order with new ones, change nothing; the pipeline refines the life cycle |
| `pipeline_pool` | 2 jobs, 2 workers, queue of 1, service then subprocess, 1 fault, 1 stop | `TypeOK`, `OneTicket`, `AbortHitsItsJob` | a full queue, jobs crossing over between workers, the cancel map |
| `pipeline_live` | 2 jobs (one may be deleted), 1 worker, queue of 1, service then subprocess, 1 fault, 1 stop (154 000 states) | `QueueMoves`, `ShutdownEnds`, `AcceptedFinishes`, `NeverStuckProcessing` | the queue drains, accepted jobs finish, shutdown ends; leases, sweeps and restarts get every job out of PROCESSING |
| `breaker` | 3 callers, threshold 3, at most 6 failures and 2 cancelled calls | `TypeOK`, `CountMatchesState`, `RecoveredServiceIsUsed` | racing upgrades and late results; deadlock is checked too |
| `ingest` | 2 jobs, 2 nodes, broker queue and channels of 1, limit 1, 1 fault, 1 database error (1.2 million states) | `TypeOK`, `NothingForgotten`, `AdmissionBounded`, `ImplementsLifecycle` | admission, delivery and recovery across nodes |
| `ingest_live` | 1 job, 2 nodes, 2 faults, 2 database errors (385 000 states) | `AcceptedFinishes` | what is accepted is finished, but for the named ways to lose it |
| `tiles` | 2 fetchers with Redis, an image and a body that is none, 2 pieces, strict decoder, 4 faults (317 000 states) | `TypeOK`, `SettledIsWhole`, `RedisTornByPromotion`, `TornHeals` | where torn and mixed tiles come from, and that no bad tile stays; deadlock is checked too |
| `render` | 2 calls, service for the first, 2 frames over 3 days, 1 fault (197 000 states) | `TypeOK`, `SoleRenderingIsWhole`, `CompletedShowsAllFrames`, `ToldTheOutcome`, `ProgressGoesBackOnlyWithACall`, `FollowsLifecycle`, `StreamEnds` | overlapping renderings, progress, stream, and the life cycle of the job under them |

* `Fenced`: a worker that its row still names holds the row's newest claim. No
  statement compares the version, so this is what makes worker_id a fence.
* `OnlyClaimantFinishes`: a job is finished only while a call holds the claim in force.
* `OneTicket`: an up and running process holds a PENDING job exactly once
  (queued, about to be published, received and not claimed) unless it parked it,
  and holds no other job. `parked` records each place where the code lets a
  PENDING id go: a full or closed queue, a lost answer, a failed claim, a
  worker that exits with an id in hand, the end of the process.
* `AbortHitsItsJob`: the cancel function stored under an id belongs to a call of that job.
* `CompletedHasVideo`: a job completed with an S3 URL that nobody asked to delete
  has its object, whichever claims' uploads succeeded, failed or came late. Nothing
  of the kind holds of local files (see section 4).
* `RetryCountsFailures`: a pending or running job has `retry_count` 0, a failed one
  1, whatever lapses, recoveries and stale workers there were. So the limit of the
  sweeps (job_repo.go:210, 237) strands no job, CHECK `valid_retry` never refuses a
  MarkFailed, and, as the other side of it, nothing ever stops the recovery of a
  job that takes its process down each time.
* `ImplementsLifecycle`: every step is a step of JobLifecycle or leaves phases,
  rounds and claims alone.

* `NothingForgotten`: a job answered 202 and PENDING is in a message, a channel or
  a worker's hand, or a node that is down or starting will republish it, unless
  its message was pushed out of the full broker queue or lost with a connection
  (`lost`), or its claim, the startup fetch or the republishing that should have
  carried it failed, or a sweep never learnt that it had reclaimed it (`parked`).
  Acknowledging before processing (rabbitmq.go:165) does have a price: a crash that
  loses the channel is followed by a restart that reads the table, but a claim that
  fails (pipeline.go:138-142) leaves its job PENDING until some node starts.
* `AdmissionBounded`: count-then-insert exceeds the limit by at most the requests
  that were between the two at one time.
* `AcceptedFinishes` (Ingest): with those exceptions, and as long as some node has
  a connection or will get one, an accepted job is finished. A job that was parked
  and later found by a starting node is no exception any more.
* `SettledIsWhole`: whatever the order in which writers open, fill and close one
  file, it has no hole when the last is done, unless a write was broken off. It is
  then one of the bodies, unless the last open met a writer of another body: with
  live data a mixture is possible although nothing failed, and only so.
* `RedisTornByPromotion`: Redis holds part of a body, or a mixture, only after such
  a file was read.
* `TornHeals`: a torn or mixed file, or one that holds a body that is no image, is
  replaced by an image as long as somebody goes on fetching, now and then nobody
  writes, and writers of different bodies do not meet for ever. Bodies that are no
  images count as faults, so they are finitely many.
* `SoleRenderingIsWhole`: a rendering that succeeded while no other one and no
  delete touched the paths leaves a whole video and no raw file, whatever earlier
  ones left behind and whichever way its ffmpeg ended.
* `CompletedShowsAllFrames`, `ProgressGoesBackOnlyWithACall`: with one reporting
  call the completed row shows the last line of the script, unless the database
  refused the update for just that line (pipeline.go:377 drops the error; nothing
  repeats the update); progress goes back only when another call starts to report.
* `FollowsLifecycle`: also with two renderings under one call, given-up services and
  killed scripts, only the call whose claim is in force finishes the job.
* `ToldTheOutcome`, `StreamEnds`: a stream ends with the status that stands, and
  it ends unless the job goes back to PENDING or is deleted.

The `pipeline`, `ingest` and `render` runs say CHECK_DEADLOCK FALSE: a server
whose (bounded) requests have all been served is idle, and stops.

### Bounds and why they suffice

* **Two workers, one job** (`pipeline_stale`): the hazards of leases are about
  an old and a new holder of one job. With two faults a lease may lapse twice,
  so either worker may be stale, and a slot may meet its own former claim; with
  a stop the new holder may belong to the next process.
* **Two jobs, two workers, queue of one** (`pipeline_pool`): the queue is full
  with one job while another is inserted or reclaimed, and calls of different
  jobs overlap in the cancel map.
* **`Unwanted`**: the jobs a client may ask to delete. Deletes are in the runs
  whose properties they can disturb.
* **`MaxFaults`** counts lost answers, database and store errors, leases that
  run out under a running heartbeat, and the 10 s and 30 s timeouts of a shutdown
  that give up on work still running. Failures the code must handle in
  every run (a renderer's, an upload's, a cancelled context's) are not counted.
  In `pipeline_live` one fault and one stop are enough for each way into a stuck
  PROCESSING row: a lapse, a failed statement, a crash.
* **`MaxStops`** counts shutdowns and crashes.
* **`MaxFailures`, `MaxAborts`** bound the breaker's counter (twice its
  threshold) and the cancelled calls.
* **Ingest**: with two nodes one can fail while the other works; with two jobs and
  queues of one, a message is pushed out, a bridge blocks on a full channel, and
  two requests are between count and insert. `Front` (nodes that take requests) and
  `Frail` (nodes that may fail) are one node here, so that the fault hits the node
  in the middle of a request. `MaxFaults` counts crashes, lost connections and
  lapses; `MaxErrors` failed statements and lost answers. In `ingest_live` two of
  each can hit the one job: a crash and a failed startup fetch, a lapse and a lost
  sweep answer, a failed claim and a restart that finds the job again.
* **Tiles**: two writers and a reader role each, a tile of two pieces (torn and
  whole differ), an image and a body that is none, and four faults (failed
  requests, bad bodies, Redis errors, broken writes), enough for a bad body that is
  cached, promoted and met again by the other fetcher. Mixtures of two images and
  mixtures with a bad body behave alike under a strict decoder; two images and a
  bad body with three faults (725 000 states) were explored once and pass.
* **Render**: `Calls` 2 is an old and a new claim; the first has a service and a
  script rendering (`Served`), so three renderings share the paths. `Requests`
  holds one plan of two steps; the arithmetic for all plans is proved. `MaxFaults`
  counts lapses, given-up calls, failing statements and deletes.
* The symmetry of `MCPipeline` permutes jobs and slots in the two runs that
  check safety and step properties only, and in which `Unwanted` is empty or all of `Job`.

### Fairness

Weak fairness on each worker goroutine; for the stops of heartbeats, for leases
nobody extends, for submitting and for deleting handlers, and for the publishing
of a sweep, on *some* step of the group (weaker than fairness for each job: with
bounded jobs every one has its turn); on the startup and scheduled sweeps, the
shutdown, and the restart of a process that is down.
This is what the Go scheduler, tickers, statement and request timeouts, and a supervisor
that restarts the server give. One assumption is stronger than the code: a
renderer call returns. The HTTP client has a timeout of ten minutes; the
gRPC call and the subprocess have none of their own (grpc_renderer_client.go:46-99,
pipeline.go:354), so a hung service or script keeps its worker, which the liveness
runs do not show. No client request, heartbeat tick, fault, crash or
shutdown is assumed to happen.

The breaker runs under weak fairness of its callers and of the cooldown, and
strong fairness of each caller's recorded success (again taking it that calls
return): a caller that calls a healthy
service again and again does not fail to build its request every time. Cancelled
calls are finitely many (`MaxAborts`); an endless series of deletes could keep
the breaker open, since each counts as a failure.

`Ingest`: weak fairness of each node's worker, bridge and sweeps, and of some
restart, some request past its count, and some expiring lease. `TieredCache`:
weak fairness of each fetcher inside a fetch, and of the expiry of the Redis value
(a time to live of 24 hours); that somebody fetches, that writers pause, and that
writers of different bodies do not meet for ever are premises of `TornHeals`
itself. `Render`: weak fairness of some rendering step, some call step, the expiry of a lease, the sweep and the tick.

`AcceptedFinishes` of the pipeline is stated for behaviours without faults and stops, because a
lost claim or an interrupted sweep parks a job. It says that handler, queue,
workers and sweeps lose nothing *between* them.

## 4. Where the repository says otherwise

Each of these runs ends in a counterexample to what a comment or the README says.

| Run | Statement | What happens |
|---|---|---|
| `duplicate_rendering` | README.md:69 "zero risk of duplicate processing" | a worker that lost its lease renders on next to the new holder (pipeline.go:409 says the heartbeat "should technically cancel"). The outcome is still fenced |
| `parked_forever` | job_handler.go:160-161 a refused job sits as PENDING and "the startup/recovery sweep can enqueue it later" | the scheduled sweep looks at PROCESSING rows only; it takes a restart |
| `deleted_video` | job_handler.go:176 the delete removes the video | an upload in progress is not aborted and puts the object back after the row is gone |
| `rabbit_overflow` | queue.go:19 "Returns error if queue is full (backpressure)", rabbitmq.go:65 | the broker drops its oldest message; the publish succeeds and the job, answered 202, stays PENDING until a restart |

Further places, without a run of their own. The first four are stated in the
modules next to the others, and TLC refutes them when they are given to it:

* main.go:245 says the workers "finish in-flight jobs"; `GracefulShutdown` cancels
  the context first (pipeline.go:445), and rows stay PROCESSING until their lease
  runs out (`DrainFinishesInFlight` in PipelineProperties).
* circuit_breaker.go:18 and 72 speak of a single test request; HALF_OPEN admits
  every caller until a result is recorded (`SingleTestRequest`).
* cache.py:27-28 says disk writes are atomic; 96-97 write in place, and a reader
  can be given part of a tile (`HitsAreWhole` in TieredCache).
* compositor.py:362 says progress is consumed by the pipeline or FastAPI; of a
  rendering by the service nothing is consumed, and its job is COMPLETED with 0
  frames processed (`CompletedShowsSomeFrames` in RenderProperties).
* generate_video.py:245 says the frames per step make the total equal args.frames;
  5 frames in 2 steps give 4. `FramesWithinRequest` has the exact bound.
* job_handler.go:94 says "maximum 5 active jobs"; count and insert are two
  statements. `AdmissionBounded` says by how much the limit can be exceeded.
* rabbitmq.go:127 says "manual acknowledgment after processing"; line 165
  acknowledges after forwarding.
* pipeline.go:178 says the subprocess fallback "always works"; when the service
  call was given up and the service renders on, both write the same paths, and a
  job may be COMPLETED with a missing or mixed video.

## 5. What is proved

For any sets of jobs and slots, any queue capacity and any number of faults,
crashes and restarts, from the named assumptions on the constants
(`QueueAssumption`, `ModeAssumption`, `BoundAssumption`, `NoneAssumption`,
`UnwantedAssumption`; for the breaker `ThresholdAssumption`, `BoundAssumption`; for
Ingest `BufferAssumption`, `NodeAssumption`, `LimitAssumption`, `FrontAssumption`,
`JobAssumption`, `BoundAssumption`; for Render `CallAssumption`, `RequestAssumption`,
`ServedAssumption`, `FaultAssumption`, `NoneAssumption`; for the cache `PartsAssumption`,
`FetcherAssumption`, `BodyAssumption`, `BoundAssumption`, `NoneAssumption`):

| Theorem | Says | Inductive invariant |
|---|---|---|
| `PipelineProofs!TypeCorrect` | `[]TypeOK` | `TypeInv`: `TypeOK` and `Busy` (a slot has a job exactly while in a call; only a claimed call beats; a process that is down runs nothing). `Busy` is what makes `cur[s]` a job when a step reads its row |
| `PipelineProofs!FencingHolds` | `[]Fenced` | `Inv`: `TypeInv` and `Fenced`. A step that changes the version of a row either clears its worker, ends PROCESSING, or is the claim that sets the stamp; `HarmlessOwner` and `FencedIfHarmless` treat all other steps at once |
| `PipelineProofs!OnlyClaimantFinishesHolds` | the action property | `Inv` at the step: the finisher is named by the row, so its stamp is the row's version |
| `PipelineProofs!AbortHitsItsJobHolds` | `[]AbortHitsItsJob` | with `TypeInv`: every return deletes the entry of the slot's own job, so an entry never outlives its call |
| `PipelineProofs!CompletedHasVideoHolds` | `[]CompletedHasVideo` | `VideoInv`: in addition `LeftVideo(s)`: a call about to complete with the S3 URL has left an object, or somebody asked to delete it |
| `PipelineTicketProofs!OneTicketHolds` | `[]OneTicket` | `TicketInv`: per job, the books (`OneTicket`, case by case) and the past they rest on: an id is inserted once, a row is deleted where there was one, only unclaimed jobs are parked, failures are counted. Tickets are cardinalities: of positions in the channel (a publish or receive changes them by one) and of the slots about to claim (finitely many although `Slot` may be infinite). Each step moves a ticket, spends it on a claim, issues one for a job that has none, or tears it up and parks the job; `TicketKept`, `TicketParked` and `LedgerKept` treat all steps of a kind at once |
| `PipelineTicketProofs!RetryCountsFailuresHolds` | `[]RetryCountsFailures` | the same: the startup sweep's republishing of every PENDING job needs the counts, and they need the ledger's past |
| `PipelineRefinement!PipelineImplementsLifecycle` | `Spec => Lifecycle!JSpec` | `Inv` and `Known` (an id never submitted has no row; a deletion is about a row there was). Each action maps to one abstract action or to a stutter |
| `CircuitBreakerProofs!TypeCorrect`, `CountMatchesStateHolds` | `[]TypeOK`, `[]CountMatchesState` | inductive together |
| `IngestProofs!TypesHold` | `[]TypeOK` | `TypeInv`: `TypeOK` and `Busy` (a worker past its receive has a job, a node that is down holds nothing, a request past its count has a node) |
| `IngestProofs!AdmissionIsBounded` | `[]AdmissionBounded` | `Pledged`: active rows plus counted requests are at most `Limit - 1 + crowd`, and counted requests at most `crowd`; the bound itself is not inductive, since an insert uses what an earlier count promised |
| `IngestProofs!NoneIsForgotten` | `[]NothingForgotten` | `OnItsWay`: the named ways to lose a job are explicit steps, each of which parks it or adds it to `lost`; in addition no row has retried (a failed job is final, so none does), and the delivery in a bridge's hand counts as support only until it is sent, because from then on the channel holds the id and the acknowledgement may take the delivery away |
| `IngestProofs!NodesImplementLifecycle` | `Spec => Lifecycle!JSpec` | `TypeInv`, `Fenced` (as in Pipeline) and `Known` (before its insert a request has no row) |
| `TieredCacheProofs!TypesHold`, `FileSettlesWhole`, `RedisIsTornByPromotion` | `[]TypeOK`, `[]SettledIsWhole`, `[]RedisTornByPromotion` | a piece missing from a file that was not cut off is still to be written by a writer; unless `mixed`, all writers and all pieces share one body; a torn copy in a fetcher's hand is from Redis or from a torn file. Nothing is assumed about the bodies |
| `FramePlanProofs!StepsAreBounded`, `EveryStepRuns` | the loop makes exactly `total_steps` turns: its date bound never ends it early | arithmetic lemmas on `\div` |
| `FramePlanProofs!FramesWithinRequest`, `ProgressIsFramesWritten` | at most the frames asked for are written, fewer than `total_steps` are missing; reported progress is what was written, and grows | the same |
| `FramePlanProofs!BoxOnMap` | the viewing box lies on the map, keeps its size, contains the satellite's point | cases of the shift |
| `RenderProofs!RenderTypeCorrect` | `[]TypeOK`, for every request | inductive as it stands, with `EveryStepRuns`: a turn of the loop is always within the plan. `AskedKept` says that a total which went through a script asks for the same plan again |
| `RenderProofs!ToldTheOutcomeHolds` | `[]ToldTheOutcome` | `FinalStays`: only the delete moves a row that is final or gone |
| `RenderProofs!ProgressGoesBackOnlyWithACallHolds` | the action property | `ShownByOne`: while at most one call has reported, what is shown is no more than that call's progress; `ProgressIsFramesWritten` makes the next line larger |
| `RenderProofs!CompletedShowsAllFramesHolds` | `[]CompletedShowsAllFrames` | `ProgressInv` follows a line from the script to the row: a script past its loop has printed every line, a call past its scanner has read every line, the row shows the last line of a sole reporter that nobody aborted and whose last update the database took (`missed`), and a completed row belongs to a call that returned without being aborted |
| `RenderProofs!SoleRenderingIsWholeHolds` | `[]SoleRenderingIsWhole` | `SoleInv`: a rendering has a file open exactly while it writes; a call starts each of its renderings once; the file ffmpeg is about to create has no name yet; and while a rendering is undisturbed it is the only busy one, and its place alone says what the two names hold (`Stage`): partial, whole, moved aside, half encoded. The property itself speaks of the last place only |
| `RenderProofs!FollowsLifecycleHolds` | `[][Lifecycle!JNext]` for the calls of one job | `RoundInv`: calls 1 to n have claimed, a PENDING row has version 2n, a PROCESSING row belongs to call n and has version 2n - 1. This makes worker_id stand for the claim |

Proofs are laid out alike: lemmas about rows and calls, one lemma per group of
actions (workers, jobs, process) with a step per action, and a temporal step.

## 6. What is only model-checked, and what is not modelled

Only model-checked: the liveness properties `QueueMoves`, `ShutdownEnds`,
`AcceptedFinishes` (twice), `NeverStuckProcessing`, `RecoveredServiceIsUsed`,
`TornHeals` and `StreamEnds`, because fairness and ENABLED are out of the prover's
reach. Every invariant and every step property of a passing run is also proved.

Simplified or left out of modelled components:

* RabbitMQ: messages that are not job ids and their nack (the code publishes
  none), the depth counter (read by the metrics endpoint only), and set-up
  errors, after which a node uses the channel queue of `Pipeline`.
* Pipeline: the files of local storage (in `Render`).
* Ingest: one worker per node; FAILED is folded into COMPLETED; no deletes and no
  graceful shutdown (both in `Pipeline`); a heartbeat is part of working.
* Render: the metrics file, upload to S3 (in `Pipeline`), the service's pool of
  two threads (a rendering that waits for a thread is one that has started and
  not opened its file), and a client that leaves its stream.
* Cache: the hit counters; several tiles, which share no state; bodies of different
  length.

Not modelled at all: SGP4 and image processing (numerics), WMS, CelesTrak, Redis
and S3 protocols (external), request validation, authentication, read-only
queries, metrics and configuration (no behaviour over several steps), generated
code and API documents (`internal/proto`, `docs/docs.go`), audit and streaming
scripts (stand-alone).

## 7. Plan

Done: `JobRepo`, `Pipeline`, `JobLifecycle`, `CircuitBreaker`, `RabbitQueue`,
`Ingest` (with admission), `FramePlan`, `Render` (with progress and stream),
`TieredCache`, and the proofs of all their safety properties. Left: deletes and
several workers per node in `Ingest`.

## 8. Running

```
tlc -workers 2 -config pipeline_stale.cfg MCPipeline.tla
tlc -workers 2 -config ingest.cfg IngestProperties.tla
tlc -workers 2 -config render.cfg MCRender.tla
tlc -workers 2 -config tiles.cfg TieredCache.tla
tlc -workers 2 -config breaker.cfg CircuitBreaker.tla
tlapm PipelineProofs.tla
tlapm PipelineTicketProofs.tla
```

`PROJECT.json` names the module and configuration of every run, the mutants that
show each property can fail, and the source lines of every definition.
