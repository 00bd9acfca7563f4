# A verification development of the quota and rate-limit monitors

The repository holds two Lambda functions and a Lambda extension that turn AWS
control-plane activity and quota usage into CloudWatch metrics (EMF records in
CloudWatch Logs):

* the **rate-limit function** (`cmd/ratelimit`) takes CloudTrail events from an
  SQS FIFO queue and appends them to one file per region in `/tmp`;
  `CTFileBatcher` sends the files to CloudWatch Logs by count, size and time;
* the **emf-extension** (`cmd/emf-extension`) lives in the same environment and
  is to drain the files when the environment shuts down;
* the **resource-quota function** (`cmd/resourcequota`) runs on a schedule: a
  pool of workers (`JobManager`) executes one job per region and quota, and the
  metrics go through channels to one batcher per region
  (`GenericBatchProcessor`), which ships them to CloudWatch Logs.

The modules here are translated from the Go source; `PROJECT.json` maps every
definition to its lines, lists every component, run, mutant, finding, hazard and
theorem.

## Inventory

| component | state | operations | meets others through | what makes it hard, and correct |
|---|---|---|---|---|
| `GenericBatchProcessor` | input channel, batch, byte count, ticker, context | `Add`, `Wait`, the loop (map, batch, flush) | its channel; `FlushFunc` | select over cancellation, input, close and tick; several flush paths. Limits hold on every path; nothing lost, repeated, reordered; Wait and cancellation end |
| `JobManager` | job channel, workers, context | `AddJob`, `Wait`, `worker` | the batchers' input channels | competing workers, blocking sends, cancellation at any moment. Jobs run once, metrics go out once, Wait returns |
| resource-quota handler | main goroutine | `HandleRequest`, `HandleEvent`, `fatal` | `Wait` of the pool, then of each batcher | the order of the two waits; success is returned whatever failed. Everything is shipped or reported |
| `CTFileBatcher` | a file per region, counts and sizes under a mutex, ticker, context | `Add`, `flushRegion`, ticker goroutine, `Stop` | `/tmp`, `EMFFlusher` | scan, send, truncate and reset are four steps, unordered among goroutines; a line is two writes whose errors nobody sees; `/tmp` survives the process. Bounded growth, bounded duplication, known ways to lose an event |
| rate-limit handler | the batch of the invocation | `HandleEvent`, `HandleRequest` | SQS response, `CTFileBatcher.Add` | at-least-once delivery, partial failures, crashes between append and response |
| emf-extension | client map, event loop | init, `processEvents`, drain | Extensions API, `/tmp` | runs beside the function, may leave early; its drain is the last chance of a line |
| `EMFFlusher`, `MakeFlushFunc` | client map | `Flush` | PutLogEvents | errors that callers drop |
| log group and stream setup (`cwlclient`) | - | describe, then create | all processes of an account | check-then-act against other processes. A successful setup means the group and the stream are there |
| `Logger` | one shared `log.Logger` | `Init`, `Get`, levels | every goroutine | prefix and line are two steps. A line has the prefix of its level |
| quota jobs | - | a count over paginated calls, the quota, a metric | `JobManager` | a call that fails half-way. No partial count is published |
| NAU calculator | sums in local variables | some ten listings per VPC | an account that changes meanwhile | every VPC has its own total of what was there |
| service configuration, `buildJobManager` | the lists of regions and names | load, validate, build jobs | which jobs and channels exist | two lists of names, a region listed twice. What is configured is measured |
| `safemap`, AWS clients, mocks, templates | - | look-ups, delegation | - | no logic of their own |

## Modules

| module | models |
|---|---|
| `BatchStream` | the promise of a batch processor: a queue, deliveries of a nonempty bounded prefix, rejections, and a stop that needs an empty queue or a cancellation |
| `BatchProcessor` | `internal/generics/batchprocessor`: one action per select case and per step of the loop; a flush is a call and a return |
| `JobManager` | `internal/job/jobmanager.go`: `AddJob` as check and send, one action per branch of `worker` |
| `ResourceQuota` | extends `JobManager` with one batcher per region and the handler: an invocation from the first `AddJob` to the return |
| `RegionStream` | one batcher of `ResourceQuota` as a `BatchStream`: the refinement mapping, for a region that is a constant |
| `CTFileBatcher` | `internal/emfbatcher/cloudtrail/filebatcher.go`: `Add` with its two writes, the steps of `flushRegion` for the handler's, the ticker's and `Stop`'s goroutines, file operations that fail, files an earlier process left |
| `RateLimit` | SQS, function, extension, `/tmp` and the life of the environment |
| `LogSetup` | `cwlclient.EnsureGroupAndStreamAcrossRegions` in several processes, and the stream names of `cmd/*` |
| `QuotaJobs` | `cmd/resourcequota/main.go` from the configuration to the published metrics: validation, batchers and channels per region, the jobs, what each measures |
| `NauCalculator` | `internal/nau`: every calculation over a live account |
| `LoggerLines` | `internal/logger`: the shared prefix |
| `MC*` | the instances for TLC |
| `*_proofs` | theorems about the module of that name; `ResourceQuota_proofs` also holds those about `JobManager` and `RegionStream` |
| `SequenceFacts` | lemmas on the elements of sequences that several proofs need |

`ResourceQuota` and `QuotaJobs` are two views of one invocation. The first has the
goroutines, channels and batchers and takes a job as a number of metrics; the
second has the configuration, the content of the jobs and where their metrics
go, and one worker, since jobs share nothing, which dispatches a job's metrics one
by one as the code does. Cancellation is in the first view only: a job `AddJob` drops
and a dispatch that is interrupted are `JobManager`'s. `QuotaJobs` takes the log setup
as one step (`ensureLogGroup`) and the NAU calculation as another (`Measure`);
`LogSetup` and `NauCalculator` are the steps inside.

How the state corresponds to the code:

* A Go channel is a sequence with a capacity: a send that may block is an action
  guarded by room (`AddSend`, `Enqueue`, `Send`), a `select` is a set of actions
  enabled in the same control state. A ticker's channel holds one tick, as
  `time.Ticker`'s does.
* `pc`, `wpc`, `apc`, `fpc`, `main` are control points. A call over the network is
  split at its call and its return (`handed` grows at the call, `shipped` or
  `logged` at the return), so the other goroutines run in between. A success is
  possible only under a live context.
* Records are model values. Sizes matter to the byte limits and are numbers; JSON,
  timestamps and sorting inside a batch are left out, since no property is about
  them.
* A file of `CTFileBatcher` is a sequence of lines: events, or `Torn`, one that does
  not parse. A line and its newline are two writes (`AddWrite`, `AddNewline`); a
  region in `cut` has a last line without a newline, and what is written next is
  glued to it. `Fails` says which of open, write, read and truncate may fail, each
  at any time. The file starts as `Left`, or absent, or cut, with the counters at
  zero. A scan is one step, up to the end or to where reading fails. An empty line
  is left out, since every scan skips it. In `RateLimit` an append is one step and a
  truncation succeeds; `CTFileBatcher` says what becomes of a line otherwise.
* CloudWatch Logs and the account are external. In `LogSetup` a listing may be
  older than the last creation, a creation takes a while, a second one meanwhile
  is aborted, and an answer may be lost. In `NauCalculator` a paginator returns
  nothing twice and does not end before it has returned what was there all along;
  a call without a paginator returns a limited number of items.
* History variables (`sent`, `mapped`, `handed`, `shipped`, `windowed`,
  `glued`, `delivered`, ...) record what happened and guard no action, with one
  exception: what has been added is not added again (`Offered`, `added`), as the
  model's items are instances and not values.
* In `RateLimit` the actions of Lambda and SQS are external: batches, visibility
  timeout, freeze between invocations, reset with `/tmp` kept, shutdown. They are
  as weak as the code's use of them needs. The queue is FIFO and each rule has a
  message group (template.yaml:50-55, 75, 93): a group is offered from its head
  (`Ahead`), and not while one of its messages is in flight; a failed message stays
  in flight until its visibility timeout and then is at its old place. The function's timeout does not exceed
  the visibility timeout (30 s each in the template).

## Runs

| run | instance | what it shows |
|---|---|---|
| `batchprocessor` | 2 producers, 4 items (two that fit together, one oversize, one that does not map), channel of 1, batch of 2 items or 3 bytes | limits on every flush path (`FlushBounds`), order and completeness (`InOrderOnce`, `Accounted`), refinement of `BatchStream` (`StreamSpec`), progress (`AddedIsHanded`, which covers `Add` blocked on a full channel, `LoopEnds`) |
| `jobmanager` | 2 workers, 3 jobs (two metrics, one metric, no channel), buffers of 1 | one execution per job, ordered single dispatch, what Wait's return means, cancellation, termination |
| `resourcequota` | 2 regions and a third without channel, 3 jobs, one metric that does not map | no send on a closed channel, nothing dropped in silence at return, no deadlock but one (`StuckOnlyInAddJob`), a batcher refines `BatchStream` (`BatcherSpec`, here for `Region = west`, the one with the metric that does not map; proved for every region) |
| `filebatcher_stop` | 1 region, 2 events of different size, one of them perhaps left by an earlier process, `maxBytes` 2, Stop and cancellation, opens, writes and reads failing whenever they may | what became of every event (`LossExplained`), what Stop leaves in the files (`StopEmpties`) |
| `filebatcher_live` | 1 region, 3 events of one byte, a torn line of an earlier process, `maxCount` 2, opens and truncations failing now and then, no Stop and no cancellation (the program's use) | how far a flush outgrows its threshold (`BatchSlack`), a stored line leaves its file (`StoredIsFlushed`) |
| `ratelimit` | a malformed message ahead of a good one in one group, one for a region without client in another; batches of 2; one crash at any moment | what an acknowledgement means (`AckedIsStored`), how far records are duplicated (`DeliveredBound`, attained), which files the ticker knows (`TickCoversFiles`), progress in a FIFO queue (`WellFormedAcked`) |
| `logsetup` | function and extension, 2 regions, listings of up to 2 pages, one restart each | a setup that succeeds leaves the group and the stream in every region (`StreamsReady`), racing fails it in one case only (`FailsOnlyIfAborted`), it ends (`SetupEnds`) |
| `quotajobs` | 4 configurations: two regions, a region listed twice, OIDC without us-east-1 with gp3storage and an unknown service, an invalid name; 3 resources in pages of up to 2, 2 VPCs; nobody cancels | what is configured is measured and reaches a batcher that is waited for (`MeasuredAsConfigured`); no partial count (`CompleteCounts`) |
| `nau` | 12 resources of all kinds in 2 VPCs, pages of 1, two creations or deletions during the calculation | each VPC's result lies between the units always there and ever there (`EveryVpcCounted`) |

Runs that show a disagreement between the code and a text of the repository (each
checks one property and TLC finds a counterexample):

| run | text | what the code does |
|---|---|---|
| `filebatcher_errors` | cmd/ratelimit/README.md:320, ERROR log on I/O errors | the error of `Flush` is dropped and logged nowhere |
| `ratelimit_drain` | cmd/ratelimit/README.md:301, drain on SHUTDOWN | a file name is looked up where a region is expected; nothing is sent, the file is truncated |
| `logger_prefix` | cmd/ratelimit/README.md:328, the ERROR filter matches any error log | two goroutines exchange their prefixes between `SetPrefix` and `Printf` |

Other disagreements are the named exceptions of properties that hold otherwise; a
passing run shows that there is no further one:

| property | exception | text it departs from |
|---|---|---|
| `StopEmpties` | a cancelled parent turns every flush off; Stop does not know regions without a counter | filebatcher.go:33 |
| `BatchSlack` | a late reset forgets records, a file reaches `maxCount` and nothing flushes it | filebatcher.go:29-30 |
| `LossExplained` | a failed write is counted and not logged, and a missing newline takes the next event with it | cmd/ratelimit/README.md:320 |
| `TickCoversFiles` | files left by an earlier process of the environment | cmd/ratelimit/README.md:273-276 |
| `StreamsReady` | the extension asks for a stream name twice and, without one in its environment, writes to a stream nobody created | cmd/emf-extension/main.go:98 |
| `StuckOnlyInAddJob` | a cancellation between its check and its send leaves `AddJob` blocked | jobmanager.go:81 |
| `FailsOnlyIfAborted` | an aborted creation counts as a group that is there | cwlclient.go:102 |
| `MeasuredAsConfigured` | `gp3storage` validates, `gp3Storage` is what builds the job | cmd/resourcequota/README.md:113 |
| `CompleteCounts` | the NAU metric has the unit Percent and is a fraction | README.md:17 |
| `EveryVpcCounted` | three calls are made without their paginator | nau.go:23 |

### Bounds

Capacities of one are the smallest at which "full" and "empty" both occur, and a
send blocks in every run. Two producers and two workers are the smallest numbers
that race; the properties speak of pairs of them. Batches of two items reach the
count limit, the byte limit, and both in one round (an oversize item after a
batch). In `filebatcher_live` the bound of `BatchSlack` is attained: three lines
are read at once, and a fourth, which the instance has, never is. In the program,
where `maxCount` is 10,000, a flush can read 19,999 lines, or 10,000 and those an
earlier process left, more than one `PutLogEvents` call takes; and once an open or
a truncation of the file has failed there is no bound, since its lines stay and
its counters are reset. One region is enough: no flush touches another region's
file or counters. The two events of `filebatcher_stop` are a torn line and one
glued to it, or a line and one behind the place where a scan fails. The two runs
divide the failing operations between them; the theorems on `BatchSlack`,
`LossExplained` and `StopEmpties` are about all of them together. In `RateLimit` one
reset (`MaxResets`) lets a crash fall between any two steps, with redelivery, and
a second environment still follows; environments are not counted. A batch of two
holds the malformed message and the good one behind it; `WellFormedAcked` excepts a
message with a whole batch of malformed ones ahead of it, and does not hold without
the exception (a batch of one never gets past the malformed head). In
`LogSetup` two processes are the fewest that race, two regions let one fail after
another was set up, and a restart meets what an earlier start created. In
`QuotaJobs` three resources in pages of up to two give a listing that fails after
its first page. In `NauCalculator` two changes are a deletion and a creation, or
two of them around one page; two NAT gateways are one more than a call returns. `MetricsOf`,
`Size`, `RecSize` are constants of the instance; no run uses a state constraint or
symmetry. Deadlock checking is off since every instance has finitely
much to add and then rests.

### Fairness

Goroutines that can run do, network calls return (the jobs have a timeout, the
SDK its own), and tickers tick: weak fairness of these steps. Go's `select`
chooses at random among ready cases, so in `BatchProcessor`, where ticks never
end, each case has strong fairness; a blocked sender is served in turn when there
is room, hence strong fairness of `AddSend`. In `JobManager` and `ResourceQuota`
jobs and metrics are finite and weak fairness of each goroutine is enough.
`JobManager` alone assumes of its receivers only what batch processors provide:
they receive while the context is live. In `CTFileBatcher` a file that is flushed
again and again is opened and truncated in the end (strong fairness of the ticker's
`Scan` and `Truncate`): a file that never opens would never be empty. In `RateLimit`
SQS returns as many messages of one group as it can, so a group whose front can
fill a batch again and again is given one (strong fairness of the invocations with
`Front(g)`); nothing is assumed for a message further back. Lambda restarts what is
down. In `LogSetup` the calls of the SDK return.
`QuotaJobs`, `NauCalculator` and `LoggerLines` state safety only: they are finite
sequential programs, and their termination is that of the jobs, which
`JobManager` bounds by a timeout. No fairness is given to cancellation, `Wait`,
`Stop`, shutdown, crashes or the success of a call but that open and truncation.

## Proofs

Every safety property of the passing runs is a theorem of its specification, for
all values of the constants. Each proof module starts with its inductive invariant, one definition per
question; a lemma shows for each part, or for each group of actions, that a step
keeps it; the last theorems are the temporal ones. TLC checked the
invariants on the runs' instances before they were proved.

| module | theorem | property |
|---|---|---|
| `BatchProcessor_proofs` | `Typed`, `FlushesAreBounded`, `InOrderExactlyOnce`, `NothingUnaccounted` | `TypeOK`, `FlushBounds`, `InOrderOnce`, `Accounted` |
| | `ImplementsStream` | `StreamSpec`: the loop implements `BatchStream` |
| `ResourceQuota_proofs`, the pool alone | `JobTypes`, `JobsExecutedOnce`, `MetricsSentInOrder`, `OneLateMetric`, `WaitDispatchesAll` | `JTypeOK`, `ExecutedOnce`, `SentOnceInOrder`, `AtMostOneLate`, `WaitMeansDispatched` |
| `ResourceQuota_proofs`, the invocation | `InvocationTypes`, `SendsBeforeClose`, `NothingInSilence`, `NobodyElseStuck` | `QuotaTypeOK`, `NoSendOnClosed`, `ReturnMeansReported`, `StuckOnlyInAddJob` |
| | `BatcherIsStream` | `BatcherSpec`: the batcher of a region implements `BatchStream` |
| `LogSetup_proofs` | `SetupTypes`, `ReadyMeansReady`, `RaceEndsOnlyAborted` | `TypeOK`, `StreamsReady`, `FailsOnlyIfAborted` |
| `RateLimit_proofs` | `EnvironmentTypes`, `DeletedIsStored`, `TickerSeesFiles`, `DuplicatesBounded` | `TypeOK`, `AckedIsStored`, `TickCoversFiles`, `DeliveredBound` |
| `CTFileBatcher_proofs` | `BatcherTypes`, `BatchesBounded`, `LossIsExplained`, `StopLeavesNothing` | `TypeOK`, `BatchSlack`, `LossExplained`, `StopEmpties` |
| `QuotaJobs_proofs` | `QuotaTypes`, `CountsAreComplete`, `ConfigurationIsMeasured` | `TypeOK`, `CompleteCounts`, `MeasuredAsConfigured` |
| `NauCalculator_proofs` | `NauTypes`, `EveryVpcIsCounted` | `TypeOK`, `EveryVpcCounted` |
| | `QuietAccountIsExact` | if nothing comes or goes meanwhile, the result is exact |

### The arguments

Few of the properties are inductive. What has to be carried along:

* **BatchProcessor.** `FlushBounds` needs that a byte-limit flush leaves room for
  the item in hand and that a batch is below the count limit whenever the goroutine
  is not flushing: `LoopInv` says which control points hold an item
  (`LoopShape`), how far the limits are kept at each (`WithinLimits`) and why the
  goroutine leaves (`ExitReason`). `InOrderOnce` follows by one step per action:
  the order of the channel moves only with a send or a receive, that of the batch
  only when an item is mapped, joins the batch or is handed over. `Accounted` and
  the refinement rest on both: a call of `FlushFunc` is a delivery of the stream, a
  send its acceptance, and the loop stops behind a closed and drained channel or a
  done context.
* **JobManager.** `JobPlace` says that a job is in exactly one place: with
  `AddJob`, in the queue, or with the one worker that executed it, which makes
  `ExecutedOnce` inductive. `SentBelow` bounds what has been sent of a job by its
  worker's next index, `Progress` says that below that index everything is
  *placed* (on its channel, or reported), and that an executed job failed, is with a
  worker, or has placed all its metrics; `WorkerShape` says why a worker left. When all
  have left without a cancellation, queue and `AddJob` are empty, so every job is
  placed. `LateShape`: a worker past its check of the context has sent nothing
  late yet.
* **ResourceQuota.** Each action of an invocation is a step of the pool or leaves
  the pool's variables alone (`PoolStep`, by the way the module is composed), so the invariant of `JobManager`
  holds here as well and is not proved again. `TakenDown` is the order in which
  `HandleRequest` takes things down: a channel is closed only after all workers
  left, hence `NoSendOnClosed`. `LeftFor` and `SentKept` follow a metric
  from the channel through the batch: a batcher leaves a channel closed and drained
  or a context done, and what was sent is on its way, shipped or reported. With
  the pool's `Progress` this is `ReturnMeansReported`. `StuckOnlyInAddJob` follows
  around the circle: whoever waits for room waits for a batcher, which by
  `LeftFor` has not left before its channel is closed, which by `TakenDown` is not
  closed before the workers left; only the send of `AddJob` has nobody behind it
  once the workers have left for a done context. The conditions under which each
  goroutine waits are the negated guards of its actions, so this is freedom from
  deadlock said without `ENABLED`, and the safe half of `HandlerReturns`.
* **LogSetup.** Per process: the regions it has passed are done (`DoneSoFar`), and
  before it asks for the streams the group exists, unless its creation was aborted.
  `OneCreator`: a region's group has one creation under way.
* **RateLimit.** A message of the batch is offered to nobody else (`Inflight`), and
  one the record loop is done with has an outcome (`Handled`). `DeliveredBound`
  counts: the lines in a file, what the current start may still store and what each
  of the two flushers may still send stay within a budget that a reset enlarges
  (`Budget`).
* **CTFileBatcher.** `LossExplained` needs what each goroutine in `flushRegion` has
  seen: what it will truncate was scanned, was behind a failed scan, or was appended
  in the window since (`Seen`), and what has left the files is one of these or of
  the lines that were torn or glued (`AllKept`). For `StopEmpties`: while Stop
  works, what it found is out of the files, or in one that its goroutine has still
  to truncate or failed to (`StopOwes`), or in one of a region without a counter,
  whose lines are leftover or the Add's in progress (`Uncounted`). `BatchSlack` is a
  bound on counters that goroutines reset late: `Slack` says that the length of
  a file and what the resets under way may still forget do not exceed what can be
  forgotten at all and the counter; or, as long as no goroutine stands between a
  truncation and its reset, that the file has no more lines than the counter says and
  an earlier process left (`FileFits`). The two excesses never add up, since the first
  truncation removes the second; after a failed one there is no bound.
* **QuotaJobs.** The two maps agree at every moment (`MapsAgree`), the loops have
  added a job for every name behind them (`Added`), a job without a channel is one
  for a region that is not in the list (`Routed`), what a worker no longer has to
  send is on its channel (`Sending`), so that a published job has sent everything
  (`AllSent`), and a return finds every job finished and every batcher waited for
  (`Finished`).
* **NauCalculator.** The units of a VPC are a fold over a set, and the library's
  induction theorems cannot be instantiated. What can be cited is that strict
  inclusion is well-founded on the finite subsets of a set
  (`FS_StrictSubsetOrderingWellFounded`, `WFMin`): a nonempty collection of sets of
  resources has a smallest member (`SmallestSet`). With smallest counterexamples
  follow the equation of the fold (`UnitsEquation`), that the order does not matter
  (`UnitsRemove`), and what a sum does on a disjoint union (`UnitsUnion`). The
  invariant says of the total what a program variable cannot: it is the units of
  *some* set of resources (`Counted`) between those that must have been listed by
  now (`Certain`: always there, and of a kind, a page or a file system that is
  behind) and those that can have been (`Possible`: ever there). A page is
  disjoint from what was counted, so it joins the set; creations enlarge the upper
  bound, deletions shrink the lower one. A mount target belongs to the VPC of its
  subnet and is listed under its file system: that an account keeps what something
  needs (`Closed`) and that ids are unique makes both listings agree with it.

### Assumptions

They are the `ASSUME`s of the modules, which TLC evaluates in each run:

* there is a worker (`defaultWorkerCount`, cmd/resourcequota/main.go, is positive);
* what is configured is a subset of the regions, and functions of the instance
  have their types; sizes, capacities and limits are natural numbers (0 switches a
  limit off where the code does so);
* `LogSetup`'s regions are a nonempty list, `QuotaJobs`' regions and names are lists
  (JSON arrays), empty ones included;
* no base name of a file is a region (`BaseNamesAssumption`: a file is
  `emf_<region>.ndjson`, cmd/emf-extension/main.go:111);
* `Region` of `RegionStream` is one that has a batcher;
* what an earlier process left in the file of a region are events of that region and
  lines that do not parse;
* `NauCalculator`'s account is one of AWS (`AccountAssumption`): ids are unique, what
  is there at the start has what it needs, a mount target is one of a file system in
  a subnet, interfaces have one of the four types the code tells apart, and counts
  of addresses, subnets, tables and zones are natural numbers.

### Only model-checked

* Liveness: `AddedIsHanded`, `LoopEnds`, `WaitReturns`, `AddJobReturns`,
  `HandlerReturns`, `SetupEnds`, `StoredIsFlushed`, `WellFormedAcked`. They rest on
  fairness, that is on `ENABLED`, which the prover does not reason about. The
  refinements are proved for `Spec`, without fairness.
* The three runs that expect a violation: TLC finds their counterexamples.

## Not modelled

* `CloudTrailBatcher`, an instance of the generic processor that no program uses.
* The AWS clients and mocks: one-line delegations to the SDK.
* Templates and build files, beyond the queue and timeout settings `RateLimit` uses.
* The formatting of EMF records (`emf.Build`, `buildEMFRecord`): payloads are model
  values; a metric whose value cannot be encoded is one that "does not map".
* `LoadConfigFromS3`, `ValidateRateLimitConfig`, `ConvertSQSMessageToEMF`,
  `Client.InitError` and `Client.ExitError`: no program calls them.
* Quotas are not numbers in `QuotaJobs`: a value is its numerator over the quota.
* The 26 bytes CloudWatch Logs counts for each record, which `CTFileBatcher` does
  not (hazard at filebatcher.go:126): a comparison of constants; a batch that is
  refused for its size is a failed `Flush`.
* What a malformed message costs (handlers/ratelimit.go:93, a queue without a
  dead-letter queue): it comes back to the head of its FIFO group until its
  retention ends, and `BatchSize` of them block the group for that long.
  `WellFormedAcked` is about the messages that have fewer ahead of them; retention
  is not modelled.
* A crash of the process inside `CTFileBatcher`: there the process starts on what a
  crash left, a torn or cut file included, and runs on; the crash itself is
  `RateLimit`'s, with whole lines.
* Cancellation in `QuotaJobs` (see above), and a log stream whose creation is
  aborted by an earlier request of the same process (cwlclient.go:133-136) in
  `LogSetup`.

## Plan

Done, in this order: `BatchStream`, `BatchProcessor` and its proofs,
`JobManager`, `ResourceQuota` (composes the two), `CTFileBatcher`, `RateLimit`
(composes function, extension and queue), `LogSetup`, `NauCalculator`,
`QuotaJobs`, `LoggerLines`.

Proved, in this order: `BatchProcessor` with its refinement, `JobManager`,
`ResourceQuota` with its refinement, `LogSetup`, `RateLimit`,
`CTFileBatcher`, `QuotaJobs`, `NauCalculator`, freedom from deadlock of
`ResourceQuota`.

Next:

1. A variant for `ResourceQuota`, a number every step of a waiting invocation
   lowers: sums over jobs can be reasoned about as those of `NauCalculator` are, and
   with `StuckOnlyInAddJob` only the fairness would be left to TLC.
2. Action properties that follow from the invariants above: what no step of a
   flush, of a shutdown or of a redelivery may take back.
3. `LoggerLines`: under which use of the logger its lines keep their prefix.
