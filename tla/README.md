# A TLA+ development of stam

`stam` runs pipelines of algorithms on a Kubernetes cluster. Three programs live in
`src/core`; they share nothing but etcd, Redis and an object storage.

| program | what it does | state it keeps |
|---|---|---|
| `worker` | sidecar of one algorithm container: takes jobs from a Redis queue, hands them to the algorithm over a socket, stores the results | in memory; its discovery record, task records and watches in etcd |
| `task-executor` | one process that, every few seconds, compares requested with existing workers and creates, wakes, warms, cools or stops some | `createdJobsList` in memory; everything else is read anew in every pass |
| `api-server` | REST front end: stores algorithms and pipelines, runs, stops and cleans pipelines, sends webhooks | almost none in memory; etcd, the jobs queue and the storage |

node.js runs one handler at a time, from an event to its next `await`. What is hard about these
programs is between two awaits: what a handler read before may be stale when it resumes, and
the events in between have run whole handlers of their own. In all modules **an action is a
maximal run of code without an await that matters**: from an event, or from the return of an
awaited call, to the next await.

Contents: [Inventory](#inventory) · [Modules](#modules-and-the-code-they-model) ·
[Runs](#runs) · [Bounds](#bounds) · [Fairness](#fairness) · [Proofs](#proofs) ·
[Findings](#findings-and-known-behaviour) · [Abstractions](#abstractions) ·
[Not modelled](#not-modelled) · [Plan](#plan)

## Inventory

For each part: the file, its state, its operations, whom it talks to, what is hard, and when
it is right. Paths are relative to `src/core/<program>`.

### worker

* **State machine**, `lib/states/stateManager.js`. State: `state`, `results`, `job`. Nine
  transitions among nine states. A transition requested in a state it is not configured for
  exits the worker, and is ignored in debug mode. Emits `stateEntered` to the worker and
  `finish` to the consumer, in the same run of code. *Hard:* any message, timer or command may
  request any transition at any time. *Right when* no order of them breaks the life of a job.
* **Worker**, `lib/worker.js`. State: `_isConnected`, `_isInit`, `_isBootstrapped`, the
  inactivity and the stop timer, `_inTerminationMode`. Handlers for messages and disconnects of
  the algorithm, for stop requests and commands from etcd, for entered states, timers and the
  end of the process. *Hard:* most handlers await before they request a transition, which then
  meets another state and another job. *Right when* every stop, loss of the algorithm and
  failure ends in ready or in the end of the process, and timers run only in their states.
* **Job consumer and provider**, `lib/consumer/JobConsumer.js`, `job-provider.js`. State: `_job`
  and what belongs to it, the pause flag, `_hotWorker`, the provider's slot. Takes a job, watches
  its state, updates the task, stores the result, acknowledges the job, pauses the queue. Talks
  to Redis, etcd and the storage. *Right when* a job is at one place, is acknowledged once, and
  its record agrees with what the storage holds.
* **Sub-pipelines**, `lib/subpipeline/subpipeline.js`. State: the map of job ids to the
  algorithm's ids, `_stoppingSubpipelines`. Starts and stops pipelines through the api-server for
  the algorithm, watches their results, and stops all at the end of a job. *Hard:* a start is at
  one of two awaits while the job ends, results come twice or before the watch. *Right when* the
  algorithm hears once of each, and none is left behind.
* **Discovery, adapters, kubernetes helper, data extractor, api-server client, log forwarding,
  bootstrap**, `lib/states/discovery.js`, `lib/algorithm-communication`, `lib/helpers`,
  `lib/consumer/data-extractor.js`, `lib/algorithm-logging`, `bootstrap.js`: watches and the
  published record; the one socket held; container status; reads of inputs; signals and
  unhandled rejections, which end the process.

### task-executor

* **Executor loop**, `lib/executor.js`. Reads the nodes and pods, then runs the reconcilers of
  algorithms and of drivers, then sets the timer of the next pass, whatever happened.
* **Algorithm reconciler**, `lib/reconcile/reconciler.js` and `normalize.js`. State:
  `createdJobsList`. Reads templates, requests, workers and kubernetes jobs, counts what serves
  each request, creates jobs for the others, wakes paused workers, stops some to make room,
  warms and cools. *Hard:* the four lists are read at different times and used later; creations
  are not awaited; a worker passes through several of the lists on its way. *Right when* neither
  too many nor, in the end, too few workers exist, and everybody gets served.
* **Resource matching**, `lib/reconcile/resources.js`. Pure: first fit of wanted jobs to nodes;
  whom to stop for those that do not fit.
* **Drivers reconciler**, `lib/reconcile/drivers-reconciler.js`. Keeps `minAmount` pipeline
  drivers, or `maxAmount` when more pipelines wait, and stops idle ones beyond the minimum.
  State: the time of its last pass. *Hard:* a pass is left behind when one of its calls, or the
  reconciler of algorithms, fails, and the next overlaps it; a driver is stopped or crashes
  between the read and the command; a job is not listed before it is created. *Right when* jobs
  never exceed `maxAmount`, every waiting pipeline gets a driver, and the surplus goes away.
* **Job specifications**, `lib/jobs`, `lib/templates`, `createOptions.js`: kubernetes objects
  from templates, pure. **Clients**, `lib/helpers`: etcd and kubernetes.

### api-server

* **Execution**, `lib/service/execution.js`. `_run`, `stopJob`, `cleanJob` and queries. `_run` is
  a row of ten awaited calls over etcd, the storage and the queue; requests are served
  together. *Hard:* a call in the middle fails; the run ends, is stopped or cleaned meanwhile.
  *Right when* what is queued is recorded, and what is listed as running is running.
* **Limit of concurrent runs**, `lib/validation/api-validator.js`. Counts the listed runs of a
  pipeline. *Right when* no more run than that.
* **Jobs producer**, `lib/producer/jobs-producer.js`. Queues a run, removes it, and records the
  failure of a run whose driver crashed.
* **Result webhooks**, `lib/webhook/webhooks-handler.js`. On each result: takes the run off the
  list of running ones and posts the result; on each status: the progress webhook. *Right when*
  every result is announced and frees its place.
* **State manager**, `lib/state/state-manager.js`: the records in etcd and the watches.
  **Bootstrap**, `bootstrap.js`: any unhandled rejection ends the process.
* **Algorithm store, pipeline store, cron, builds**, `lib/service/algorithms.js`,
  `pipelines.js`, `cron.js`, `builds.js`. State: the records in etcd and the copies in the
  storage. Each request reads, checks, writes the copy and writes the record, in awaited calls;
  nothing is locked. *Hard:* two requests at once, a failure between the two writes, lists cut at
  a limit, the builder that writes the same records. *Right when* a request that nobody
  interferes with is atomic, algorithms in use exist, copies agree with records, and versions
  of builds grow.
* **Checks of pipelines**, `lib/validation/api-validator.js`. Pure: names, links and cycles of the
  nodes. *Right when* what is accepted can run to the end.
* **Internal runs, readme, webhook queries, example loader, REST routes**: single calls of the
  above.

### How they interact

The api-server queues a run; a pipeline driver (not in this repository's core) takes it, asks
for workers through requirements in etcd and puts jobs into the algorithm's queue. The
task-executor reads the requirements and the discovery records of the workers, creates
kubernetes jobs, and writes commands to etcd that the workers watch. A worker takes jobs,
writes task records that the driver reads, and posts sub-pipelines to the api-server. The
driver writes the result, which the api-server watches.

## Modules and the code they model

| module | models | abstract specification |
|---|---|---|
| `WorkerStates` | the transitions of `stateManager.js` | |
| `Worker` (EXTENDS `WorkerStates`) | `stateManager`, `worker`, `JobConsumer`, `job-provider`, with Redis, etcd and the algorithm as environment | `JobLifecycle` |
| `SubPipelines` | `subpipeline.js` and the places of `worker.js` that call it | |
| `PipelineRun` | `execution.js`, `validateConcurrentPipelines`, `jobs-producer.js`, `webhooks-handler.js`, exit and restart | |
| `Resources` | `resources.js`, as operators | |
| `Reconciler` (EXTENDS `Resources`) | `executor.js`, `reconciler.js`, `normalize.js`, with kubernetes and the workers as environment | |
| `Drivers` | the drivers' half of `executor.js`, `drivers-reconciler.js`, `normalize.js`, with the drivers and the queue as environment | |
| `PipelineGraph` | `_validateNodes` of `api-validator.js`, as operators | |
| `StoreRecords` (EXTENDS `PipelineGraph`) | the records, and what each service checks and writes, as operators | |
| `Store` (EXTENDS `StoreRecords`) | `algorithms.js`, `pipelines.js`, `cron.js`, `builds.js`, `_runStored`, call by call, with the builder as environment | `AtomicStore` |
| `MC…` | constants for TLC | |
| `…Proofs` | theorems about the module named before | |

`PROJECT.json` maps each definition to its lines. Definitions commented as *faulty variant* or
*mutant* belong to no behaviour: each is a plausible bug that some property must catch.

**Worker.** `state`, `results`, `smJob` are the state manager's; `cjob`, `hot`, `paused` and
`isReady`, `slot` the consumer's and the provider's; `idleTimer`, `stopTimer`, `term`, `dead` the
worker's. A handler that waits for a call is an element of the bag `suspended`: the point it
is at and what it captured before. `lostTimers` counts stop timers that are still running
though `_stopTimeout` refers to another one. `Transit` is one call of a transition with
everything it triggers synchronously: `Finish` (acknowledge) and `Entered` (the entry handler up
to its first await). The caller passes, in a record, what it did before in the same run.
`queued`, `acks`, `queuePaused` are Redis; `watched`, `stopped`, `task`, `stored` are etcd and
the storage; `algUp`, `halfOpen`, `asked` the algorithm.

**SubPipelines.** `registered` is the map's domain; `starting`, `aborting`, `closing` say where the
handlers of each sub-pipeline are; `fetching` holds completed ones whose result is being read;
`caller` is who awaits `stopAllSubPipelines`. `answers` counts final messages per sub-pipeline,
`nameless` those sent without the algorithm's id. The worker is reduced to working, ended,
ready, exited.

**PipelineRun.** `at[r]` is the call that the request for run `r` awaits, `cleaning[r]` the
calls of its cleaning that have not returned. etcd's records are sets and functions of runs;
`resultSeen`, `freeing`, `announcing`, `died`, `failing` are events and event handlers under
way. `Down` is what an exit of the process loses.

**Reconciler.** `phase`, `jobs`, `record` say what became of a job, whether kubernetes lists it,
and what its worker has published; `reads` is how far the pass has read, `seen…` what it has
read. `Reconcile` is the whole synchronous rest of the pass. `Serving`, `Wanted`, `Woken`,
`LeftIdle` are what the loop of `_processAllRequests` computes, counted instead of iterated.
Matching to nodes (`Matched`, `Freeing`, `ToStop`) keeps the order of the code by recursive
functions, since there order decides the result.

**Drivers.** `phase` says what became of each job: its call is under way, its driver starts, is
ready or at work, or it has failed; `paused` are the drivers that have got the command to stop.
Each pass has a number, its `step`, what it has `read` and `seen`, and its calls `toCreate`,
`toStop`; `awaited` is the pass that the loop waits for, and a pass that is not awaited any more
goes on. `overtaken` records that a pass has begun while another was not over. `Forget` clears
what refers to a driver that is gone, since its id does not come back.

**Store.** `store` is etcd, one function of keys to records; `copies` is the storage. A request is
`done` with some of its calls, and `Calls(op)` says for each call which others are awaited
before it; so one action per kind of call (`Get`, `ListAlgorithms`, `ListUsers`, `Copy`,
`StartBuild`, `Write`) serves all requests, in the order that each function of the services has.
`Accepted` and `Result` are what a function checks of the record it has read and what it writes, by
kind of request (`CanApply`, `CanStop`, `CanRunAgain`; `StoppedBuild`, `StartedAgain`, `Toggled`, `RunOf`).
`Fail` ends a request at any call, with the effect of the call or without. `reads` and `misled` are
history: a request is misled when a key it has read was written by somebody else before it was
served, or a list it searched was cut.

**AtomicStore** is what a client expects: a request is refused without effect, or allowed by the
store as it is and has its whole effect, at one moment. A misled request may write what it
likes, but only into its own record or a new build. `Store` implements it with the same variables
(`INSTANCE AtomicStore`). What it rules out is that a request which nobody disturbs, or a failure,
does anything but the whole or (when it fails) nothing, and that a disturbed one touches
somebody else's record.

**JobLifecycle** is what a worker promises: one job in hand, its outcome settled once, the job
acknowledged after that; only a job whose pipeline is stopped may be acknowledged without
one. `Worker` implements it under the mapping at the end of `Worker.tla`: for any number of jobs
as long as nothing is stopped (theorem `KeepsPromise`), and with stops for one job (run
`worker_stops`). With stops and a second job it does not, because of the late stop below.

## Runs

Every property of a passing run has a variant of a modelled definition under which TLC finds
it violated (`mutants` in `PROJECT.json`).

| run | asks | shows |
|---|---|---|
| `worker_jobs` | two jobs, two connections, late answers, storage and extraction failing at will and one failed call of etcd, no stop requests | `FinishesJobInHand`: no step of finishJob works for a job that another handler replaced. `RecordedIsStored`: a task recorded as succeeded has that output stored. `OwnOutput`: on the first connection no job gets another's output |
| `worker_stops` | one job that may be stopped at any time, storage failing at will and one failed call of etcd, under fairness | `OnePlace`, and with it that no job is acknowledged twice; `JobLifecycleSpec`; `StopEnds`, `ResultsEnd`, `LostAlgorithmFreesJob`: no state is left for good |
| `worker_debug` | debug mode, where a worker survives the most, with a stop, two commands and a failed call around one job | `SomethingIsDue`: no state is left with nothing to end it, though transitions out of order are ignored; `IdleTimerOnlyInReady`, `IdleTimerIsSet`, `PauseFlagIsRight` |
| `sub_end` | two sub-pipelines, of which the algorithm may stop one, one job, a failed call, under fairness | `AnsweredOnce`, though a result may come as an event and as the answer of the watch; `AnswerIsDue`: while the job runs none is lost between api-server, watch and map; `StopAllReturns`; `EndedJobIsCleared` |
| `sub_ready` | *violated:* a test's "no registered subpiplines after state ready" | finding below |
| `run_records` | three runs, two requests served at once, limit one, a failure, a death or an exit | `LimitBound`: the limit is exceeded by at most the requests served at once less one; `QueuedIsRecorded` |
| `run_ends` | one run that is stopped or cleaned, and one fault: a failed call, a death of the driver or an exit, under fairness | `TypeOK`, `StaysUp`, `ListedRunUndisturbed`, `ResultFrees`, `ResultAnnounced`, `DeathIsResult` |
| `run_limit` | *violated:* the refusal's "maximum number of concurrent pipelines" | finding below |
| `rec_room` | two algorithms of different sizes fill the node, under fairness | `Served`: an algorithm requested for good gets a job although busy workers of the other take all room |
| `rec_hot` | one algorithm with a hot worker, one job in a pass, changing requests, one fault of any kind (a read, a creation or a command to a worker that fails, a death, an exit, an early expiry), under fairness | `NoSurplus`: no pass creates a job too many; `HotSettles`: as many workers as wanted are hot in the end |
| `drivers` | two passes that may overlap, two pipelines, a maximum of 1.2 drivers, one fault of any kind, under fairness | `NeverTooMany`: never more than two jobs while no pass overtakes another; `QueueIsServed`: every pipeline gets a driver; `ScalesDown`: the surplus is stopped for good |
| `store` | two requests served together, from stores to begin with of every interesting kind, a failure at any call, the builder, a run that ends | `AtomicSpec`; `UsedAlgorithmsExist`: only a misled request takes an algorithm in use; `CopyIsOfStored`; `VersionsGrow`; `StoredCanRun`: what the checks of nodes accept can run, `Runnable` being the reference definition |

## Bounds

* **Worker**: two jobs suffice for the job of one handler to be replaced by the next; a
  third would only repeat it. Two connections give one half-open old one. Stops, commands and
  failures are bounded by counters in the guards (`MaxStops`, `MaxCommands`, `MaxFailures`);
  failures of extraction and storage are not bounded, and each of the three runs has one failed call
  besides. Every invariant of the three runs and, without stops, the refinement are proved without
  bounds. `worker_debug` is in debug mode because transitions are survived there that end the
  worker otherwise; the timer and the flag are handled alike in both modes. Debug mode does not keep
  a worker alive: the stop timer ends the process there too (`worker.js:373-378`).
* **SubPipelines**: `MaxJobs` numbers jobs; two sub-pipelines let one be at each await of a start
  while the other is being closed; the algorithm may stop one of them (`Aborted`). `AnsweredOnce` and `AnswerIsDue` are proved for any number.
* **PipelineRun**: three runs and two open requests show the limit of one exceeded by one and not
  by two. `MaxOrders` bounds stops and cleanings together, `MaxFaults` failed calls, deaths and
  exits together: one of them in a behaviour, at any point of it.
* **Reconciler**: three numbers of jobs, of which two of the small algorithm fill the room of the
  large one, so that more than one worker has to be stopped. `Ids` are used again, so that
  behaviours do not end; no job is created that would find no number. `MaxChanges` bounds
  changes of the requests, `MaxFaults` deaths, failed calls, exits and early expiries together.
  `Losses` lets one command of a pass fail. `MinHot` is one in `rec_hot`, so that no surplus of hot
  workers is ever warmed up (`normalize.js:102`): the smallest instance that has one takes a minimum
  of two and three workers, which is out of TLC's reach. `MaxPerTick` (100 in the code) is never reached in `rec_room` and is one in `rec_hot`, where it
  makes a pass skip the second of two wanted jobs.
* **Drivers**: one job more than the rounded maximum, so that one too many would be seen; numbers
  of jobs and of passes are used again, so that behaviours do not end. A third pass at once needs
  a second fault. `Scale / Unit` is the fraction `scalePercent`; 2 / 10 makes the maximum 1.2.
* **Store**: two requests show what one may do to another; all six properties of the run are proved
  for any number. One case takes a third request: an insert that is overtaken by a write and a
  deletion, which `CopyIsOfStored` excuses (`InsertedLate`); the run of two never meets it, and only the
  theorem covers it. With `Requests` of three and requests
  about the pipeline only, TLC shows that the property fails without that excuse and holds with it. `MaxPart` (500) and
  `ListLimit` (1000) are 1, so that versions reach their limit and a list is cut. The stores to
  begin with have an algorithm with an image or without, with a version that semver parses, one
  that it does not, and one at its limit; a pipeline or none; a run; a build. The requests send a
  chain of nodes or a cycle, and code that is new, the same, or comes with an image.
* `CHECK_DEADLOCK FALSE` is set for `PipelineRun` and `Store`: when all requests are served and all
  events handled nothing remains to happen.

## Fairness

Assumed, as weak fairness: calls to etcd, Redis, the storage, the api-server and kubernetes
return (with an answer or an error); timers fire; watches deliver; the scheduler of node.js
resumes handlers; a process that exited is restarted by kubernetes. Not assumed: that the
algorithm answers, connects or fails, that the users stop anything, that commands are sent,
that a worker takes a job, that a driver makes progress or dies.
In `Reconciler` the worker is environment, so that getting ready and the arrival of commands are
assumed there, and that its inactivity timer, which is minutes against a pass of seconds, does
not end it before a pass has seen it (`rested`). Fairness of the pass is stated as
`WF_reads(PassGoesOn)`: a step that takes the pass further, of which `Reconcile` is one.
In `Drivers` drivers start, end their pipelines and exit when they are stopped, and one fairness is
strong: a waiting pipeline is taken if again and again a driver is idle. The interval of the
passes is much longer than a driver needs to take a pipeline, so the code justifies that; with
weak fairness TLC shows a livelock in which every driver created for the queue is stopped before
it takes anything, since `extra` counts idle drivers beyond the minimum even while pipelines wait
(`drivers-reconciler.js:36`).

## Proofs

TLAPS checks, for every value of the constants within the named assumptions (`…Assumption`):

| theorem | inductive invariant and argument |
|---|---|
| `WorkerProofs!TypeCorrect` | `TypeOK` is inductive; all transitions go through `Transit`, so one lemma (`TransitType`) serves all handlers (`RequestForm` reduces them to it) |
| `WorkerJobProofs!JobAtOnePlace`, `AcknowledgedOnce` | `OnePlace` sums the copies of a job over queue, slot, handlers, hand and acknowledgements. It is inductive with `TypeOK`: actions that take a job move it (`TakingPlaces`), all others are `Quiet`, adding no copy. `AckedOnce` alone is not inductive, since it says nothing of the job that `Finish` acknowledges |
| `WorkerJobProofs!FinishesTheJobInHand` | `HandInv`, without stops: a handler that finishes a job is the only one, works for the job that the consumer holds, and the state is results or exit (`Held`); nothing of a stop is there (`NoStop`); the provider polls from the first ready on (`ReadySeen`), where one job at most has left the queue and is not acknowledged (`OneInHand`, from `OnePlace`) |
| `WorkerJobProofs!RecordsWhatIsStored` | `RecordInv`: the handler that will record a success carries what the storage has; with `HandInv` no other handler can store or record for the same job |
| `WorkerJobProofs!KeepsPromise` | `LifeInv`: a waiting job has no outcome, the job of a worker that cleans up has one. The job in hand of `JobLifecycle` is the one that is neither queued nor acknowledged (`HandOf`), unique by `OneInHand`; each action maps to an action of `JobLifecycle` or a stutter. The hypothesis is that nothing is stopped |
| `WorkerJobProofs!StoresOwnOutput` | `OutputInv`, on the first connection: an answer that is still awaited was asked for the job in hand, in `init` and `working` only, and one handler at most is between the question and the answer |
| `WorkerTimerProofs!IdleTimerSafe` | `IdleInv`: besides, the timer runs and commands are handled only once `worker.init` has registered its handlers, after which no state is entered without clearing the timer |
| `WorkerTimerProofs!IdleTimerSet` | `SetInv`: the property itself, and that before `worker.init` no state but bootstrap and exit is entered, since the entry of ready sets the timer only when its handler is registered |
| `WorkerTimerProofs!PauseFlag` | `PauseInv`: a failed call that was not reported yet tells which of flag and queue is right, and that a second command has come if the flag says otherwise; reports are counted by `nFailures`. Two failures that are reported late leave flag and queue at odds, so the property is about one |
| `WorkerTimerProofs!SomethingAlwaysDue` | `DueInv`: the job in hand of a state machine that has none is still to be updated, nothing is asked before the first connection, and each state has the handler, the timer or the question that ends it. A handler that ends is replaced by the next one of its row or requests its transition (`KeepsOn`); a transition that is turned away keeps what is due |
| `SubPipelinesProofs!TypeCorrect`, `AnsweredAtMostOnce` | `OneTurn`: the start handler, the entry in the map that the watch, its event or its answer will use, the read of the result and the answers given take turns; their number never exceeds one |
| `SubPipelinesProofs!NoMessageLost` | `DueInv`: before the first job nothing is registered, and undisturbed a start that waits for its watch has a pipeline, and one that is not given up is registered and has its message due |
| `PipelineRunProofs!TypeCorrect` | with `EndKnown`: what a driver still writes has an outcome |
| `PipelineRunProofs!LimitExceededByOpenRequests` | `Bounded`: runs listed **or past the check and not yet listed** are at most `Limit + MaxOpen - 1`; `LimitBound` alone is not inductive |
| `PipelineRunProofs!QueuedAfterRecorded`, `ApiServerStaysUp` | `Recorded`: at each call of `_run` all earlier records exist, and every event of an end has an execution |
| `PipelineRunProofs!ListedRunsLeave` | `Listing`: undisturbed, a run that is not yet listed is not queued, one without a driver has no outcome, and a driver that has written the result leaves an event or a handler of it; `Recorded` and `StaysUp` say that those handlers do not fail |
| `ReconcilerProofs!TypeCorrect` | `TypeOK` is inductive; what a pass chooses is typed by lemmas about its operators (`FirstBound`, `NewsType`) |
| `ReconcilerProofs!NeverTooMany` | `Listed`: while no entry of `createdJobsList` left early and none was lost, every job on its way, and every worker that the pass under way has not read as ready, is on the list. So what waits is idle, paused or listed (`WaitingServes`), and a pass creates no more than what is left of the requests |
| `DriversProofs!DriversTypes` | with `Apart`: two passes never have a call for the same job |
| `DriversProofs!DriversAreBounded` | `Counting`: while no pass has overtaken another one pass is under way at a time, and the jobs it has counted are all there are, since nobody else creates any; `AddsUpToMaximum` is the arithmetic of a fractional maximum rounded up |
| `StoreProofs!StoreTypes` | `TypeInv`: `TypeOK` with `Progress`, what an open request has read by the calls it has made |
| `StoreProofs!EveryStoredCanRun` | `ValidNodesRun`: a numbering along the links has a least node that is not done, and all its input is. It holds for lists of any length, by well-foundedness of the naturals; the invariant `Valid` adds that requests under way carry valid nodes |
| `StoreProofs!StoreIsAtomic` | `Sure`: what a request has read and checked still holds of the store unless it is misled; so each call maps to a stutter and the last one to `Serve`, `Refuse` or `Fail` |
| `StoreProofs!UsedAlgorithmsStay` | `WriteAllowed` of the refinement: a request that is not misled writes what the store as it is allows (`ServedKeepsUsers`) |
| `StoreProofs!BuildVersionsGrow` | by cases of `Incremented`, with `Sure`: a request that is not misled has read the algorithm as it is |
| `StoreProofs!CopiesFollow` | `CopyInv`, of a key that no request excuses (an excuse stays, `ExcusesStay`): a request that has copied and not yet written holds the latest copy, or another does, or it is an insert, another has stored the pipeline since, and this one will find it when it looks unless it is deleted first; when nobody holds a copy, what is stored is copied. A write meets no other request that has read the key, or misleads it |

The recursive functions of `Resources` are only used through their types: what first fit
computes is left to TLC, and so is everything temporal beyond `[]`: `StopEnds`, `ResultsEnd`,
`LostAlgorithmFreesJob`, `StopAllReturns`, `EndedJobIsCleared`, `ResultFrees`, `ResultAnnounced`,
`DeathIsResult`, `Served`, `HotSettles`, `QueueIsServed`, `ScalesDown`. Liveness, ENABLED and
induction over data are out of the prover's reach. Every invariant and every action property of
the passing runs is a theorem, and so are the refinement of `AtomicStore` and, as long as nothing
is stopped, that of `JobLifecycle`; with stops it is model-checked for one job.

## Findings and known behaviour

Two runs are violated, each against a text of the repository.

* `sub_ready`: a start checks that the worker is working before its post to the api-server and
  registers the sub-pipeline after it (`subpipeline.js:292`). If the worker enters ready in
  between, the sub-pipeline is registered in ready, against
  `test/workerSubPipelineTest.js:347`.
* `run_limit`: `validateConcurrentPipelines` counts listed runs, and `_run` lists its own only
  after further calls (`api-validator.js:122`): requests served together all pass. How far beyond
  the limit this goes is the theorem `LimitExceededByOpenRequests`.

Behaviour that the models contain and no text denies. Some properties are stated around it:

* A stop request that is handled after its job has ended stops the next job, which is
  acknowledged without a record (`worker.js:54`); so `RecordedIsStored`, `FinishesJobInHand` and
  `OwnOutput` exclude stops. So may the late answer of the algorithm to that job: answers name no
  job, and `OwnOutput` is violated as soon as a stop or a second connection is allowed. A stop in results makes two `finishJob` handlers for one job.
* The disconnect handler waits up to a second for the container's status and then fails whatever
  job runs by then (`worker.js:135`); so `OwnOutput` is about the first connection.
* A stop timer is not cleared by anything but the answer of the algorithm and may end the run of
  a later job (`worker.js:374`); every second stop loses the reference to the first timer.
* The entry of ready publishes "ready" after an await, over newer states (`worker.js:348`).
* A failure that is reported late resets a flag set since (`JobConsumer.js:135`): it takes a third
  command or a second failure; so `PauseFlagIsRight` is about two commands of which one fails, or
  any number that do not.
* `stopAllSubPipelines` clears the map at its end and with it what was registered meanwhile
  (`subpipeline.js:362`); a start whose answer is lost leaves an orphan.
* A call of `_run` that fails after the run was listed leaves it listed for good
  (`execution.js:95`); `stopJob` may write "stopping" over a final status (`execution.js:190`);
  a cleaning makes the result handlers read a missing execution, which ends the api-server
  (`webhooks-handler.js:68`, `jobs-producer.js:38`); a crash after the result replaces it
  (`jobs-producer.js:40`); results written while the api-server is down are not announced unless
  etcd's watch replays them. So several properties of `PipelineRun` are about runs that are
  `Undisturbed`.
* A job created on room that is gone when kubernetes places it stays pending and serves its
  request; nobody is stopped for it (`reconciler.js:103`). So `Served` asks for a job and not for
  a worker that is ready.
* An entry that expires while its worker is still starting, or a restart while a job is being
  created, makes the next pass create another job (`reconciler.js:75`); so `NoSurplus` excludes
  both.
* A request for an algorithm whose template has been deleted makes every pass fail, with the requests
  of all others (`reconciler.js:115`); the templates are constants of `Reconciler`.
* Two requests to the stores that interleave may do what `AtomicStore` allows the misled one: delete
  an algorithm that a pipeline stored meanwhile uses (`algorithms.js:27`), lose an update
  (`algorithms.js:113`, `cron.js:60`), stop a build that has completed (`builds.js:56`). More than
  1000 pipelines or runs hide users of an algorithm (`algorithms.js:50`). `insertPipeline` writes
  its copy before it finds that the pipeline exists (`pipelines.js:44`); so `CopyIsOfStored`
  excuses a refused insertion. An insert that has made its copy may also be overtaken by another
  request that copies and stores the pipeline and a third that deletes it, and then stores what
  is not the copy (`InsertedLate`). A version with all parts at 500 has no successor, and the
  algorithm loses it (`builds.js:182`). When code with an image is refused its build has been
  stored already (`algorithms.js:109`).
* Failed jobs of drivers count as drivers (`drivers-reconciler.js:29`), so `QueueIsServed` excuses
  as many failed ones as the minimum. A pass that overlaps another does not see the jobs it is
  creating, and the maximum is exceeded (`executor.js:99`); so `NeverTooMany` excludes that. A
  missing template of the drivers ends the pass before any driver is stopped.
* Of several workers that must go for a request only the last found is stopped in a pass
  (`resources.js:101`); what `pauseAccordingToResources` is passed as workers, without hot and
  young ones, is not read (`resources.js:136`); `MAX_JOBS_PER_TICK` counts skipped jobs
  (`resources.js:30`); as many cold workers are warmed up as hot ones are wanted, though the
  comment of `normalizeHotWorkers` speaks of the difference (`normalize.js:102`). All are in the
  model; `Served` and `HotSettles` hold nevertheless.

## Abstractions

All: spans, metrics, logs, wording and exit codes are left out. Awaits between which nothing can
observe or change anything are merged.

* Worker: timeouts are those of production, not zero. Answers of the algorithm stay under way over
  stops and connections: a container that connects again still owes them, one started anew does not.
  The queue delivers one job at a time. The
  value of a result is the job it was computed from. Deletion of the kubernetes job in handleExit
  is part of `Exit`. Input data is a read that may fail.
* SubPipelines: a missing socket is not modelled. `watchJobResults` belongs to a library: it is taken
  to set the watch and then to read, and to leave no watch when it fails. A sub-pipeline completes
  or fails of itself; it is stopped by the worker only. An event that is under way when the watch
  is given up may still arrive, or not. An answer to the stop of a sub-pipeline that is
  not registered is not counted as a final message.
* PipelineRun: the status handler of the webhooks (`_requestStatus`) is only that it may reject,
  which ends the process as any rejection does (`EventFails`). All runs are of one pipeline with a result webhook; the puts to the storage, the
  flow input and the last result are one call ("files"); one api-server; the driver is an
  environment that may do anything the queue and the records allow.
* Reconciler: one node with a size in one dimension below the pressure ratios (the code compares
  cpu, gpu and memory); debug algorithms, node selectors and the drivers' share are left out;
  requests are read when used; the record and the job of an ended worker vanish together
  (`Over`), also after a death, where kubernetes would try again; of commands of one kind the
  newest counts, as in etcd's record. The pod of a job is placed and its worker registers in one
  step (`Registers`). `_findWorkersToStop` passes over the workers of debug algorithms
  (`reconciler.js:158`, `204`); the model has no such algorithm. One pass runs at a time: when a call
  of a pass, or the drivers' half, fails, the code starts the next pass after the interval though
  reads of the old one may be under way (`executor.js:50-61`, `99`), and the old one then reconciles
  with what it has read. `PassOver` and `ReadFails` leave that out here; `Drivers` has it for its half.
* Drivers: time is left out, a pass may begin any time after the last has ended or was left behind;
  the template is read with the requests, since it is stored once; the matching to nodes is that
  fewer jobs than wanted may be created; the other half of a pass is only that it may fail.
* Store: of an algorithm the image, the checksum, the environment, the version and the flag
  `pending` are kept, of a pipeline its nodes and its cron job; a file of code is its checksum, and
  reading and uploading it is part of the call that stores the build; validation against the
  schemas is left out, requests being of their type; the run of a stored pipeline is written at
  once (the calls of `_run` are in `PipelineRun`).

## Not modelled

Internal runs (`internal.js`) and cron triggers build an id and an input and call `_run` and
`_runStored`, which are modelled. The example loader calls modelled operations at the start.
Progress webhooks are not modelled: their answers are recorded in the order in which they
return, over each other. The readme and webhook queries read and write single records. The REST
routes, templates, log forwarding and the clients are pure I/O or formatting; so is validation
against the schemas. The pipeline driver, the algorithm, the builder, etcd, Redis, kubernetes and
the hkube libraries are not in `src/core`'s three programs; they are modelled as far as the
programs use them.

## Plan

Done, in this order: `WorkerStates`, `Worker`, `JobLifecycle`, `SubPipelines`, `PipelineRun`,
`Resources`, `Reconciler`, `PipelineGraph`, `StoreRecords`, `AtomicStore`, `Store`, `Drivers`, and the
proofs above. What would come next:

1. `WorkerSystem`: `Worker` composed with `SubPipelines`, whose `BeginJob`, `EndJob` and
   `HandleExit` become the worker's transitions; then `Worker` with `Reconciler`'s environment.
2. Progress webhooks beside the results in `PipelineRun`.
3. Proofs: what `JobLifecycle` keeps when pipelines are stopped, as an abstract specification in
   which a late stop may take the next job; the safety half of `StopAllReturns`, that whoever
   awaits it has something to wait for.
