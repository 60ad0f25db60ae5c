# A TLA+ development of nosana-node

nosana-node runs jobs of the Nosana network on a GPU host: it queues on chain for work, receives a
job definition (a list of container operations in groups), runs the containers on Podman or Docker,
exposes their services through a reverse proxy, and posts the result. This directory holds TLA+
modules that model it, TLC configurations that check them, and TLAPS proofs about them.

Paths below are relative to `src/src/NodeManager/` unless they start with `docs/`. *Multi
Operations* is `docs/Nosana Node Documentation .../Multi Operations 256a....md`.

    tlasany TaskManager.tla                              parse
    tlc -config MCServed.cfg MCTaskManager.tla           check a run
    tlapm TaskManagerProofs.tla                          check the proofs

## 1. The system

### Components

| component | source | state it keeps | operations |
|---|---|---|---|
| Task manager | `node/task/TaskManager.ts`, `node/task/operations/*` | plan, dependency map, current group, op statuses, abort controllers, tracked promises, locks | `start`, `stop(reason)`, stop / restart of an op or a group |
| Execution plan | `node/task/executions/*` | none (built once per job) | `createOperationMap`, `validateExecutionPlan`, `createExecutionPlan`, `createDependencyMap` |
| Provider | `provider/Provider.ts` | none of its own; one call per run | run an op: container or volume, retry on a stale runtime, tear down |
| Podman manager, GPU runtime | `provider/podmanManager/`, `provider/gpuRuntime.ts` | the recreate under way, freshness, staleness | `ready`, `ensure`, `recreate`, `markStale` |
| Container monitoring | `provider/ContainerStateManager.ts`, `provider/ExposedPortHealthCheck.ts` | polling timers, probe results, restart counts | wait for exit, start-up and liveness probes |
| Job handler | `node/job/` | job, run, flow, account emitter | claim, start, run, resume, finish, clear |
| Node | `node/Node.ts` | handlers, `exiting` | queue, pending, run, shutdown, restart |
| Node manager | `index.ts`, `src/src/cli/commands/start/` | `exiting`, `signalled`, in-job flag | init, start, restart, clean, stop, error, signals |
| Auto-update wrapper | `src/auto-update/` | child process | respawn by exit code, update |
| Run, market, expiry handlers | `node/run`, `node/market`, `node/expiry` | subscriptions, timers | queue, monitor, extend, expire |
| API handler, routes | `node/api/` | server, proxy, check timer | start, stop, check and restart the proxy; parse requests |
| Repository, database | `repository/`, `db/` | flows, op states, logs, images, volumes | read, update, trim, persist |
| Resources | `node/resource/`, `src/src/cli/commands/prune/` | image and volume records | resync, preload, remote volumes, prune |
| Logs, statistics | `node/task/loggers/`, the log stream of `provider/ContainerStateManager.ts` | log kept per op, ring buffers, subscribers | follow, append, trim, stream |
| Interpolation, global store | `node/task/globalStore/`, `node/task/interpolation/` | results of ops | interpolate, collect |
| Health, balance, stake, grid, key, register | `node/*` | none | checks against remote services |
| Monitoring | `monitoring/state`, `log`, `proxy`, `streaming` | the job and endpoint it thinks are current, the console's spinner and quiet window | announce calls as states, log entries and console lines |
| Ping, CLI, SDK, IPFS, host manager client | `monitoring/ping`, `src/src/cli`, `sdk/`, `clients/` | none that matters | formatting, parsing, remote calls |

### How they interact

* The **node manager** loops: a node queues, gets a run, and gives it to the **job handler**, which
  validates the definition, builds a **task manager** and calls its `start()`.
* `start()` walks the plan group by group. Every op it launches is a promise
  (`runTaskManagerOperation`) that calls the **provider** with an event emitter and an abort signal.
  The provider's events (`start`, `exit`, `error`, `end`) and the probes' event
  (`healthcheck:startup:success`) come back through listeners that write the op's status in memory
  and its state in the **repository**; the last of these also launches the ops that depend on it.
* The API, the expiry timer, the account monitor and the shutdown path call into the same task
  manager through a **registry**, in the middle of all that.
* A start that fails on a stale GPU runtime makes the **podman manager** recreate its container,
  which restarts, through the registry, the ops that run inside it. The node's loop recreates it too,
  between jobs, and so does the watcher of the event log that podman's container writes.
* While a container runs, the **state manager** polls or waits for its exit and follows its log, and
  the **health check** probes its ports and may restart it in place under both.
* Before it queues, the node brings the images and volumes of its market through the **resource
  manager**, and the ops of a job ask the same manager for theirs.
* Most classes are called through a **logging proxy** that announces each call, its return or its
  throw; states, log entries, sockets and the console are made from these announcements.

### What is hard

Everything is one JavaScript thread, so there is no data race; the difficulty is what happens
between two awaits. One op's promise, its emitter, its abort controller, its lock, its placeholder
in the group and its two statuses (progress in memory, result in the repository) are set and cleared
by different handlers, at different microtasks, and a request can come between any two of them. The
full list, each at its line, is `hazards` in PROJECT.json. In short:

* an abort that comes between the scheduling of a run and the listener that would hear it;
* promises that join the group after `Promise.all` has taken its snapshot;
* a restart that is half done (lock, placeholder) when its group, its job or its server ends;
* a release by several dependencies, or by one that reports itself up twice;
* a late stop, cascade or abort that meets an outcome already written;
* teardown that throws, podman that goes stale or does not come back, two callers that recreate it
  at once, and an event log read while it is written, cut and replaced;
* answers of docker that are old when they arrive: an inspection, a probe or a restart in place of a
  container that has changed since;
* a stream that is cut in the middle of a line and followed again from a second known in part;
* a death of the process between creating a volume, recording it, filling it and marking it complete;
* listeners that remember the last job while calls of an earlier one still answer;
* a crash and restart of the node in the middle of a job, a signal while another handler holds
  `exiting`, and the stop reasons (poster, expiry, end of the work, quit) that race.

### What makes each component correct

* *Task manager*: no run is lost, doubled, left unaborted or never awaited; an outcome stands once
  recorded; ops start in the order of their dependencies and groups; servers end with their clients;
  every lock is released and `stop()` returns.
* *Execution plan*: every op in exactly one stage, dependencies symmetric and inside a stage,
  servers before what they serve.
* *Job handler, node*: a run the node was assigned is closed, also across failures and crashes; what is
  posted is a flow that ended; a job at work is not disturbed, and leaves nothing to the next one.
* *Node manager, wrapper*: a signal always leads to one shutdown; a restart never runs with a
  shutdown; the exit code tells the wrapper what to do.
* *Podman manager*: no start on a container that is being replaced, what is held is let go, each job
  gets a podman no other job used, a fault its watcher logs is acted on.
* *Container monitoring*: an exit is never made up and always found; a port's status follows its
  service down and up. *Logs*: bounded, in order, nothing garbled or twice, complete when read.
* *Resources*: the records say what the runtime holds, wherever it fails; no op runs on half a download.
* *Monitoring*: what is said of a job goes to that job; the console does not fall silent.

## 2. What is modelled

| module | content |
|---|---|
| `TaskManager` | one job's life in the task manager, with the part of the provider that runs its ops |
| `JobFlow` | what a task manager promises to the job handler; `TaskManager` refines it |
| `ExecutionPlan` | the four functions that turn a definition into a plan, as operators |
| `Bootstrap` | `TaskManager.bootstrap()` over every small definition, and its properties |
| `JobLifecycle` | the jobs of a node one after the other: node manager, node, job handler, registries, expiry, shutdown, with failing services, crashes and the chain |
| `PodmanRuntime` | the podman manager, the container behind it, its event log, the node's loop and the ops that stand on it |
| `ContainerWatch` | how a running container is watched: polls, probes, restarts in place, endpoint statuses |
| `OperationLog` | how the log of a container is followed over a stream that breaks, kept and read |
| `Resources` | the images and remote volumes of a node against its database |
| `Monitoring` | every announced call of the node, and the states, entries, streams and console it leads to |
| `TaskManagerProofs`, `BootstrapProofs`, `JobLifecycleProofs`, `PodmanProofs`, `ContainerWatchProofs`, `OperationLogProofs`, `ResourcesProofs`, `MonitoringProofs` | theorems |
| `MCTaskManager`, `MCBootstrap`, `MCContainerWatch`, `MCResources` | jobs, definitions and setups for TLC (the other instances are in their configurations) |

### TaskManager

*Granularity.* An action is one macrotask (a request, a container event, a timer) with all the code
it runs to its last synchronous line, or one promise reaction. Reactions (`Settle`, `AwaitAgain`,
`GroupEnd`, `FailFlow`, `RuntimeReady`, `RuntimeFails`, `RetryFails`) are microtasks and run before
the next macrotask: every macrotask action has the guard `Quiet`. `Settle` does in one action the
`finally` of `trackGroupOperationPromise` and the background continuation of the stop or restart
that awaited the same promise; the code runs both before the reaction of `Promise.all` in `start()`,
so nothing can come between.

*State and code.*

| variable | code |
|---|---|
| `pc` | where `start()` is: not called, in a group's `Promise.all`, in the clean up, returned, rejected |
| `currentGroup` | `currentGroup`, as a position in the plan; 0 is `undefined` |
| `flowStatus`, `opState` | `flow.state.status` and `opStates` in the repository: status, and whether `startTime` and `endTime` are set |
| `operationStatus` | the map of the same name, which the API shows and the loop reads |
| `abortReason`, `stopLock` | `mainAbortController.signal.reason`, the `stop:<job>` lock |
| `runs[op][slot]` | one call of `runTaskManagerOperation`: phase, abort reason, whether it was given dependents (`notifies`), the provider's `retried`, its timeout timer (`armed`), whether its emitter lost its listeners to a later run (`muted`) |
| `abortControllerMap`, `tracked`, `holds` | the controller map; `currentGroupOperationsPromises`, its ops and its `::restart-block` placeholders |
| `lockedOperations`, `finaliser` | the lock of a stop or restart; the promise its background part awaits |
| `awaited`, `rejected` | the snapshot `Promise.all` is waiting for, and whether one of it rejected |
| `leaked` | main-abort listeners of runs that threw before they could remove them |
| `runtime` | podman: up, being recreated, failed |

*Actions and code.* `Start`, `AwaitAgain`, `GroupEnd`, `FailFlow` and `CleanUp` are the loop of
`start()`. `StopOperation`, `StopGroup`, `RestartOperation`, `RestartGroup` and `JobStop` are the
handlers under `operations/` up to their first await. `ContainerStarted`, `StartupSuccess`, `Exit`,
`Fail`, `LoseExit`, `VolumeDone`, `TeardownDone` and `Timeout` are the provider's events with what
the listeners of `runTaskManagerOperation` do on them; `RuntimeStale`, `RuntimeReady`, `RetryFails`,
`RuntimeFails` and `RecreateEnds` are the provider's retry and its wait for podman. `Launch` is
`setUpOperationFunc` and `runTaskManagerOperation` up to its first lasting await, including the
check of the main controller.

*Abstractions.* Exit codes, logs, results, secrets and times are left out: an op state is its
status and which of its times are set. Interpolation is a choice to throw, for the ops that
interpolate. Whether podman is still fresh when a start fails is a choice. A recreate restarts the
running ops in one step although the code awaits each acknowledgement in turn (the acknowledgement
does not wait for the run). `RuntimeStale` may happen to any first attempt before the container is
up, which is more than the error messages the code looks for. The database writes are taken to be
synchronous, as lowdb's in-memory part is.

*Bounds.* `MaxLive` bounds the runs of one op alive at once: a launch that finds no free slot does
not happen. `EveryRunIsAwaited` says that an op's one tracked run is its only one, so the second slot
of `served` is never used and the bound cuts nothing; `progress` uses 1 for that reason. In `failing` a restart and a retry can want more, and
what 2 cuts is not examined. Nothing else is bounded: requests may come at any time, for ever.

### JobFlow

Six variables: where `start()` is, the outcome of the flow, the ops at work, the ops recorded as
failed, whether `stop()` was called and whether it has returned. It says what `jobHandler.ts` takes
for granted when it posts a result: nothing starts after `stop()`, the outcome is written once, when
nothing is at work, and is a failure exactly when an op failed; what is recorded then changes only by
a late `stop()`, which may fail ops that never started; `stop()` returns after `start()`.
`ImplementsJobFlow` instantiates it with `phase <- Phase` (a reading of `pc`), `outcome <-
flowStatus`, `atWork <- WorkingOps` (a working run that was not aborted), `failed <- FailedOps`.
Where a container cannot be removed, `TaskManager` does not implement it (section 3).

### ExecutionPlan and Bootstrap

`opMap`, `PlanErrors`, `createExecutionPlan` and `createDependencyMap` are the functions under
`executions/`; the plan is a recursive function of the ops the loop has seen. `Bootstrap` picks any definition of a given
set and takes the step of `jobHandler.start()`: a plan, or an `init error`.
`MCTaskManager` computes `GroupOf`, `Dependencies` and `Servers` of each job from these operators,
so the scheduler is checked on the plans the code would build.

### JobLifecycle

*Granularity.* What the code does from one await on a service, a timer or a task manager to the next
is an action; awaits that only pass through microtasks are not interleaved. So `Clean` is one
step for `nodeManager.clean()`: the registry's posts are its only real waits, and no task manager is at
work when it is called (which is what `WorksUndisturbed` checks).

| variable | code |
|---|---|
| `main` | where `startNode()` and `NodeManager.start()` are: `init()`, the checks, `pending()`, `queue()`, the race of `run()` and `monitorMarket()`, `clean()` and the delay of a restart or of the catch, the exit, returned (`left`), no process (`down`) |
| `exiting`, `signalled`, `inJobLoop`, `nodeExiting` | the fields of `NodeManager` and `Node` |
| `shutdown` | the signal handler: leaving the market, stopping task managers, posting what is left |
| `run`, `runPc`, `job`, `reason` | `RunHandler.run`, the position of `Node.run()`, `JobHandler.id`, what `stopReason` resolved with |
| `registered`, `task` | the job registry; the task manager registry, of which there is one entry at most: working, or with the stop lock held by the expiry or the account (`stopping`) or by the shutdown (`quitting`) |
| `finishing`, `listening`, `expiryArmed`, `aborted` | `JobHandler.finishing`, the account subscription, the expiry timer, the node's abort controller |
| `flow` | the status of the flow in the repository, which a crash does not lose |
| `queued`, `assigned`, `onChain`, `result` | the chain: queue, run account, job accounts |

The task manager appears as what `TaskManager` shows of it: `start()` ends, with a flow that has
ended, or rejects, and ends for certain once stopped (`StopCompletes`). Its flow ends with it in one
step, although the code removes containers in between.

*External.* `Assign`, `PosterStops`, `PosterExtends`, `Crash` and `Post` are the chain and the operating
system as `src/` uses them: a run needs a queued node, a stopped or finished job has no run,
`submitResult` needs the run and `complete` a stopped job.

*Abstractions.* A call to a service may fail, at the places where the code makes one, in one action per
handler of the failure (`NotReady`, `MarketFails`, `RunFails`, `FinishFails`). Times are left out: the
expiry timer may fire whenever it is set, and a claimed job may turn out to have expired. Terminal
errors (banned, not qualified, blocked, already active) leave like the others. A definition the
poster sends late goes on loading after the node has given up on it; what it writes then is left out.
A listener of an earlier job that is still registered only aborts the controller a moment earlier,
which nothing reads in that time.

*Bounds.* `MaxFailures`, `MaxCrashes` and `MaxSignals` are budgets: every failure, crash and signal takes
one of them, at any moment. Two jobs are enough for what one leaves to the next; one of the two is
confidential (its poster sends the definition), the other not.

### PodmanRuntime

A step of an async function between two awaits is an action, and `TurnOver` gives promise reactions
their turn before anything else.

| variable | code |
|---|---|
| `host` | the GPU driver of the host, whether only a reboot mends it, and the failures to come |
| `podman` | the container: absent, created or running, the driver it is a snapshot of, whether an op has used it |
| `stale`, `fresh`, `prepared` | `staleReason`, `fresh`, `prepared` of `PodmanManager` |
| `step` | where `ensureRunning()` and `doRecreate()` are, each with its docker calls |
| `op` | the runs of a job's ops: in `gpuRuntime.ready()`, starting, working, in `gpuRuntime.recreate()`; aborted, to be launched again, `retried` |
| `node` | the loop of `Node.ts` around `recreate('between jobs')`, the health check and the queue |
| `log`, `reader` | `cdi-events.log`, and `drained` and the remembered head of `reportPodmanDiagnostics.ts` |

`Launch`, `ReadySettles`, `StartFails`, `Repair` and `RepairSettles` are the provider's calls into the
manager. The log is counted in writes of half a line; a head is this log's or another's. *Bounds*:
`MaxDriver` replacements of the driver, `MaxLog` writes, `MaxFaults` failing calls, `MaxCrashes` deaths.
Container configuration, the order of the parts of `prepare()` and the scheduling of ops (which is
`TaskManager`'s) are left out.

### ContainerWatch

A question to docker or to a port is answered as things stand when it is asked and the answer arrives
as an action of its own, so any answer may be old. A probe is a slot of its port: dropping the interval
leaves a check under way to arrive, and an interval that no handle leads to cannot be dropped.
`Poll`, `InspectArrives`, `WaitSettles` and the three `Restart...` actions are `ContainerStateManager`;
`ProbeTick`, `StartupArrives` and `ContinuousArrives` are `ExposedPortHealthCheck` with what the listeners
of `runTaskManagerOperation` do of it to the endpoint's `status`; `WaitForExit`, `CleanUp` and `Abort` are
the run. What a check sends and compares is a choice of its answer. `WatchAssumption` says that fewer than
three polls are late or failing at once, as polls come a second apart: three would be taken for an exit.

### OperationLog

A line is its place in what the container wrote and the second it was written in, which is all that
`attachLogStream()` compares. `Attach`, `Opens`, `OpenFails`, `PartArrives`, `LineArrives` and `Closes` are
the stream, `Poll` and `WaitSettles` the state it is followed in, `Drained` the provider's
`waitForLogsDrained()`; `saved` is `opState.logs`, which `NodeRepository.updateOpStateLogs()` trims. Docker
may cut a stream in the middle of a frame, and bring a container back by its policy; a liveness check
restarts it in place. The three polls that confirm an exit are one step here.

### Resources

| variable | code |
|---|---|
| `volume`, `image` | what the runtime holds: a volume is empty, partly filled or complete |
| `vdb`, `idb` | `resources.volumes` and `resources.images` of the database |
| `market`, `node` | what the market requires; the process, in the resync, the preload or a job, and the lists it fetched |
| `task` | a download under way, of the preload or of an op, and the op that mounts it |
| `prepared` | what the last completed preload made ready (only read by a property) |

`ResyncImage`, `ResyncVolume`, `Fetch`, `RequireImage`, `SkipVolume` and `PreloadVolume` are
`ResourceManager` at each `setup()`; the steps from `CreateVolume` to `SetVolume` are `createRemoteVolume()`
with its failure path; `HasVolume`, `PullImage` and `Mount` are what an op does; `Prune` is the command. The
process may die between any two, and the next one finds database and runtime as they are. A resource
has one bucket, ages are a day or not, usage counts and private images are left out.

### Monitoring

`Script` is the table of the announced calls of the node's main line, from where to where it goes with
each; ops' calls, the queue's and the shutdown's are actions beside it. Every action announces at most
one call, return or throw, and `Announce` does with it what `NodeState`, `NodeLog`, `StateStreamer`,
`LogStreamer` and `ConsoleLogger` do, in the order they listen in. Calls of ops may answer after their
job. What is said is left out, and so are the branches for methods that no class has any more.

## 3. Runs

Passing runs; `CHECK_DEADLOCK FALSE` because a job ends, a budget runs out or a node leaves.

| run | instance | shows |
|---|---|---|
| `served` | a probed server and its timed client on a podman that goes stale and is recreated; all four requests, an expiry and a quit | no run lost, doubled or missed by an abort, locks only on ops that are ending, outcomes final, `JobFlow` implemented |
| `chain` | a volume and an op on it; then two ungrouped ops, each a stage, the first releasing the second; interpolation failures, a timeout, stops | the order of dependencies and groups, and no release lost |
| `failing` | a pair on a podman that goes stale, teardown that throws, restarts, a quit | an abort still reaches every run |
| `progress` | server and client, stops and restarts, under fairness | `stop()` returns, locks are released, servers end |
| `bootstrap` | all definitions of three ops over a named group or none, six dependency sets, one of them an unknown op and some the op itself, both directions, a duplicate id or none | the plan and the map are what the scheduler takes for granted |
| `lifecycle` | two jobs, one of them confidential; one failing call, one crash, one signal, any stop or extension by the poster | a job is undisturbed and starts afresh, its result is that of an ended flow, its run does not stay open |
| `podman` | two ops, two replacements of the driver, four half lines, one failing call, one crash | nothing starts on a podman that is being replaced, what is held goes on, jobs get a new one, a fault is noticed |
| `watch` | two ports in three setups (polled and restarted in place; polled and restarted by docker; waited for), two intervals a port, one fault, three changes, one restart | an exit is never made up and is found, a fall is reported, ports come back |
| `resources` | two ops with a resource each, one shared image, three volumes, one failing call, one crash, one change of the market, prune, two jobs | the records are true, no op runs on half a download, what a market requires is there |
| `oplog` | four lines in two seconds, a log of two, two cuts, two restarts | the log is in order and whole but for a split second, results have the last line, it is followed again |
| `monitoring` | two jobs, two claims, one throw anywhere, a shutdown at any moment, two calls of ops under way | states and entries go to their job, no old endpoint, the console speaks again |

Why the instances are enough. A hazard of the scheduler is between one op and what it is tied to, that
is its dependency, its client, its group, or the next group; two to four ops give each of these, and a
third client or a longer chain adds no new handler. Every request can come at every quiet moment, and
repeatedly. Two ops on podman are one that recreates it and one that joins or is held; two replacements
make a recreate stale before it ends. Two ports give one that fails and one that is dropped with it, and
two intervals one that leaks. Two resources are one of the preload and one of an op at a time; a third
volume is one that no record names. A log of two and four lines trims twice. Two jobs are one and what
it leaves to the next. What the theorems of section 5 state holds beyond these bounds.

### Fairness

`FairSpec` of `TaskManager` assumes that a due promise reaction runs, that an aborted container is noticed
(`waitForExit` polls the signal and the creation path checks it), that a teardown ends, that the
clean up ends and that a recreate ends with an answer. These are timers and I/O callbacks, which
the event loop serves in turn however many requests come in between; they wait for `Quiet`, hence
strong fairness. Nothing is assumed of requests, health checks or a container exiting by itself: a
container may run for ever unless something aborts it, which is what makes the liveness properties
say anything.

`FairSpec` of `JobLifecycle` assumes that services answer (with success or a failure), that timers that
are set fire (delays, the expiry), and that a stopped task manager ends. Nothing is assumed of
the poster, of an op ending by itself, of the account subscription, of the market time out, of
signals, or of a dead process being started again. The budget of failures is spent at any moment,
so `RunsAreClosed` speaks of services that fail for a while and not for ever.

`PodmanRuntime`: docker answers, promise reactions run, a start succeeds or fails, and the file watch
reports what is written (strongly, as lines keep coming). Jobs, stops, failures and the host owe nothing.
`ContainerWatch`: intervals tick and what docker or a port answers arrives; no restart has to fail and no
service has to come up. `OperationLog`: timers fire, docker opens a stream or refuses it, a stream brings
what it has, and what is stopped comes back; a container owes neither lines nor an exit.

### Divergences between the code and what is said of it

`repairs_once` is a run that must be violated: on a host that only a reboot would mend, a start that fails
recreates podman, which restarts this very op with `retried` unset, and so on without end.
`Provider.ts:476` says "Once only, and not when the recreate's own restart of this operation (the abort)
relaunches it."

Others, read in the code while modelling and not given a run. The properties are stated so as to hold
beside these, and their comments name the exceptions.

*Task manager*

* An op starts when its *first* dependency is up (`runTaskManagerOperation.ts:487`; Multi Operations:20 says
  all of them).
* A server that is being restarted when its client ends is never stopped (`TaskManager.ts:782`;
  `createDependencyMap.ts:17` says it is).
* A quit during the stop by the expiry does not wait for `start()`, and an open flow may be posted
  (`TaskManager.ts:727`, against its comment at 715).
* A restart that names the active group restarts an op of any other group (`restartTaskManagerOperation.ts:31`;
  its comment at 28 says only ops of the active group restart).
* A promise that rejects, when a container cannot be removed, ends the group under the ops still running
  (`TaskManager.ts:646`; the comment at 643 says the group waits for all). This is why `ImplementsJobFlow`
  needs `TeardownMayFail` to be false.
* The stop of a group skips an op that is being restarted, which then runs
  (`stopTaskManagerGroupOperation.ts:46`; Multi Operations:131 says no new ones start).
* A quit in the clean up makes ops failed in a flow that stays a success
  (`stopAllTaskManagerOperations.ts:60`; `TaskManager.ts:537` says a failed op fails the flow).
* A restart of a *waiting* op launches it without looking at its dependencies
  (`restartTaskManagerOperation.ts:147`; Multi Operations:129 says they are checked again).
* An op whose dependency was stopped before both started is launched by the loop, which takes
  `stopped` for satisfied (`TaskManager.ts:592`; Multi Operations:127 says it remains blocked).
* A restart of a client stops its server, which nothing starts again (`TaskManager.ts:768`; Multi
  Operations:129 says the other ops are unaffected).
* A restarted op is given no dependents, so what waits for it is never released
  (`restartTaskManagerOperation.ts:155`).
* While podman is being recreated, an op that was launched keeps the status `waiting` until its run is let
  go on, so a server that reports itself up again, or a second dependency, launches it a second time
  (`runTaskManagerOperation.ts:487`; its comment at 488 says only an op that has not started may be
  released). It takes three ops, as the recreate restarts whatever else runs: one
  that finds podman stale, and a server still starting then, with its client. TLC refutes
  `EveryRunIsAwaited` there.
* An exposed op without a health check never reports itself up, so its dependents never start
  (`Provider.ts:435`; Multi Operations:22 says such an op is ready when it runs).
* A server of two clients is stopped when the first one ends (`TaskManager.ts:781`).
* Two ops that wait for each other, and ungrouped ops that depend on one another, pass
  `validateExecutionPlan`; the first never run and the flow is a success (Multi Operations:16, 23).

*Jobs*

* A flow that exists when its run is taken up again ends as an `init error` (`jobHandler.ts:275`;
  `TaskManager.ts:515` and `ApiHandler.ts:288` speak of one that is resumed).
* A signal during a clean up starts no shutdown; a later failure then leaves the loop and the process
  stays (`action.ts:26`, against its comment at 25).
* A definition that fails validation has no flow to record it in, so recording it throws
  (`jobHandler.ts:219`).
* A job that expires while the account's 'stopped' is still stopping it ends as `expired`, as the second
  `stop()` returns at once: `submitResult` of the closed run fails, and the clean up forgets the job
  without a result (`Node.ts:320`).
* After a restart, the result of a job that has expired meanwhile is its flow as it was: running
  (`Node.ts:278`).
* A signal while a result is being posted lets `run()` resolve into `restart()`, which returns as `exiting`
  is set; the loop goes round and may join a market that the shutdown has just left (`index.ts:266`).

*Podman*

* `Node.ts:203` says that `ensure()` recreates a podman whose mounts went stale; it only starts what is there.
* `ready()` clears `fresh` before it waits, so that what it held uses a container that still counts as not
  used (`PodmanManager.ts:64`). It shows only where the job is stopped, as otherwise a run the recreate
  restarted clears the flag again: the next job may then start on a used podman.

*Container monitoring*

* A restart in place forgets the tracked states without an OFFLINE, so a sibling port that does not come
  up again stays ONLINE, although 145 of `ExposedPortHealthCheck.ts` seeds the state so that a service
  that goes down and stays down is reported.
* A third inspection that fails ends the polls, and a restart in place that returns before `waitForExit()`
  looks takes the exit back: it is then never seen.
* A start-up check under way when the probes are stopped starts an interval that nothing clears (256); a
  failed restart in place arms no probe again; a start-up check listed among others makes the continuous
  probe stop after its first pass.
* The check of a WebSocket asks the proxy's own container for the service.
* An op that ends by itself leaves its endpoints ONLINE, and `op.args.private` replaces the secrets of every
  endpoint (`Provider.ts:316`).

*Resources*

* Two ops that want one resource at once both fill a volume and one is recorded, as complete once either is:
  `DatabaseIsTrue`, `OpsHaveTheirResource` and `RequiredIsKept` fail if `Wants` gives two ops the same
  (`volumeManager.ts:203`, `db/index.ts:50`), the last as a later preload takes the record's word.
* `hasVolume()` takes an error of the listing for a no, and the entry goes (`ListMayFail`).
* `prune` removes volumes that the market requires when a preload skipped them, as only those it makes are
  marked (`src/src/cli/commands/prune/command.ts:5` says only what is not required).
* An image that is pulled with credentials is never recorded.
* The clean up of a volume deletes it when it does *not* exist (`Provider.ts:727`).
* A `setup()` after the first fetches the market's list twice in a row.

*Logs*

* A stream that closes while the state is `starting`, or was polled as `restarting`, is never opened again
  (`ContainerStateManager.ts:147`); an op without a policy never leaves `starting`.
* Lines of the second of the last one heard are lost when a stream is opened again.
* The statistics interval outlives the monitoring, and the route for logs may subscribe a closed socket.

*Monitoring*

* After a restart by the market time out, and after announcements of errors that nothing handles, the
  console keeps an entry pending with its spinner stopped.
* A task start that throws leaves the quiet window open until the next task.
* A run that ends without `finish()` leaves its job and endpoint with the state.
* `pullImage` returns nothing, so its state is always that of a failure.
* The provider's `apiOrchestration` is not behind a proxy, so its calls are not announced.
* If `stop()` of the node throws in the signal handler, the process does not exit.

## 4. Properties

Of `TaskManager`: *safety* `TypeOK`; `AbortReachesEveryRun`; `EveryRunIsAwaited`; `LockedRunIsEnding`;
`StartsInOrder` (`StartsAfterDependency`, `GroupsInOrder`); `OnlyBlockedOpsWait`. *Action*: `OutcomeIsFinal`;
`StoppedStaysDown`. *Refinement*: `ImplementsJobFlow`. *Liveness*: `StopsReturn` (`StopCompletes`,
`LocksReleased`); `ServerStops`.
Of `Bootstrap`: `PlanIsSound` (`PlanPartitions`, `DependenciesSound`, `ServersGoFirst`).
Of `JobLifecycle`: `TypeOK`; `WorksUndisturbed`; `ClaimsAfresh`; `PostsWhatEnded` (`PostsEndedFlows`,
`CompletesStoppedJobs`); liveness `RunsAreClosed`.
Of `PodmanRuntime`: `TypeOK`; `HeldWhileDown`; action `JobsGetNewPodman`; liveness `FaultIsNoticed`,
`HeldRunsGoOn`; `RepairsOnce`, which is refuted.
Of `ContainerWatch`: `TypeOK`; action `ExitIsReal`; liveness `ExitIsSeen`, `FallIsReported`, `PortsComeBack`.
Of `OperationLog`: `TypeOK`; `KeepsTheLog` (`KeepsTheNewest`, `OnlyTheSecondIsLost`); `ResultsHaveTheLastLine`;
liveness `FollowedAgain`.
Of `Resources`: `TypeOK`; `DatabaseIsTrue` (`VolumesAreKnown`, `SavedIsComplete`); `OpsHaveTheirResource`;
`RequiredIsKept` (`JobsFindRequired`, `PruneKeepsImages`).
Of `Monitoring`: `TypeOK`; `OnlineIsOurs`; `QuietWindowEnds`; action `SpeaksOfTheJob` (`LogsOfTheJob`,
`StatesOfTheJob`).

Each is preceded in its module by what it means and what code it is about, and for each PROJECT.json
names a mutant of the model (an operator kept beside the one it would replace, marked `Mutant:`) that
breaks it.

## 5. Proofs

*TaskManagerProofs*, for every job, plan and set of requests, with or without a managed podman and
failing teardown, and every `MaxLive`:

* `TypeCorrect`: `Spec => []TypeOK`, which is inductive by itself. One lemma per group of operators
  (`Launch`, the stop and restart helpers, `Reports`, `EndInError`) and one step per action.
* `AbortReachesEveryRunAlways`: inductive together with `TypeOK`, which tells that `abortReason`, once set,
  is a reason. A run launched under an abort resolves at once (`LaunchPhase`); the abort itself reaches
  every working run (`JobStop`); and no step that moves a run to another working phase clears its abort.
* `StoppedStaysDownAlways`: the loop launches pending ops, a release those that never started, and a
  stopped op has another status; `Unstarted` says that before `start()` no op is stopped.

Four more need that containers can be removed (`~TeardownMayFail`), that a podman that goes stale comes back
(`GpuRuntime => ~RuntimeMayFail`), and that no op is released twice while podman holds it (`ReleasedOnce`: on a
node with a managed podman nothing depends on a probed op, or on two ops; on other nodes it says nothing):

* `EveryRunIsAwaitedAlways` and `TaskManagerImplementsJobFlow`. The invariant adds `InOrder` to the above:
  an op has one run at most and it is the tracked one (`OneTracked`); no run is about to reject, only a
  managed podman holds one, and the events of every run are heard (`RunsCalm`); what waits to be launched
  has no start on record, and has no run, or has one that podman holds while all that could launch it
  again has reported itself up or ended (`Spent`), and nothing waits after a `stop()` (`Queued`); a failure
  is recorded when a run ends or by `stop()` (`Recorded`); outside the group there is no run, and podman is
  up or being recreated (`FlowInOrder`).
  The refinement has one step per action, most of them `Work` or a stutter of `JobFlow`, those of podman
  included.
* None of the three can be dropped. A promise that rejects ends the group under ops at work (section 3), and
  a start can only reject when a container cannot be removed or when podman, which holds it, does not
  come back. Without `ReleasedOnce` an op gets two runs, as section 3 tells.
* `LockedRunIsEndingAlways` and `OutcomeIsFinalAlways`. The invariant adds `Ordered`: a tracked promise is
  that of a run, the controller of a working run is in the map, and what its op recorded is open, from its
  first report on (`Led`, `AtWork`); what counts as running has a run, so that podman's restart of the running
  ops launches none at once (`Running`); an op is locked exactly while something awaits its tracked
  promise, whose run, if at work, was told to end (`Locks`); until `stop()` drops them the restart blocks are those of the ops being restarted
  (`Blocks`). A step is then a launch of ops without a run (`LaunchLed`), a run that goes on (`RunLed`), an
  abort (`ToldLed`), a lock (`LockLed`) or a run that is gone (`DropLed`); a recorded outcome stands
  because what reports one is a run at work, whose op is open.

The order of starts needs `~TeardownMayFail`, no managed podman (`~GpuRuntime`) and no restarts:

* `StartsInOrderAlways` and `OnlyBlockedOpsWaitAlways`. A restart, the request's or podman's,
  starts an op whatever it waits for and clears what its last run recorded, and with restarts allowed TLC
  refutes both on a chain. The invariant adds `InSequence`. Until the job is stopped, status, record and run
  of an op agree (`Kept`); an op that waits for one other starts only when that one is past its own start
  (`AfterDependencies`); whatever shows itself releases all that waits for it, where the set of ops still
  to be launched in the same step is a parameter (`Releases`); the loop leaves waiting only ops with
  dependencies (`Waits`). Stopped or not, a run is of the active group or of a later one, released by an
  op that has run (`Grouped`). The attempt showed that the last holds only of plans that list an op's
  group after those of its dependencies, so `GroupsInOrder` now says so (`DependenciesFirst`): in other
  plans the loop has passed the client's group by when the server releases it.

All rest on `PlanAssumption` and `KindAssumption`, which say only what `build()` ensures of a plan.

*BootstrapProofs*, for every set of definitions a client may post:

* `PlanIsSoundAlways`. `Built` is the invariant of the loop that fills the plan: after `n` ops its stages have
  different groups, a stage lists exactly the ops of its group among the first `n`, each once and in order
  (`Lists`, `Placed`), and stages come in the order of their first ops (`FirstsInOrder`). It holds after every pass by
  the least pass at which it would not (`LeastNumber`, from `WFMin`), in place of an induction. That a
  definition has no error of `PlanErrors` then keeps dependencies in their stage.
* `FitsSchedulerAlways`: of an accepted job the plan and the map satisfy what `TaskManager` assumes of its
  constants in `PlanAssumption`. So what is proved there holds of every plan `build()` makes.

*PodmanProofs*, for any ops, drivers, log lines, faults and crashes:

* `PodmanTypeCorrect`; `HeldWhileDownAlways`, inductive with `NoEarlyAnswer` (no promise has settled while the
  recreate is under way); `JobsGetNewPodmanAlways`, from `NewPodman`: `ensure()` and
  `recreate()` are at work at their places of the loop only (`CallsApart`); what is being created is unused
  (`NewContainer`); runs are of the job (`RunsOfTheJob`); and a container that counts as fresh is used in a
  job only while a run that the recreate restarted is still to follow (`SomeRunFollows`), which clears the
  flag, so that between jobs a fresh one is unused, unless the job was stopped (`UnusedBetweenJobs`).

*JobLifecycleProofs*, for any finite set of jobs and any budgets:

* `LifecycleTypeCorrect`, `WorksUndisturbedAlways`, `ClaimsAfreshAlways`, `PostsWhatEndedAlways`. The joint
  invariant ties `main`, `runPc` and `task` (`Placed`), the queue (`OutOfQueue`), what a job leaves behind
  (`CleanedUp`), the reason it ended for (`EndIsTrue`) and the flows (`OneOpenFlow`).

*ContainerWatchProofs*, for any ports, setups and bounds with `WatchAssumption`:

* `ExitIsRealAlways`. While a container lives, the checks counted, the late inspections under way that will
  count (a cardinality, hence `FiniteSetTheorems`) and the faults used stay within `MaxInspects + MaxFaults`,
  which is less than three (`TooFew`).
* `WatchTypeCorrect`: the restarts in place stop at their limit, and every probe and handle is in a slot of
  its port. A first free slot exists because a set of slots has a least one (`FirstFree`, from `WFMin`).

*OperationLogProofs*, for any bounds:

* `LogTypeCorrect`; what a stream has to bring next is a least place, as above.
* `KeepsTheLogAlways`, from `Followed`: seconds do not come back (`Written`); `last` is the second of the
  newest line heard (`LastIsNewest`), so that a stream has yet to bring only what is newer (`Resumes`); half a
  frame does not outlive its stream (`PartIsOfTheStream`); only what was written is heard (`HeardWasWritten`).
* `ResultsHaveTheLastLineAlways`, from `Settled` as well: while nothing cuts a stream and docker restarts
  nothing, an exit is only known once the container is down and no stream is being opened, and a stream
  that stays closed was brought to its end (`Complete`).

*ResourcesProofs*, for any resources, volumes, images and budgets:

* `ResourcesTypeCorrect`, without a hypothesis.
* `OpsHaveTheirResourceAlways` and `RequiredIsKeptAlways`, assuming that no two ops want one resource
  (`OwnResources`), and `DatabaseIsTrueAlways`, assuming `~ListMayFail` as well. Section 3 says how each fails
  without. The invariant `Consistent`: downloads belong to the preload while it lasts and to the ops after it
  (`TasksInPhase`); no two entries name one volume and a new one has no user yet (`VolumesApart`); what a
  task fills or mounts is what the entry names (`TasksHaveTheirEntry`); what the resync has looked at stays
  until a failed download deletes it (`EntriesStand`); what is not recorded has no entry and what is being
  forgotten no volume (`NewAndGone`); what is required and no longer to do is there (`ImagesThere`,
  `VolumesThere`) and stays marked (`PreparedThere`). A failed listing may drop an entry at any time, so all of
  it but `VolumesAreKnown` is proved with failing listings.

*MonitoringProofs*, for any jobs and bounds:

* `OnlineIsOursAlways`, `SpeaksOfTheJobAlways`, from `Remembers`: what `NodeState` and `NodeLog` remember is
  the job of the main line wherever `Script` has one. The proof goes through the table once, for the
  methods that set, speak or forget.
* `MonitoringTypeCorrect` and `QuietWindowEndsAlways`, from `ConsoleInv`: an open window is that of the task that
  runs, unless one threw or a shutdown began (`WindowIsOurs`), and the console is killed exactly from the first
  announcement of the shutdown to its last. Each entry of the console's table is looked at once, for what
  it does to a console and what it leaves alone (`EntryShown`, `EntriesArePlain`, `PlainShown`).

TLC evaluates every assumption in the runs.

*Only model-checked.* The liveness properties, as the prover has no backend for fairness and `ENABLED`
here, and `served` itself, whose client depends on a probed server: with two ops podman cannot hold the client
while the server may report itself up again, but `ReleasedOnce` does not tell jobs of two ops from others. The
order of starts in jobs that restart an op, by request or with podman, is neither proved nor claimed: the runs
that check it restart nothing. Where a container cannot be removed or podman does not come back, the first
three theorems and the run `failing` are all that is shown of the scheduler.

## 6. Not modelled

* *API handler and routes.* They parse a request and call the task manager, whose handlers are modelled.
  The server, its proxy and their checks are timers of their own and touch nothing of a job; what
  their start and stop announce is in `Monitoring`.
* *Interpolation and the global store*: a transformation of data; that it may throw is in `TaskManager`.
* *Health, balance, stake, grid, key, register*: sequential calls to remote services, no state.
* *Ping, error reports, CLI, SDK wrappers, IPFS, version check*: requests and argument parsing. The *host
  manager client* is generated.

Partly modelled:

* *Provider*: how container options are put together and the secrets of exposed ports are left out.
* *Job handler*: how results and definitions travel, and `clearOldJobs()`. A definition the poster sends
  late goes on loading after the node has given up on it; what it writes then is left out.
* *Node, node manager, wrapper*: most checks of `start()` and `setup()` are one choice to fail, terminal
  errors end like others, exit codes and installs are left out.
* *Run, market and expiry handlers*: positions in the queue, extensions and times. The expiry may fire at
  any time it is set, so nothing about its time is checked.
* *Repository*: what is stored of results. *Task logs*: the ring of statistics and the replay to sockets that
  subscribe, which keep no promise to a job.
