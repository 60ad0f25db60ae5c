--------------------------- MODULE PodmanRuntime ---------------------------
(***************************************************************************)
(* The podman container a node owns and what stands on it: PodmanManager,  *)
(* the reader of the events its CDI watcher logs, the node's loop around   *)
(* recreate('between jobs'), and the operations of one job, which wait on  *)
(* ready(), repair a stale GPU runtime and are restarted around a recreate.*)
(*                                                                         *)
(* The container is a snapshot of the host's driver.  A step of an async   *)
(* function between two awaits is one action; what is due in the present   *)
(* turn of the event loop goes before anything else (TurnOver).            *)
(*                                                                         *)
(* Left out: the contents of the container's configuration, the order of   *)
(* the five parts of prepare(), the two second poll of the socket, and the *)
(* scheduling of the operations of a job, which TaskManager models: here   *)
(* they all may start at once.                                             *)
(***************************************************************************)
EXTENDS Naturals

CONSTANTS
    Ops,          \* the operations of the job
    MaxDriver,    \* how often the host replaces its driver
    MaxLog,       \* writes to one event log, two to a line
    MaxCatchUp,   \* MAX_CATCH_UP, in writes
    MaxFaults,    \* steps of docker or of an operation that fail
    MaxCrashes,   \* deaths of the node process
    KernelBreaks  \* whether a replaced kernel module may ask for a reboot

ASSUME PodmanAssumption ==
    /\ {MaxDriver, MaxLog, MaxCatchUp, MaxFaults, MaxCrashes} \subseteq Nat
    /\ KernelBreaks \in BOOLEAN

VARIABLES
    host,      \* the driver, whether only a reboot helps, and the failures to come
    podman,    \* the container: its state, its driver, whether an op has used it
    stale,     \* staleReason is set
    fresh,
    prepared,
    step,      \* where ensure() and doRecreate() are; "no" when not called
    op,        \* the operations' runs
    node,      \* the loop of the node, and the recreate it awaits
    log,       \* cdi-events.log: its writes, and what came of its first event
    reader     \* drained, and how the head it remembers compares to the log

vars == <<host, podman, stale, fresh, prepared, step, op, node, log, reader>>
manager == <<stale, fresh, prepared>>
events == <<log, reader>>

Calls == {"ensure", "recreate"}
Steps == {"no", "removing", "inspecting", "preparing", "creating", "booting", "starting", "waiting"}

\* A run: idle (to be launched), ready (in gpuRuntime.ready()), starting (after 'start'),
\* working (its container is up), repairing (in gpuRuntime.recreate()), ended.
Run == [phase : {"idle", "ready", "starting", "working", "repairing", "ended"},
        await : {"none", "pending", "ok", "failed"},
        aborted : BOOLEAN, relaunch : BOOLEAN, retried : BOOLEAN]
Idle == [phase |-> "idle", await |-> "none", aborted |-> FALSE, relaunch |-> FALSE, retried |-> FALSE]

Recreating == step["recreate"] # "no"
Answers == podman.state = "running" /\ step["ensure"] = "no" /\ ~Recreating
GpuFails == podman.driver # host.driver \/ host.broken

\* No promise that has settled still has its reactions to run.
TurnOver == node.await \notin {"ok", "failed"} /\ \A o \in Ops : op[o].await \notin {"ok", "failed"}

Init ==
    /\ host = [driver |-> 0, broken |-> FALSE, faults |-> MaxFaults, crashes |-> MaxCrashes]
    /\ podman \in [state : {"absent", "created", "running"}, driver : {0}, used : BOOLEAN]
    /\ stale = FALSE /\ fresh = FALSE /\ prepared = FALSE
    /\ step = [c \in Calls |-> IF c = "ensure" THEN "inspecting" ELSE "no"]
    /\ op = [o \in Ops |-> [Idle EXCEPT !.phase = "ended"]]
    /\ node = [phase |-> "booting", await |-> "none", stopped |-> FALSE]
    /\ log = [writes |-> 0, first |-> "none"]
    /\ reader = [drained |-> 0, head |-> "none", watching |-> TRUE]

-----------------------------------------------------------------------------
(* PodmanManager: ready, recreate, ensureRunning, create, waitForSocket.       *)

\* Mutants of ready(): what is awaited is named and not its outcome; a start does not wait.
EntersReadyNamed(run, retried) ==
    [run EXCEPT !.phase = IF Recreating THEN "ready" ELSE "starting",
                !.await = IF Recreating THEN "recreate" ELSE "none", !.retried = retried]
EntersReadyAtOnce(run, retried) == [run EXCEPT !.phase = "starting", !.await = "none", !.retried = retried]

\* ready(): the run waits while a recreate is in flight, and goes on at once otherwise.
EntersReady(run, retried) ==
    [run EXCEPT !.phase = IF Recreating THEN "ready" ELSE "starting",
                !.await = IF Recreating THEN "pending" ELSE "none",
                !.retried = retried]

\* restartRunningOperations(): what runs is aborted, to be launched again.
Restarted(runs) ==
    [o \in Ops |-> IF runs[o].phase \in {"starting", "working", "repairing"} /\ ~runs[o].aborted
                   THEN [runs[o] EXCEPT !.aborted = TRUE, !.relaunch = TRUE]
                   ELSE runs[o]]

\* Mutant: a podman that is not stale is as good as a new one.
UpToDateIfNotStale == ~stale

UpToDate == fresh /\ ~stale

BeginRecreate ==
    /\ stale' = FALSE
    /\ step' = [step EXCEPT !["recreate"] = "removing"]
    /\ UNCHANGED <<fresh, prepared>>

\* Mutant: a recreate that fails lets nothing go.
WokenIfOk(outcome) ==
    IF outcome = "ok"
    THEN /\ op' = [o \in Ops |-> IF op[o].await = "pending" THEN [op[o] EXCEPT !.await = outcome] ELSE op[o]]
         /\ node' = IF node.await = "pending" THEN [node EXCEPT !.await = outcome] ELSE node
    ELSE UNCHANGED <<op, node>>

\* The promise of a recreate settles, and with it what awaits it.
Woken(outcome) ==
    /\ op' = [o \in Ops |-> IF op[o].await = "pending" THEN [op[o] EXCEPT !.await = outcome] ELSE op[o]]
    /\ node' = IF node.await = "pending" THEN [node EXCEPT !.await = outcome] ELSE node

\* ensure() or recreate() is over; the first only awaited by Node.start().
CallEnds(c, outcome) ==
    /\ step' = [step EXCEPT ![c] = "no"]
    /\ IF c = "recreate"
       THEN Woken(outcome)
       ELSE op' = op /\ node' = [node EXCEPT !.phase = IF outcome = "ok" THEN "looping" ELSE "down"]

Moves(c, from, to) ==
    /\ TurnOver
    /\ step[c] = from
    /\ step' = [step EXCEPT ![c] = to]
    /\ UNCHANGED <<host, op, node>>

\* remove({ force: true }), a 404 being as good.
RemoveContainer(c) ==
    /\ Moves(c, "removing", "inspecting")
    /\ podman' = [podman EXCEPT !.state = "absent"]
    /\ UNCHANGED <<manager, events>>

InspectContainer(c) ==
    /\ Moves(c, "inspecting",
             IF podman.state = "running" THEN "waiting"
             ELSE IF podman.state = "created" THEN "starting"
             ELSE IF prepared THEN "creating" ELSE "preparing")
    /\ UNCHANGED <<podman, manager, events>>

Prepare(c) ==
    /\ Moves(c, "preparing", "creating")
    /\ prepared' = TRUE
    /\ UNCHANGED <<podman, stale, fresh, events>>

CreateContainer(c) ==
    /\ Moves(c, "creating", "booting")
    /\ podman' = [state |-> "created", driver |-> host.driver, used |-> FALSE]
    /\ UNCHANGED <<manager, events>>

\* The new container replaces the event log as it boots.
BootContainer(c) ==
    /\ Moves(c, "booting", "waiting")
    /\ podman' = [podman EXCEPT !.state = "running"]
    /\ fresh' = TRUE
    /\ log' = [writes |-> 0, first |-> "none"]
    /\ reader' = [reader EXCEPT !.head = IF @ = "none" THEN @ ELSE "other"]
    /\ UNCHANGED <<stale, prepared>>

StartContainer(c) ==
    /\ Moves(c, "starting", "waiting")
    /\ podman' = [podman EXCEPT !.state = "running"]
    /\ UNCHANGED <<manager, events>>

SocketAnswers(c) ==
    /\ TurnOver
    /\ step[c] = "waiting"
    /\ CallEnds(c, "ok")
    /\ UNCHANGED <<host, podman, manager, events>>

\* Docker refuses, or the socket does not answer in time.
CallFails(c) ==
    /\ TurnOver
    /\ step[c] # "no"
    /\ host.faults > 0
    /\ host' = [host EXCEPT !.faults = @ - 1]
    /\ prepared' = (prepared /\ step[c] # "preparing")
    /\ CallEnds(c, "failed")
    /\ UNCHANGED <<podman, stale, fresh, events>>

-----------------------------------------------------------------------------
(* The node's loop.                                                            *)

\* healthcheck(): recreate('between jobs'), which the checks of the rest follow.
Healthcheck ==
    /\ TurnOver
    /\ node.phase = "looping"
    /\ IF Recreating
       THEN node' = [node EXCEPT !.phase = "health", !.await = "pending"] /\ UNCHANGED <<op, step, manager>>
       ELSE IF UpToDate
       THEN node' = [node EXCEPT !.phase = "health", !.await = "ok"] /\ UNCHANGED <<op, step, manager>>
       ELSE /\ node' = [node EXCEPT !.phase = "health", !.await = "pending"]
            /\ op' = Restarted(op)
            /\ BeginRecreate
    /\ UNCHANGED <<host, podman, events>>

EnterQueue ==
    /\ node.phase = "health" /\ node.await = "ok"
    /\ node' = [node EXCEPT !.phase = "queue", !.await = "none"]
    /\ UNCHANGED <<host, podman, manager, step, op, events>>

\* The health check throws, and the loop begins again.
HealthcheckThrows ==
    /\ node.phase = "health" /\ node.await = "failed"
    /\ node' = [node EXCEPT !.phase = "looping", !.await = "none"]
    /\ UNCHANGED <<host, podman, manager, step, op, events>>

\* periodicHealthcheck() finds the runtime stale or silent, and the queue is left for a restart.
LeaveQueue ==
    /\ TurnOver
    /\ node.phase = "queue" /\ (stale \/ ~Answers)
    /\ node' = [node EXCEPT !.phase = "looping"]
    /\ UNCHANGED <<host, podman, manager, step, op, events>>

TakeJob ==
    /\ TurnOver
    /\ node.phase = "queue"
    /\ node' = [node EXCEPT !.phase = "job", !.stopped = FALSE]
    /\ op' = [o \in Ops |-> Idle]
    /\ UNCHANGED <<host, podman, manager, step, events>>

\* stop() of the job's task manager: every run is aborted, and none is launched again.
StopJob ==
    /\ TurnOver
    /\ node.phase = "job" /\ ~node.stopped
    /\ node' = [node EXCEPT !.stopped = TRUE]
    /\ op' = [o \in Ops |-> IF op[o].phase \in {"idle", "ended"}
                            THEN [Idle EXCEPT !.phase = "ended"]
                            ELSE [op[o] EXCEPT !.aborted = TRUE, !.relaunch = FALSE]]
    /\ UNCHANGED <<host, podman, manager, step, events>>

JobOver ==
    /\ TurnOver
    /\ node.phase = "job"
    /\ \A o \in Ops : op[o].phase = "ended"
    /\ node' = [node EXCEPT !.phase = "looping"]
    /\ UNCHANGED <<host, podman, manager, step, op, events>>

-----------------------------------------------------------------------------
(* The operations: taskManagerContainerRunOperation around its container.      *)

Ended(run) == IF run.relaunch THEN Idle ELSE [Idle EXCEPT !.phase = "ended"]

\* A run is at work on the container once its own container is there.
Launch(o) ==
    /\ TurnOver
    /\ op[o].phase = "idle"
    /\ op' = [op EXCEPT ![o] = EntersReady(@, FALSE)]
    /\ fresh' = FALSE
    /\ UNCHANGED <<host, podman, stale, prepared, step, node, events>>

\* ready() resolves and the run starts, aborted or not; or it rejects, which nothing catches.
ReadySettles(o) ==
    /\ op[o].phase = "ready" /\ op[o].await \in {"ok", "failed"}
    /\ op' = [op EXCEPT ![o] = IF op[o].await = "ok"
                               THEN [@ EXCEPT !.phase = "starting", !.await = "none"]
                               ELSE Ended(@)]
    /\ UNCHANGED <<host, podman, manager, step, node, events>>

ContainerStarts(o) ==
    /\ TurnOver
    /\ op[o].phase = "starting" /\ ~op[o].aborted
    /\ Answers /\ ~GpuFails
    /\ op' = [op EXCEPT ![o].phase = "working"]
    /\ podman' = [podman EXCEPT !.used = TRUE]
    /\ UNCHANGED <<host, manager, step, node, events>>

ContainerExits(o) ==
    /\ TurnOver
    /\ op[o].phase = "working" /\ ~op[o].aborted
    /\ op' = [op EXCEPT ![o] = Ended(@)]
    /\ UNCHANGED <<host, podman, manager, step, node, events>>

\* Calls recreate() for a run: joined, needless, or begun, the run itself being among the restarted.
Repair(o) ==
    IF Recreating
    THEN /\ op' = [op EXCEPT ![o].phase = "repairing", ![o].await = "pending"]
         /\ UNCHANGED <<step, manager>>
    ELSE IF UpToDate
    THEN /\ op' = [op EXCEPT ![o].phase = "repairing", ![o].await = "ok"]
         /\ UNCHANGED <<step, manager>>
    ELSE /\ op' = Restarted([op EXCEPT ![o].phase = "repairing", ![o].await = "pending"])
         /\ BeginRecreate

\* The start fails: on the GPU runtime, or on its own account, which a stale runtime is blamed for.
StartFails(o, onGpu) ==
    /\ TurnOver
    /\ op[o].phase = "starting" /\ ~op[o].aborted
    /\ IF onGpu THEN Answers /\ GpuFails ELSE ~Answers \/ host.faults > 0
    /\ host' = IF ~onGpu /\ Answers THEN [host EXCEPT !.faults = @ - 1] ELSE host
    /\ IF (onGpu \/ stale) /\ ~op[o].retried
       THEN Repair(o)
       ELSE op' = [op EXCEPT ![o] = Ended(@)] /\ UNCHANGED <<step, manager>>
    /\ UNCHANGED <<podman, node, events>>

\* The recreate is over: an aborted run ends, and so does one whose recreate failed.
RepairSettles(o) ==
    /\ op[o].phase = "repairing" /\ op[o].await \in {"ok", "failed"}
    /\ IF op[o].await = "ok" /\ ~op[o].aborted
       THEN op' = [op EXCEPT ![o] = EntersReady(@, TRUE)] /\ fresh' = FALSE
       ELSE op' = [op EXCEPT ![o].phase = "starting", ![o].await = "none", ![o].aborted = TRUE] /\ fresh' = fresh
    /\ UNCHANGED <<host, podman, stale, prepared, step, node, events>>

\* An aborted run has been torn down.
TornDown(o) ==
    /\ TurnOver
    /\ op[o].phase \in {"starting", "working"} /\ op[o].aborted
    /\ op' = [op EXCEPT ![o] = Ended(@)]
    /\ UNCHANGED <<host, podman, manager, step, node, events>>

-----------------------------------------------------------------------------
(* The host, the container's watcher and the reader of its events.             *)

ReplaceDriver ==
    /\ host.driver < MaxDriver
    /\ host' \in {[host EXCEPT !.driver = @ + 1, !.broken = b] : b \in {FALSE, KernelBreaks}}
    /\ UNCHANGED <<podman, manager, step, op, node, events>>

\* Half a line at a time, while the container's driver is not the host's.
WriteEvent ==
    /\ podman.state = "running" /\ podman.driver # host.driver
    /\ log.writes < MaxLog
    /\ log' = [log EXCEPT !.writes = @ + 1]
    /\ UNCHANGED <<host, podman, manager, step, op, node, reader>>

\* Mutant: only a shorter log is a new one.
ReplacedIfShorter == log.writes < reader.drained

Replaced == (reader.head = "other" /\ log.writes > 0) \/ log.writes < reader.drained
ReadFrom == IF Replaced THEN 0 ELSE reader.drained
Lines(n) == n \div 2

Drain ==
    /\ TurnOver
    /\ reader.watching
    /\ log.writes # reader.drained \/ Replaced
    /\ LET skipped == log.writes - ReadFrom > MaxCatchUp
           faults == Lines(log.writes) > Lines(ReadFrom) /\ ~skipped
       IN /\ stale' = (stale \/ faults)
          /\ log' = [log EXCEPT !.first = IF @ # "none" THEN @
                                          ELSE IF skipped THEN "skipped" ELSE IF faults THEN "noted" ELSE @]
    /\ reader' = [reader EXCEPT !.drained = log.writes, !.head = IF log.writes = 0 THEN "none" ELSE "this"]
    /\ UNCHANGED <<host, podman, fresh, prepared, step, op, node>>

\* watcher.on('error'): the watch is closed for good.
WatchBreaks ==
    /\ reader.watching /\ host.faults > 0
    /\ reader' = [reader EXCEPT !.watching = FALSE]
    /\ host' = [host EXCEPT !.faults = @ - 1]
    /\ UNCHANGED <<podman, manager, step, op, node, log>>

\* The process dies, or gave up, and the next one finds podman as it is and reads the log anew.
NextProcess ==
    /\ host.crashes > 0
    /\ host' = [host EXCEPT !.crashes = @ - 1]
    /\ stale' = (Lines(log.writes) > 0 /\ log.writes <= MaxCatchUp) /\ fresh' = FALSE /\ prepared' = FALSE
    /\ step' = [c \in Calls |-> IF c = "ensure" THEN "inspecting" ELSE "no"]
    /\ op' = [o \in Ops |-> [Idle EXCEPT !.phase = "ended"]]
    /\ node' = [phase |-> "booting", await |-> "none", stopped |-> FALSE]
    /\ log' = [log EXCEPT !.first = IF @ # "none" THEN @ ELSE IF log.writes > MaxCatchUp THEN "skipped"
                                    ELSE IF Lines(log.writes) > 0 THEN "noted" ELSE @]
    /\ reader' = [drained |-> log.writes, head |-> IF log.writes = 0 THEN "none" ELSE "this", watching |-> TRUE]
    /\ UNCHANGED podman

-----------------------------------------------------------------------------

CallStep(c) ==
    \/ RemoveContainer(c) \/ InspectContainer(c) \/ Prepare(c) \/ CreateContainer(c)
    \/ BootContainer(c) \/ StartContainer(c) \/ SocketAnswers(c)

OpStep(o) ==
    \/ Launch(o) \/ ReadySettles(o) \/ ContainerStarts(o) \/ StartFails(o, TRUE)
    \/ RepairSettles(o) \/ TornDown(o)

NodeStep == Healthcheck \/ EnterQueue \/ HealthcheckThrows \/ LeaveQueue \/ JobOver

Next ==
    \/ \E c \in Calls : CallStep(c) \/ CallFails(c)
    \/ \E o \in Ops : OpStep(o) \/ ContainerExits(o) \/ StartFails(o, FALSE)
    \/ NodeStep \/ TakeJob \/ StopJob
    \/ ReplaceDriver \/ WriteEvent \/ Drain \/ WatchBreaks \/ NextProcess

\* Promise reactions run, docker answers, a start that has everything succeeds or fails, and
\* a watch reports; jobs, stops, failures and the host are owed nothing.
Fairness ==
    /\ \A c \in Calls : WF_vars(CallStep(c))
    /\ \A o \in Ops : WF_vars(OpStep(o)) /\ WF_vars(StartFails(o, FALSE))
    /\ WF_vars(NodeStep)
    /\ SF_vars(Drain)

Spec == Init /\ [][Next]_vars /\ Fairness

-----------------------------------------------------------------------------
(* Properties.                                                                 *)

\* Every variable keeps its type.
TypeOK ==
    /\ host \in [driver : 0..MaxDriver, broken : BOOLEAN, faults : 0..MaxFaults, crashes : 0..MaxCrashes]
    /\ podman \in [state : {"absent", "created", "running"}, driver : 0..MaxDriver, used : BOOLEAN]
    /\ stale \in BOOLEAN /\ fresh \in BOOLEAN /\ prepared \in BOOLEAN
    /\ step \in [Calls -> Steps]
    /\ op \in [Ops -> Run]
    /\ node \in [phase : {"booting", "down", "looping", "health", "queue", "job"},
                  await : {"none", "pending", "ok", "failed"}, stopped : BOOLEAN]
    /\ log \in [writes : 0..MaxLog, first : {"none", "noted", "skipped"}]
    /\ reader \in [drained : 0..MaxLog, head : {"none", "this", "other"}, watching : BOOLEAN]

\* While podman is being replaced no operation is at work on it that has not been told to
\* stop: what starts is held by ready(), and what had started is restarted by doRecreate().
HeldWhileDown ==
    Recreating => \A o \in Ops : op[o].phase \in {"starting", "working"} => op[o].aborted

\* A job starts on a podman that no operation of an earlier one has used, unless that one was
\* stopped: recreate('between jobs') skips only what nothing has run on since it was created.
JobsGetNewPodman == [][node.phase = "queue" /\ node'.phase = "job" => ~podman.used \/ node.stopped]_vars

\* A fault the watcher of podman logs is acted on, or given up with a log too long to catch up
\* with, although lines are seen in halves and the log is replaced by one of the same length.
FaultIsNoticed ==
    Lines(log.writes) > 0 /\ log.first = "none" ~>
        log.first # "none" \/ Lines(log.writes) = 0 \/ ~reader.watching

\* A run that is held by ready() is let go, whether the recreate it waits for succeeds or not.
HeldRunsGoOn == \A o \in Ops : op[o].phase = "ready" ~> op[o].phase # "ready"

\* A run that meets a broken GPU runtime is repaired once, and then it works or it has failed.
RepairsOnce == \A o \in Ops : op[o].phase = "repairing" ~> op[o].phase \in {"working", "ended"}
=============================================================================
