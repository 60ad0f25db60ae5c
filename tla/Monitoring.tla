----------------------------- MODULE Monitoring -----------------------------
(***************************************************************************)
(* What the node tells of itself.  Every call made through a logging proxy *)
(* is announced when it is made and when it returns or throws; NodeState   *)
(* turns the announcements into states, NodeLog into log entries, and both *)
(* remember the job they think the node works on: the streamers send a     *)
(* state or an entry to the sockets of that job, the service-url route     *)
(* answers from it, and ConsoleLogger keeps one spinner and a quiet window *)
(* around TaskManager.start.                                               *)
(*                                                                         *)
(* The calls come from the main line of the node (startNode, NodeManager,  *)
(* BasicNode.run), which is the table Script, from the operations of a     *)
(* running job, from the queue and from the signal handler.  An            *)
(* announcement is a method and whether it is its call, its return or its  *)
(* throw.  Left out: what is said, methods no class has any more           *)
(* (Provider.runOperation, JobHandler.run, most of FlowHandler, ...), and  *)
(* the replay to a socket that subscribes.                                 *)
(***************************************************************************)
EXTENDS Naturals, FiniteSets, Sequences

CONSTANTS
    Jobs,       \* the jobs the node is given
    MaxClaims,  \* jobs it claims
    MaxFails,   \* calls of the main line that throw
    MaxCalls    \* calls of operations under way at once

ASSUME MonitoringAssumption ==
    /\ "none" \notin Jobs
    /\ {MaxClaims, MaxFails, MaxCalls} \subseteq Nat

VARIABLES
    at,       \* where the main line is
    job,      \* the job it claimed last
    proxied,  \* its TaskManager is called through a proxy
    calls,    \* the calls of its operations under way
    quit,     \* the shutdown: none, exiting, closing and closed (the API), stopping, stopped, or broken
              \* when stop() of the node throws
    shared,   \* NodeState.shared: job, and whether serviceUrlReady is set
    logJob,   \* NodeLog.job
    console,  \* ConsoleLogger
    sent,     \* the jobs the last announcement was streamed to, as states and as log entries
    past,     \* what happened: inJobLoop and apiStarted of NodeManager, the endpoint of the job announced,
              \* a run that never came to finish(), a task that threw
    left      \* claims and throws still to come

vars == <<at, job, proxied, calls, quit, shared, logJob, console, sent, past, left>>
monitors == <<shared, logJob, console, sent>>

------------------------------------------------------------------------------
(* The announcements.                                                          *)

\* From where to where the main line goes with an announcement; "-" is none.
Script == {
    <<"off", "BasicNode.start", "call", "starting">>,
    <<"starting", "Container.healthy", "call", "checking">>,
    <<"checking", "Container.healthy", "return", "checked">>,
    <<"checked", "BasicNode.start", "return", "begun">>,
    <<"starting", "BasicNode.start", "error", "failed">>,
    <<"checked", "BasicNode.start", "error", "failed">>,
    <<"begun", "-", "-", "loop">>,
    <<"begun", "ApiHandler.start", "call", "api">>,
    <<"api", "ApiHandler.start", "return", "loop">>,
    <<"api", "ApiHandler.start", "error", "failed">>,
    <<"loop", "BenchmarkTaskManager.start", "call", "bench">>,
    <<"bench", "BenchmarkTaskManager.start", "return", "loop">>,
    <<"bench", "BenchmarkTaskManager.start", "error", "loop">>,
    <<"loop", "HealthHandler.run", "call", "health">>,
    <<"health", "HealthHandler.run", "return", "healthy">>,
    <<"health", "HealthHandler.run", "error", "failed">>,
    <<"healthy", "ResourceManager.fetchMarketRequiredResources", "call", "setup">>,
    <<"setup", "ResourceManager.fetchMarketRequiredResources", "return", "set">>,
    <<"setup", "ResourceManager.fetchMarketRequiredResources", "error", "failed">>,
    <<"healthy", "-", "-", "over">>,
    <<"set", "-", "-", "failed">>,
    <<"set", "-", "-", "waiting">>,
    <<"set", "BasicNode.queue", "call", "queueing">>,
    <<"queueing", "BasicNode.queue", "return", "waiting">>,
    <<"queueing", "BasicNode.queue", "error", "failed">>,
    <<"waiting", "-", "-", "over">>,
    <<"claiming", "JobHandler.claim", "return", "claimed">>,
    <<"claiming", "JobHandler.claim", "error", "failed">>,
    <<"claimed", "-", "-", "ran">>,
    <<"claimed", "ExpiryHandler.init", "return", "watched">>,
    <<"watched", "JobHandler.start", "call", "jobStarting">>,
    <<"jobStarting", "JobExternalUtil.resolveJobDefinition", "call", "resolving">>,
    <<"resolving", "JobExternalUtil.resolveJobDefinition", "return", "resolved">>,
    <<"resolving", "JobExternalUtil.resolveJobDefinition", "error", "unresolved">>,
    <<"unresolved", "JobHandler.start", "error", "failed">>,
    <<"resolved", "JobExternalUtil.validate", "call", "validating">>,
    <<"validating", "JobExternalUtil.validate", "return", "validated">>,
    <<"validated", "JobHandler.start", "return", "started">>,
    <<"jobStarting", "JobHandler.start", "return", "started">>,
    <<"started", "-", "-", "ran">>,
    <<"running", "TaskManager.start", "return", "ran">>,
    <<"running", "TaskManager.start", "error", "threw">>,
    <<"threw", "JobHandler.runWithErrorHandling", "error", "failed">>,
    <<"ran", "JobHandler.finish", "call", "finishing">>,
    <<"finishing", "JobExternalUtil.resolveResult", "call", "collecting">>,
    <<"collecting", "JobExternalUtil.resolveResult", "return", "collected">>,
    <<"collecting", "JobExternalUtil.resolveResult", "error", "uncollected">>,
    <<"collected", "JobHandler.finish", "return", "over">>,
    <<"collected", "JobHandler.finish", "error", "failed">>,
    <<"uncollected", "JobHandler.finish", "error", "failed">>,
    <<"over", "BasicNode.clean", "call", "cleaning">>,
    <<"cleaning", "BasicNode.clean", "return", "cleaned">>,
    <<"cleaning", "BasicNode.clean", "error", "failed">>,
    <<"cleaned", "BasicNode.restartDelay", "call", "delaying">>,
    <<"delaying", "BasicNode.restartDelay", "return", "loop">>,
    <<"failed", "BasicNode.clean", "call", "recovering">>,
    <<"recovering", "BasicNode.clean", "return", "recovered">>,
    <<"recovering", "BasicNode.clean", "error", "recovered">>,
    <<"recovered", "BasicNode.restartDelay", "call", "waitingAgain">>,
    <<"waitingAgain", "BasicNode.restartDelay", "return", "off">> }
Places == {row[1] : row \in Script} \cup {row[4] : row \in Script} \cup {"running"}

\* The calls an operation or a download makes, and what they announce on the way.
LoggedCalls ==
    {"Container.pullImage", "Container.createNetwork", "Container.runContainer", "Container.runFlowContainer"}
ContainerCalls == LoggedCalls \cup {"Container.deleteNetwork", "Container.stopAndDeleteContainer"}
OpCalls == ContainerCalls \cup {"ResourceManager.getResourceVolumes"}
DownloadBar == {"ProgressBarReporter.start", "ProgressBarReporter.update", "ProgressBarReporter.stop"}
PullBar == {"MultiProgressBarReporter.start", "MultiProgressBarReporter.update", "MultiProgressBarReporter.stop"}
Bars == DownloadBar \cup PullBar

\* NodeState.process: the announcements it makes a state of.
ContainerStates == ContainerCalls \X {"call", "return"}
NodeStates ==
    {"BasicNode.start", "BasicNode.stop", "BasicNode.queue"} \X {"call", "return", "error"}
        \cup {"BasicNode.restartDelay"} \X {"call", "return"}
        \cup {"HealthHandler.run"} \X {"return", "error"}
        \cup {<<"MarketHandler.position", "first">>, <<"MarketHandler.position", "next">>,
              <<"ExpiryHandler.init", "return">>, <<"FlowHandler.operationExposed", "return">>}
ResolveStates ==
    {"JobExternalUtil.resolveJobDefinition", "JobExternalUtil.resolveResult"} \X {"call", "return", "error"}
ClaimStates == {"JobHandler.claim", "JobHandler.start"} \X {"call", "return", "error"}
FinishStates == {"JobHandler.finish"} \X {"call", "return", "error"}
ReporterStates == {"ApiHandler.start", "ApiHandler.stop"} \X {"call", "return", "error"} \cup Bars \X {"call"}
States == ContainerStates \cup NodeStates \cup ResolveStates \cup ClaimStates \cup FinishStates
            \cup ReporterStates

\* NodeLog: an entry, and the one that opens a spinner until the call it is expecting answers.
Entry(m, type) == [m |-> m, type |-> type, expecting |-> "none"]
Pending(m, answer) == [m |-> m, type |-> "process", expecting |-> answer]

\* The entries of a call that is pending until it returns or throws.
Answered(m, t) ==
    CASE t = "call" -> <<Pending(m, m)>>
      [] t = "return" -> <<Entry(m, "success")>>
      [] t = "error" -> <<Entry(m, "error")>>
      [] OTHER -> <<>>
Noted(m, t) == IF t = "call" THEN <<Entry(m, "info")>> ELSE Answered(m, t)
Unhandled(m, t, unhandled) == IF t \in unhandled THEN <<>> ELSE Answered(m, t)

\* NodeLog.process by itself: the tasks, the progress bars.
TaskEntries(m, t) ==
    CASE t = "call" -> <<Entry(m, "process")>>
      [] t = "return" -> <<Entry(m, "success")>>
      [] OTHER -> <<>>
BarEntries(m) ==
    CASE m = "MultiProgressBarReporter.start" -> <<Entry(m, "stop"), Entry(m, "bar-start")>>
      [] m = "ProgressBarReporter.start" -> <<Entry(m, "info"), Entry(m, "bar-start")>>
      [] m = "ProgressBarReporter.stop" -> <<Entry(m, "bar"), Entry(m, "info")>>
      [] OTHER -> <<Entry(m, "bar")>>

\* handleHealthy, handlePullImage, handleCreateNetwork, handleRunContainer, handleRunFlowContainer: a throw
\* is not handled.
ContainerEntries(m, t) == Unhandled(m, t, {"error"})

\* Entries that stand alone: the provider and what the health check found, the benchmark's progress, a line
\* of an operation.
LoneEntries(m) ==
    << Entry(m, CASE m = "BenchmarkTaskManager.progress" -> "update"
                  [] m = "NodeRepository.displayLog" -> "log"
                  [] OTHER -> "info") >>

MarketEntries(m, t) ==
    IF t = "error" THEN <<Entry(m, "error")>>
    ELSE IF t = "first" THEN <<Pending(m, "JobHandler.claim")>> ELSE <<Entry(m, "update")>>

\* handleExit, handleClean, handleStop, handleRestart.
NodeEntries(m, t) ==
    CASE m = "BasicNode.exit" -> IF t = "call" THEN <<Entry(m, "kill-process")>> ELSE <<>>
      [] m = "BasicNode.clean" -> Answered(m, t)
      [] m = "BasicNode.stop" ->
            CASE t = "return" -> <<Entry(m, "kill-success")>>
              [] t = "error" -> <<Entry(m, "kill-error")>>
              [] OTHER -> <<>>
      [] m = "BasicNode.restartDelay" ->
            IF t = "tick" THEN <<Entry(m, "update")>> ELSE Unhandled(m, t, {"error"})
      [] OTHER -> <<>>

JobEntries(m, t) ==
    CASE m = "JobHandler.claim" ->
            IF t = "call" THEN <<Entry(m, "stop"), Pending(m, m)>> ELSE Answered(m, t)
      [] m \in {"JobHandler.start", "JobHandler.finish"} -> Noted(m, t)
      [] m = "JobHandler.runWithErrorHandling" -> Unhandled(m, t, {"call", "return"})
      [] OTHER -> <<>>

FlowEntries(m) == <<Entry(m, "info")>>
ExpiryEntries(m, t) ==
    IF m = "ExpiryHandler.extendExpiryTime" /\ t = "call" THEN <<Entry("Job:ExpiryUpdated", "update")>> ELSE <<>>

Tasks == {"TaskManager.start", "BenchmarkTaskManager.start"}
Lone == {"Container.getConnection", "Container.check", "StakeHandler.getStakeAccount",
         "BenchmarkTaskManager.progress", "NodeRepository.displayLog"}
EntriesOf(m, t) ==
    CASE m \in Tasks -> TaskEntries(m, t)
      [] m \in Bars -> BarEntries(m)
      [] m \in LoggedCalls \cup {"Container.healthy"} -> ContainerEntries(m, t)
      [] m \in Lone -> LoneEntries(m)
      [] m \in {"MarketHandler.position", "MarketHandler.join"} -> MarketEntries(m, t)
      [] m = "FlowHandler.operationExposed" -> FlowEntries(m)
      [] m \in {"ExpiryHandler.init", "ExpiryHandler.extendExpiryTime"} -> ExpiryEntries(m, t)
      [] m \in {"ResourceManager.fetchMarketRequiredResources", "ResourceManager.getResourceVolumes"} -> Noted(m, t)
      [] m \in {"ApiHandler.start", "HealthHandler.run", "JobExternalUtil.resolveJobDefinition",
                "JobExternalUtil.validate", "JobExternalUtil.resolveResult"} -> Answered(m, t)
      [] OTHER -> IF m \in {"JobHandler.claim", "JobHandler.start", "JobHandler.finish",
                            "JobHandler.runWithErrorHandling"}
                  THEN JobEntries(m, t) ELSE NodeEntries(m, t)

------------------------------------------------------------------------------
(* What the listeners make of an announcement.                                 *)

\* ConsoleLogger.update, from the shutdown to the rest.
QuietConsole == [pending |-> FALSE, expecting |-> "none", spinner |-> FALSE, kill |-> FALSE, window |-> "none"]
Ended(c) == [c EXCEPT !.pending = FALSE, !.spinner = FALSE]

\* Mutant: only a shutdown that succeeds gives the console back.
KilledTillSuccess(c, e) ==
    IF c.kill THEN IF e.type = "kill-success" THEN [Ended(c) EXCEPT !.kill = FALSE] ELSE c
    ELSE [c EXCEPT !.kill = TRUE, !.pending = TRUE, !.expecting = "none", !.spinner = TRUE]

Killed(c, e) ==
    IF c.kill THEN IF e.type \in {"kill-success", "kill-error"} THEN [Ended(c) EXCEPT !.kill = FALSE] ELSE c
    ELSE [c EXCEPT !.kill = TRUE, !.pending = TRUE, !.expecting = "none", !.spinner = TRUE]

\* Mutant: the window is closed by the tasks of a job only.
WindowedByJobs(c, e) ==
    IF e.m \in Tasks /\ e.type = "process" THEN [c EXCEPT !.window = e.m, !.pending = TRUE, !.spinner = TRUE]
    ELSE IF e.m = "TaskManager.start" THEN [Ended(c) EXCEPT !.window = "none"] ELSE c

\* The quiet window: opened by the start of a task, closed by the next entry of that call.
Windowed(c, e) ==
    IF e.m \in Tasks /\ e.type = "process" THEN [c EXCEPT !.window = e.m, !.pending = TRUE, !.spinner = TRUE]
    ELSE IF e.m = c.window THEN [Ended(c) EXCEPT !.window = "none"] ELSE c

BarShown(c) == IF c.pending THEN [c EXCEPT !.spinner = FALSE] ELSE c

Spun(c, e) ==
    CASE c.pending /\ e.type # "update" /\ (e.type \in {"error", "stop"} \/ e.m = c.expecting) -> Ended(c)
      [] ~c.pending /\ e.expecting # "none" ->
            [c EXCEPT !.pending = TRUE, !.expecting = e.expecting, !.spinner = TRUE]
      [] OTHER -> c
Restarted(c, e) ==
    IF e.m = "BasicNode.restartDelay" /\ e.type = "success"
    THEN [c EXCEPT !.expecting = "none", !.kill = FALSE, !.window = "none", !.spinner = FALSE] ELSE c

Shown(c, e) ==
    IF c.kill \/ e.type = "kill-process" THEN Killed(c, e)
    ELSE IF c.window # "none" \/ (e.m \in Tasks /\ e.type = "process") THEN Windowed(c, e)
    ELSE CASE e.type = "bar-start" -> BarShown(c)
           [] e.type \in {"bar", "log"} -> c
           [] OTHER -> IF c.pending /\ e.type = "update" THEN c ELSE Restarted(Spun(c, e), e)

\* An announcement makes two entries at most.
AllShown(c, entries) ==
    CASE Len(entries) = 0 -> c
      [] Len(entries) = 1 -> Shown(c, entries[1])
      [] OTHER -> Shown(Shown(c, entries[1]), entries[2])

\* Mutant: finish() leaves the endpoint of the job announced.
SharedStillReady(m, t, j) ==
    CASE m = "JobHandler.claim" -> [shared EXCEPT !.job = j]
      [] m = "JobHandler.finish" -> [shared EXCEPT !.job = IF t = "call" THEN "none" ELSE @]
      [] m = "BasicNode.stop" /\ t = "return" -> [job |-> "none", ready |-> FALSE]
      [] m = "FlowHandler.operationExposed" -> [shared EXCEPT !.ready = TRUE]
      [] OTHER -> shared

\* NodeState.process: what an announcement leaves in shared.
SharedAfter(m, t, j) ==
    CASE m = "JobHandler.claim" -> [shared EXCEPT !.job = j]
      [] m = "JobHandler.finish" ->
            [job |-> IF t = "call" THEN "none" ELSE shared.job, ready |-> FALSE]
      [] m = "BasicNode.stop" /\ t = "return" -> [job |-> "none", ready |-> FALSE]
      [] m = "FlowHandler.operationExposed" -> [shared EXCEPT !.ready = TRUE]
      [] OTHER -> shared

\* Mutant: neither the clean up nor the restart takes the job away.
JobNowKept(m, t, j) == IF m = "JobHandler.claim" /\ t = "call" THEN j ELSE logJob

\* NodeLog: the job of the entries, and the job it keeps after them.
JobNow(m, t, j) ==
    CASE m = "JobHandler.claim" /\ t = "call" -> j
      [] m \in {"BasicNode.exit", "BasicNode.clean", "BasicNode.restartDelay"} /\ t # "tick" -> "none"
      [] OTHER -> logJob
JobAfter(m, t, j) ==
    IF \/ m = "BasicNode.stop"
       \/ m = "JobHandler.finish" /\ t # "call"
       \/ m = "JobHandler.runWithErrorHandling" /\ t = "error"
    THEN "none" ELSE JobNow(m, t, j)

\* The streamers send a state to the sockets of the job in it, an entry to those of its job.
Streamed(m, t, j) ==
    [states |-> IF <<m, t>> \notin States THEN "none" ELSE IF m = "JobHandler.claim" THEN j ELSE shared.job,
     logs |-> IF EntriesOf(m, t) = <<>> THEN "none" ELSE JobNow(m, t, j)]

\* createLoggingProxy: the listeners run before the call goes on.
Announce(m, t, j) ==
    /\ shared' = SharedAfter(m, t, j)
    /\ logJob' = JobAfter(m, t, j)
    /\ console' = AllShown(console, EntriesOf(m, t))
    /\ sent' = Streamed(m, t, j)

Silent == sent' = [states |-> "none", logs |-> "none"] /\ UNCHANGED <<shared, logJob, console>>

------------------------------------------------------------------------------

Init ==
    /\ at = "off" /\ job = "none" /\ proxied = FALSE /\ calls = {} /\ quit = "none"
    /\ shared = [job |-> "none", ready |-> FALSE]
    /\ logJob = "none"
    /\ console = QuietConsole
    /\ sent = [states |-> "none", logs |-> "none"]
    /\ past = [inJobLoop |-> FALSE, apiStarted |-> FALSE, exposed |-> FALSE, unfinished |-> FALSE, threw |-> FALSE]
    /\ left = [claims |-> MaxClaims, fails |-> MaxFails]

\* Whether the main line may take a row of Script: what was done once is not done again, startNode leaves
\* the node to the shutdown, finish() is not called and restart() gives up on the way out.
Fails(row) == row[3] = "error" /\ row[1] \notin {"unresolved", "threw", "uncollected"}
MayTake(row) ==
    /\ Fails(row) => left.fails > 0
    /\ row[1] = "begun" => (row[4] = "loop") = past.apiStarted
    /\ row[1] = "failed" => quit = "none" /\ past.inJobLoop
    /\ row[1] \in {"ran", "over"} => quit = "none"
    /\ row[1] \in {"running", "bench", "setup"} /\ ~Fails(row) => calls = {}
    /\ row[1] = "running" => proxied

\* startNode, NodeManager.init, start and restart, BasicNode.run, JobHandler: one announcement, or a step
\* that is not announced.
MainLine ==
    \E row \in Script :
        /\ quit # "stopped" /\ at = row[1] /\ MayTake(row)
        /\ at' = row[4]
        /\ IF row[2] = "-" THEN Silent ELSE Announce(row[2], row[3], job)
        /\ past' = [past EXCEPT
               !.inJobLoop = @ \/ row[4] = "set",
               !.apiStarted = @ \/ (row[1] = "api" /\ row[4] = "loop"),
               !.unfinished = (@ \/ (row[1] \in {"claiming", "unresolved", "threw"} /\ row[4] = "failed"))
                                  /\ row[4] # "finishing",
               !.threw = (@ \/ (row[2] \in Tasks /\ row[3] = "error")) /\ ~(row[2] \in Tasks /\ row[3] = "call")]
        /\ left' = [left EXCEPT !.fails = @ - (IF Fails(row) THEN 1 ELSE 0)]
        /\ UNCHANGED <<job, proxied, calls, quit>>

\* run(): the run monitoring found a run, the job is claimed.
Claim ==
    /\ quit # "stopped" /\ at = "waiting" /\ left.claims > 0
    /\ \E j \in Jobs :
        /\ at' = "claiming" /\ job' = j
        /\ Announce("JobHandler.claim", "call", j)
    /\ past' = [past EXCEPT !.exposed = FALSE]
    /\ left' = [left EXCEPT !.claims = @ - 1]
    /\ UNCHANGED <<proxied, calls, quit>>

\* runWithErrorHandling(): the TaskManager of a new job is called through a proxy, that of a job that is
\* resumed is not.
StartTasks ==
    /\ quit # "stopped" /\ at = "started" /\ at' = "running"
    /\ proxied' \in BOOLEAN
    /\ IF proxied' THEN Announce("TaskManager.start", "call", job) ELSE Silent
    /\ past' = IF proxied' THEN [past EXCEPT !.threw = FALSE] ELSE past
    /\ UNCHANGED <<job, calls, quit, left>>
\* The end of the tasks of a resumed job, which nothing announces.
TasksEnd(ending) ==
    /\ quit # "stopped" /\ at = "running" /\ ~proxied
    /\ at' = ending /\ Silent
    /\ ending = "ran" => calls = {}
    /\ UNCHANGED <<job, proxied, calls, quit, past, left>>

\* A call on docker, of an operation or of the set up of the resources, and its answer; an operation also
\* asks for the volumes of its resources.
CallsDocker(m) ==
    /\ quit # "stopped" /\ at \in {"running", "bench", "setup"}
    /\ m \notin calls /\ Cardinality(calls) < MaxCalls
    /\ m \in ContainerCalls \/ at # "setup"
    /\ calls' = calls \cup {m}
    /\ Announce(m, "call", job)
    /\ UNCHANGED <<at, job, proxied, quit, past, left>>
DockerAnswers(m) ==
    /\ quit # "stopped" /\ m \in calls
    /\ calls' = calls \ {m}
    /\ \E t \in {"return", "error"} : Announce(m, t, job)
    /\ UNCHANGED <<at, job, proxied, quit, past, left>>
\* What is announced while something else is going on: the bars of a pull or a download, the position in the
\* queue and a market that was not joined, the seconds of a restart, an endpoint that comes up, an expiry that is moved,
\* what the health check finds, a line an operation writes, the progress of a benchmark.
Aside(m, t) ==
    /\ quit # "stopped"
    /\ \/ m \in PullBar /\ t = "call" /\ "Container.pullImage" \in calls
       \/ m \in DownloadBar /\ t = "call" /\ (at = "setup" \/ "ResourceManager.getResourceVolumes" \in calls)
       \/ m = "MarketHandler.position" /\ t \in {"first", "next"} /\ at = "waiting"
       \/ m = "MarketHandler.join" /\ t = "error" /\ at = "queueing"
       \/ m = "Container.getConnection" /\ t = "call" /\ at = "starting"
       \/ m \in {"Container.check", "StakeHandler.getStakeAccount"} /\ t = "return" /\ at = "health"
       \/ m = "BenchmarkTaskManager.progress" /\ t = "call" /\ at = "bench"
       \/ m = "NodeRepository.displayLog" /\ t = "call" /\ at \in {"running", "bench"}
       \/ m = "BasicNode.restartDelay" /\ t = "tick" /\ at \in {"delaying", "waitingAgain"}
       \/ m = "FlowHandler.operationExposed" /\ t = "return" /\ at = "running"
       \/ m = "ExpiryHandler.extendExpiryTime" /\ t = "call" /\ at = "running"
    /\ Announce(m, t, job)
    /\ past' = [past EXCEPT !.exposed = @ \/ m = "FlowHandler.operationExposed"]
    /\ UNCHANGED <<at, job, proxied, calls, quit, left>>

\* handleProcessExit, or error() before the first job loop: exit(), then stop() of the API, whose failure is
\* dropped, and of the node.
Exit ==
    /\ quit = "none"
    /\ IF at = "failed" /\ ~past.inJobLoop THEN TRUE ELSE at \notin {"off", "cleaning", "recovering"}
    /\ quit' = "exiting"
    /\ Announce("BasicNode.exit", "call", job)
    /\ UNCHANGED <<at, job, proxied, calls, past, left>>
ApiStops ==
    /\ \/ quit = "exiting" /\ quit' = "closing" /\ Announce("ApiHandler.stop", "call", job)
       \/ quit = "closing" /\ quit' = "closed" /\ \E t \in {"return", "error"} : Announce("ApiHandler.stop", t, job)
    /\ UNCHANGED <<at, job, proxied, calls, past, left>>
StopCalled ==
    /\ quit = "closed" /\ quit' = "stopping"
    /\ Announce("BasicNode.stop", "call", job)
    /\ UNCHANGED <<at, job, proxied, calls, past, left>>
StopAnswers ==
    /\ quit = "stopping"
    /\ \E t \in {"return", "error"} :
        /\ quit' = IF t = "return" THEN "stopped" ELSE "broken"
        /\ Announce("BasicNode.stop", t, job)
    /\ UNCHANGED <<at, job, proxied, calls, past, left>>
\* startNode: start() came back because restart() gave up during the shutdown, so init() is called again.
StartsAgain ==
    /\ quit \notin {"none", "stopped"} /\ at = "over" /\ at' = "off"
    /\ Silent /\ UNCHANGED <<job, proxied, calls, quit, past, left>>

AsideTypes == {"call", "return", "error", "first", "next", "tick"}
Asides == Bars \cup Lone \cup {"MarketHandler.position", "MarketHandler.join", "BasicNode.restartDelay",
                                  "FlowHandler.operationExposed", "ExpiryHandler.extendExpiryTime"}
Next ==
    \/ MainLine
    \/ Claim
    \/ StartTasks
    \/ \E ending \in {"ran", "threw"} : TasksEnd(ending)
    \/ \E m \in OpCalls : CallsDocker(m) \/ DockerAnswers(m)
    \/ \E m \in Asides, t \in AsideTypes : Aside(m, t)
    \/ Exit
    \/ ApiStops
    \/ StopCalled
    \/ StopAnswers
    \/ StartsAgain

Spec == Init /\ [][Next]_vars

------------------------------------------------------------------------------

\* The type invariant: a state of the monitors names a job or none, the console has a spinner only while
\* something is pending, and is killed only on the way out.
TypeOK ==
    /\ at \in Places /\ job \in Jobs \cup {"none"} /\ calls \subseteq OpCalls
    /\ quit \in {"none", "exiting", "closing", "closed", "stopping", "stopped", "broken"}
    /\ shared \in [job : Jobs \cup {"none"}, ready : BOOLEAN]
    /\ logJob \in Jobs \cup {"none"}
    /\ console.spinner => console.pending
    /\ console.kill <=> quit \in {"exiting", "closing", "closed", "stopping"}
    /\ sent.states \in Jobs \cup {"none"} /\ sent.logs \in Jobs \cup {"none"}

\* With a job: from its claim until finish() or the error of the run was announced.
OfTheJob ==
    {"claiming", "claimed", "watched", "jobStarting", "resolving", "resolved", "unresolved", "validating",
     "validated", "started", "running", "threw", "ran", "finishing", "collecting", "collected", "uncollected"}
WithJob == at \in OfTheJob \/ at' = "claiming"

\* NodeLog.job and LogStreamer: an entry reaches the sockets of a job only while the node works on that
\* job; what the clean up, the restart, the queue and the set up for the next job say stays with the node,
\* however the run ended, and the late answer of a call of that run as well.  The shutdown may say that the
\* node stopped to the job it was claiming.
LogsOfTheJob == [][sent'.logs # "none" => sent'.logs = job' /\ (WithJob \/ quit = "stopping")]_vars

\* NodeState.shared.job and StateStreamer: the same of the states, which finish() takes from the job when
\* it begins.  Only a run that threw and never came to finish() leaves its job behind, for the states of
\* the clean up and the next round.
StatesOfTheJob == [][sent'.states # "none" => past.unfinished \/ (WithJob /\ sent'.states = job')]_vars

\* The service-url route: a job is answered ONLINE only when an endpoint of this very run was announced,
\* never for the endpoint of the job before it, unless that one threw and never came to finish().
OnlineIsOurs == \A j \in Jobs : shared.job = j /\ shared.ready => past.unfinished \/ (j = job /\ past.exposed)

\* ConsoleLogger: the quiet window is closed by the task that opened it.  It stays open only after that
\* task threw (its throw makes no entry) or when the shutdown came in between.
QuietWindowEnds ==
    console.window # "none" =>
        \/ past.threw
        \/ quit # "none"
        \/ console.window = "TaskManager.start" /\ at = "running"
        \/ console.window = "BenchmarkTaskManager.start" /\ at = "bench"

\* States and log entries of a job go to the sockets of that job and of no other.
SpeaksOfTheJob == LogsOfTheJob /\ StatesOfTheJob
===============================================================================
