---------------------------- MODULE JobLifecycle ----------------------------
(***************************************************************************)
(* The life of the jobs of a node: the loop of startNode() and NodeManager *)
(* (index.ts), Node.run(), the job handler, the two registries, the expiry *)
(* timer and the shutdown on a signal, with a process that may die and a   *)
(* repository that survives it.                                            *)
(*                                                                         *)
(* Each await on a service, a timer or a task manager is a place where     *)
(* something else may run; what follows it up to the next one is an        *)
(* action.  The chain is external: what src/ relies on is that a run is    *)
(* assigned to a queued node, that the poster may stop a job, which closes *)
(* its run, that a result needs the open run and closes it, and that a     *)
(* stopped job takes a result without one.  Of the task manager this uses  *)
(* what TaskManager shows: start() ends once it is stopped.                *)
(***************************************************************************)
EXTENDS Integers, FiniteSets

CONSTANTS
    Jobs,
    NoJob,
    Confidential,  \* the jobs whose definition the poster sends (logistics)
    MaxFailures,   \* bound: calls to a service that fail
    MaxCrashes,    \* bound: times the process dies, or leaves for an update
    MaxSignals     \* bound: SIGINT or SIGTERM

ASSUME JobAssumption == IsFiniteSet(Jobs) /\ NoJob \notin Jobs /\ Confidential \subseteq Jobs
ASSUME BoundAssumption == MaxFailures \in Nat /\ MaxCrashes \in Nat /\ MaxSignals \in Nat

VARIABLES
    queued,      \* chain: the node is in a market's queue
    assigned,    \* chain: the job of the node's run account
    onChain,     \* chain: [Jobs -> "posted", "running", "stopped" or "done"]
    result,      \* chain: the flow status of the result of a job, "none" without one
    flow,        \* repository: flow.state.status, "none" while there is no flow
    main,        \* where startNode() and NodeManager.start() are
    exiting,     \* NodeManager.exiting
    signalled,   \* NodeManager.signalled
    inJobLoop,   \* NodeManager.inJobLoop
    nodeExiting, \* Node.exiting
    shutdown,    \* where the stop() of the signal handler is
    run,         \* RunHandler.run
    runPc,       \* where Node.run() is, "off" if it is over or abandoned,
                 \* "unheard" if the search for a run was called off
    job,         \* JobHandler.id
    reason,      \* what stopReason resolved with, or "completed" if nothing starts
    registered,  \* JobRegistry
    task,        \* TaskManager of the job: start() is working, or stop() was called
    finishing,   \* JobHandler.finishing
    listening,   \* the account subscription: "due" when a change of the job was sent
    expiryArmed, \* ExpiryHandler.expiryTimer
    aborted,     \* the abort controller of the node
    failures, crashes, signals

chainVars  == <<queued, assigned, onChain, result>>
loopVars   == <<main, exiting, inJobLoop>>
exitVars   == <<signalled, nodeExiting, shutdown>>
runVars    == <<run, runPc, job, reason>>
jobVars    == <<registered, task, finishing, listening, expiryArmed, aborted>>
boundVars  == <<failures, crashes, signals>>
vars       == <<chainVars, flow, loopVars, exitVars, runVars, jobVars, boundVars>>

-------------------------------------------------------------------------------
Fails == failures > 0 /\ failures' = failures - 1

\* NodeManager.restart() called at the end of start(): when the manager is exiting
\* it returns, start() returns, and startNode() goes round its loop.
Restart ==
    /\ main' = IF exiting THEN "init" ELSE "clean"
    /\ exiting' = TRUE
    /\ UNCHANGED inJobLoop

\* The catch of startNode(), with the value of inJobLoop it finds.
Catch(inLoop) ==
    /\ inJobLoop' = inLoop
    /\ main' = IF signalled THEN "left" ELSE IF inLoop THEN "errorClean" ELSE "leaving"
    /\ exiting' = (exiting \/ ~signalled)

\* Node.run() is past its job: it finishes it, unless the node is exiting, and then
\* its promise never settles.
ToFinish == runPc' = IF nodeExiting THEN "off" ELSE "finishing"

-------------------------------------------------------------------------------
(* startNode(), NodeManager.init() and start().                               *)

InitDone ==
    /\ main = "init"
    /\ main' = "start" /\ exiting' = FALSE
    /\ UNCHANGED <<chainVars, flow, inJobLoop, exitVars, runVars, jobVars, boundVars>>

\* init(), or one of the checks before the job loop, throws.
NotReady ==
    /\ main \in {"init", "start"} /\ Fails
    /\ \E inLoop \in {inJobLoop, inJobLoop \/ main = "start"} : Catch(inLoop)
    /\ UNCHANGED <<chainVars, flow, exitVars, runVars, jobVars, crashes, signals>>

Unhealthy ==
    /\ main = "start" /\ Fails
    /\ Restart
    /\ UNCHANGED <<chainVars, flow, exitVars, runVars, jobVars, crashes, signals>>

ChecksPass ==
    /\ main = "start"
    /\ main' = "market" /\ inJobLoop' = TRUE
    /\ UNCHANGED <<chainVars, flow, exiting, exitVars, runVars, jobVars, boundVars>>

\* pending(): a run that was assigned to the node before is taken up again.
Pending ==
    /\ main = "market"
    /\ run' = assigned
    /\ IF assigned = NoJob THEN main' = "queue" /\ UNCHANGED runPc
                           ELSE main' = "race" /\ runPc' = "monitoring"
    /\ UNCHANGED <<chainVars, flow, exiting, inJobLoop, exitVars, job, reason, jobVars, boundVars>>

\* queue(), and then monitorMarket() and run() race.
Queue ==
    /\ main = "queue"
    /\ queued' = (assigned = NoJob)
    /\ main' = "race" /\ runPc' = "monitoring"
    /\ UNCHANGED <<assigned, onChain, result, flow, exiting, inJobLoop, exitVars, run, job, reason,
                   jobVars, boundVars>>

MarketFails ==
    /\ main \in {"market", "queue"} /\ Fails
    /\ Catch(TRUE)
    /\ UNCHANGED <<chainVars, flow, exitVars, runVars, jobVars, crashes, signals>>

\* Mutant: monitorMarket() does not look for a run.
NoRunInSightAlways == TRUE

NoRunInSight == run = NoJob

\* monitorMarket() wins: out of the queue for 30 seconds and no run in sight.  A run
\* that was seen in that time ends the wait, also when the shutdown has cleared it since.
MarketTimeout ==
    /\ main = "race"
    /\ shutdown \in {"idle", "market"} \/ runPc = "unheard"
    /\ ~queued /\ NoRunInSight
    /\ Restart
    /\ runPc' = "off"
    /\ UNCHANGED <<chainVars, flow, exitVars, run, job, reason, jobVars, boundVars>>

-------------------------------------------------------------------------------
(* Results.                                                                   *)

\* Mutant: a job without a flow has no result.
NoBlankResult(j) == flow[j]

\* resolveResult() of a job without a flow is a blank state.
Result(j) == IF flow[j] = "none" THEN "blank" ELSE flow[j]

\* A result posted for the jobs of J, and the change of the account it makes.
Post(J) ==
    /\ result' = [j \in Jobs |-> IF j \in J THEN Result(j) ELSE result[j]]
    /\ onChain' = [j \in Jobs |-> IF j \in J THEN "done" ELSE onChain[j]]
    /\ assigned' = IF assigned \in J THEN NoJob ELSE assigned

\* JobRegistry.stop(): submitResult() of every job left.  One whose run is closed is
\* stale, and is forgotten like one that was submitted; of those in lost it keeps.
SubmitAll ==
    \E lost \in SUBSET registered :
        /\ Cardinality(lost) <= failures
        /\ failures' = failures - Cardinality(lost)
        /\ Post((registered \ lost) \cap {assigned})
        /\ registered' = lost

-------------------------------------------------------------------------------
(* clean(), of restart() or of the catch.  No task manager is at work then.   *)

\* Mutant: the abort controller is not refreshed.
RefreshedForgotten == aborted

Refreshed == FALSE

Clean ==
    /\ main \in {"clean", "errorClean"}
    /\ SubmitAll
    /\ main' = IF main = "clean" THEN "delay" ELSE "errorDelay"
    /\ exiting' = FALSE
    /\ run' = NoJob
    /\ listening' = "off" /\ finishing' = FALSE /\ expiryArmed' = FALSE
    /\ aborted' = Refreshed
    /\ UNCHANGED <<queued, flow, inJobLoop, exitVars, runPc, job, reason, task, crashes, signals>>

Delay ==
    /\ main \in {"delay", "errorDelay"}
    /\ main' = IF main = "delay" THEN "start" ELSE "init"
    /\ exiting' = IF main = "delay" THEN FALSE ELSE exiting
    /\ UNCHANGED <<chainVars, flow, inJobLoop, exitVars, runVars, jobVars, boundVars>>

-------------------------------------------------------------------------------
(* Node.run() and the job handler.                                            *)

\* startRunMonitoring() resolves.
RunFound ==
    LET found == IF run # NoJob THEN run ELSE assigned IN
    /\ runPc = "monitoring" /\ found # NoJob
    /\ run' = found /\ job' = found
    /\ runPc' = "claiming" /\ reason' = "none"
    /\ UNCHANGED <<chainVars, flow, loopVars, exitVars, jobVars, boundVars>>

\* Mutant: the timer is not set.
ArmedForgotten == FALSE

Armed == TRUE

\* claim() and register(), and start() up to the definition.  A flow that is there
\* gets a task manager without a definition, whose build() throws.
Claim ==
    /\ runPc = "claiming"
    /\ registered' = registered \cup {job}
    /\ \/ reason' = "completed" /\ ToFinish   \* the job has expired
          /\ UNCHANGED <<flow, expiryArmed>>
       \/ /\ flow[job] = "none"
          /\ expiryArmed' = Armed
          /\ runPc' = "resolving"
          /\ UNCHANGED <<flow, reason>>
       \/ /\ flow[job] # "none"
          /\ expiryArmed' = Armed
          /\ flow' = [flow EXCEPT ![job] = "error"]
          /\ reason' = "completed" /\ ToFinish
    /\ UNCHANGED <<chainVars, loopVars, exitVars, run, job, task, finishing, listening, aborted,
                   boundVars>>

\* The definition says that the poster is going to send it.
AwaitDefinition ==
    /\ runPc = "resolving"
    /\ job \in Confidential /\ flow[job] = "none"
    /\ flow' = [flow EXCEPT ![job] = "waiting"]
    /\ UNCHANGED <<chainVars, loopVars, exitVars, runVars, jobVars, boundVars>>

HasDefinition == runPc = "resolving" /\ (job \in Confidential => flow[job] = "waiting")

\* The task manager is built, and start() of it called.
TaskStarts ==
    /\ HasDefinition
    /\ flow' = [flow EXCEPT ![job] = "open"]
    /\ task' = "working" /\ listening' = "on" /\ runPc' = "task"
    /\ UNCHANGED <<chainVars, loopVars, exitVars, run, job, reason, registered, finishing,
                   expiryArmed, aborted, boundVars>>

\* A plan that build() throws on, or a sent definition that is late or not valid.
Refused ==
    /\ HasDefinition
    /\ flow' = [flow EXCEPT ![job] = "error"]
    /\ reason' = "completed" /\ ToFinish
    /\ UNCHANGED <<chainVars, loopVars, exitVars, run, job, jobVars, boundVars>>

\* A definition that is not valid has no flow to record it in: validate() throws.
NotValid ==
    /\ HasDefinition /\ flow[job] = "none"
    /\ Catch(TRUE)
    /\ runPc' = "off"
    /\ UNCHANGED <<chainVars, flow, exitVars, run, job, reason, jobVars, boundVars>>

\* A service that run() calls fails while it looks for, claims or fetches a job.
RunFails ==
    /\ runPc \in {"monitoring", "claiming", "resolving"} /\ Fails
    /\ Catch(TRUE)
    /\ runPc' = "off"
    /\ UNCHANGED <<chainVars, flow, exitVars, run, job, reason, jobVars, crashes, signals>>

\* start() of the task manager returns, and then what waited for it: run(), which says
\* "completed" unless the account said "stopped", and the handlers that called stop().
TaskEnds ==
    /\ task # "none"
    /\ \E status \in {"success", "failed"} : flow' = [flow EXCEPT ![job] = status]
    /\ task' = "none"
    /\ aborted' = (aborted \/ task = "stopping")
    /\ \/ /\ reason' = IF reason # "none" THEN reason
                       ELSE IF finishing THEN "stopped" ELSE "completed"
          /\ ToFinish
          /\ UNCHANGED <<loopVars, failures>>
       \/ /\ Fails /\ Catch(TRUE)   \* it rejects: a container could not be removed
          /\ runPc' = "off"
          /\ UNCHANGED reason
    /\ UNCHANGED <<chainVars, exitVars, run, job, registered, finishing, listening, expiryArmed,
                   crashes, signals>>

\* What a handler does that stops the task manager for a reason: stop() returns at
\* once if there is none, or if it is being stopped already.
StopTask(why) ==
    IF task = "working" THEN task' = "stopping" /\ UNCHANGED <<aborted, reason>>
    ELSE /\ aborted' = TRUE
         /\ reason' = IF reason = "none" THEN why ELSE reason
         /\ UNCHANGED task

\* The first abort also ends the wait for a definition.
Expires ==
    /\ expiryArmed
    /\ expiryArmed' = FALSE
    /\ IF runPc = "resolving" /\ ~aborted
       THEN aborted' = TRUE /\ reason' = "completed" /\ ToFinish /\ UNCHANGED task
       ELSE StopTask("expired") /\ UNCHANGED runPc
    /\ UNCHANGED <<chainVars, flow, loopVars, exitVars, run, job, registered, finishing,
                   listening, boundVars>>

Ended(state) == state \in {"stopped", "done"}

\* The account of the job has changed.  Only the first 'stopped' has a listener; of an
\* extension only the time of the expiry depends.
AccountChanges ==
    /\ listening = "due"
    /\ listening' = "on"
    /\ finishing' = (finishing \/ Ended(onChain[job]))
    /\ IF finishing' /\ ~finishing THEN StopTask("stopped")
                                    ELSE UNCHANGED <<task, aborted, reason>>
    /\ UNCHANGED <<chainVars, flow, loopVars, exitVars, run, runPc, job, registered, expiryArmed,
                   boundVars>>

\* complete() for a job that was stopped, else submitResult().
Postable == IF reason = "stopped" THEN onChain[job] = "stopped" ELSE assigned = job

Finish ==
    /\ runPc = "finishing" /\ Postable
    /\ Post({job})
    /\ listening' = IF listening = "on" THEN "due" ELSE listening
    /\ registered' = registered \ {job}
    /\ runPc' = "off"
    /\ Restart
    /\ UNCHANGED <<queued, flow, exitVars, run, job, reason, task, finishing, expiryArmed, aborted,
                   boundVars>>

FinishFails ==
    /\ runPc = "finishing"
    /\ \/ Postable /\ Fails
       \/ ~Postable /\ UNCHANGED failures
    /\ Catch(TRUE)
    /\ runPc' = "off"
    /\ UNCHANGED <<chainVars, flow, exitVars, run, job, reason, jobVars, crashes, signals>>

-------------------------------------------------------------------------------
(* Signals, the end of the process and the next one.                          *)

Signal ==
    /\ signals > 0 /\ signals' = signals - 1
    /\ main # "down" /\ shutdown = "idle"
    /\ signalled' = TRUE
    /\ IF exiting THEN UNCHANGED <<exiting, nodeExiting, shutdown>>
                  ELSE exiting' = TRUE /\ nodeExiting' = TRUE /\ shutdown' = "market"
    /\ UNCHANGED <<chainVars, flow, main, inJobLoop, runVars, jobVars, failures, crashes>>

\* The node leaves the market, if it has one and the call succeeds, and the call of
\* TaskManagerRegistry.stop() is made.
LeaveMarket ==
    /\ shutdown = "market"
    /\ queued' \in {queued, FALSE}
    /\ run' = NoJob
    /\ runPc' = IF runPc = "monitoring" THEN "unheard" ELSE runPc
    /\ IF task = "working" THEN task' = "quitting" /\ shutdown' = "tasks"
                           ELSE shutdown' = "jobs" /\ UNCHANGED task
    /\ UNCHANGED <<assigned, onChain, result, flow, loopVars, signalled, nodeExiting, job, reason,
                   registered, finishing, listening, expiryArmed, aborted, boundVars>>

TasksStopped ==
    /\ shutdown = "tasks" /\ task = "none"
    /\ shutdown' = "jobs"
    /\ UNCHANGED <<chainVars, flow, loopVars, signalled, nodeExiting, runVars, jobVars, boundVars>>

\* Only the repository and the chain are left.
Down ==
    /\ main' = "down"
    /\ exiting' = FALSE /\ inJobLoop' = FALSE
    /\ signalled' = FALSE /\ nodeExiting' = FALSE /\ shutdown' = "idle"
    /\ run' = NoJob /\ runPc' = "off" /\ job' = NoJob /\ reason' = "none"
    /\ task' = "none" /\ finishing' = FALSE /\ listening' = "off"
    /\ expiryArmed' = FALSE /\ aborted' = FALSE

Exits ==
    /\ shutdown = "jobs"
    /\ SubmitAll
    /\ Down
    /\ UNCHANGED <<queued, flow, crashes, signals>>

\* error(), stop() and requestExit() of a node that never got to the job loop.
Leaves ==
    /\ main = "leaving"
    /\ queued' \in {queued, FALSE}
    /\ registered' = {}
    /\ Down
    /\ UNCHANGED <<assigned, onChain, result, flow, boundVars>>

Crash ==
    /\ crashes > 0 /\ crashes' = crashes - 1
    /\ main # "down"
    /\ registered' = {}
    /\ Down
    /\ UNCHANGED <<chainVars, flow, failures, signals>>

\* The operator starts the node, or the wrapper one that was in the job loop.
Spawn ==
    /\ main = "down"
    /\ main' = "init"
    /\ inJobLoop' \in BOOLEAN
    /\ registered' = {}
    /\ UNCHANGED <<chainVars, flow, exiting, exitVars, runVars, task, finishing, listening,
                   expiryArmed, aborted, boundVars>>

-------------------------------------------------------------------------------
(* The chain.                                                                 *)

Assign(j) ==
    /\ queued /\ onChain[j] = "posted"
    /\ queued' = FALSE /\ assigned' = j
    /\ onChain' = [onChain EXCEPT ![j] = "running"]
    /\ UNCHANGED <<result, flow, loopVars, exitVars, runVars, jobVars, boundVars>>

\* The account of j has changed, and the node hears of it if it listens to it.
Notify(j) == listening' = IF listening = "on" /\ job = j THEN "due" ELSE listening

PosterStops(j) ==
    /\ onChain[j] = "running"
    /\ onChain' = [onChain EXCEPT ![j] = "stopped"]
    /\ assigned' = NoJob
    /\ Notify(j)
    /\ UNCHANGED <<queued, result, flow, loopVars, exitVars, runVars, registered, task, finishing,
                   expiryArmed, aborted, boundVars>>

PosterExtends(j) ==
    /\ onChain[j] = "running"
    /\ Notify(j)
    /\ UNCHANGED <<chainVars, flow, loopVars, exitVars, runVars, registered, task, finishing,
                   expiryArmed, aborted, boundVars>>

-------------------------------------------------------------------------------
Init ==
    /\ queued = FALSE /\ assigned = NoJob
    /\ onChain = [j \in Jobs |-> "posted"]
    /\ result = [j \in Jobs |-> "none"]
    /\ flow = [j \in Jobs |-> "none"]
    /\ main = "init" /\ exiting = FALSE /\ inJobLoop = FALSE
    /\ signalled = FALSE /\ nodeExiting = FALSE /\ shutdown = "idle"
    /\ run = NoJob /\ runPc = "off" /\ job = NoJob /\ reason = "none"
    /\ registered = {} /\ task = "none" /\ finishing = FALSE /\ listening = "off"
    /\ expiryArmed = FALSE /\ aborted = FALSE
    /\ failures = MaxFailures /\ crashes = MaxCrashes /\ signals = MaxSignals

MainStep == InitDone \/ ChecksPass \/ Pending \/ Queue \/ Clean \/ Delay
RunStep  == RunFound \/ Claim \/ AwaitDefinition \/ TaskStarts \/ Refused
            \/ NotValid \/ Finish \/ FinishFails
ExitStep == LeaveMarket \/ TasksStopped \/ Exits \/ Leaves

Next ==
    \/ MainStep \/ NotReady \/ Unhealthy \/ MarketFails \/ MarketTimeout
    \/ RunStep \/ RunFails \/ TaskEnds \/ Expires \/ AccountChanges
    \/ Signal \/ ExitStep \/ Crash \/ Spawn
    \/ \E j \in Jobs : Assign(j) \/ PosterStops(j) \/ PosterExtends(j)

Spec == Init /\ [][Next]_vars

\* Calls to services are answered, timers that are set fire, and a task manager that was
\* stopped ends (TaskManager, StopCompletes).  Nothing is assumed of the poster, of a
\* job's own end, of signals, or of a process being started again.
Fairness ==
    /\ WF_vars(MainStep) /\ WF_vars(RunStep) /\ WF_vars(ExitStep)
    /\ WF_vars(Expires)
    /\ WF_vars(TaskEnds /\ task # "working")

FairSpec == Spec /\ Fairness

-------------------------------------------------------------------------------
(* Properties.                                                                *)

Flows == {"none", "waiting", "open", "success", "failed", "error"}

\* Every variable keeps to its type, the bounds are never overrun, and what is done has a
\* result, whether its flow was ever set up or not.
TypeOK ==
    /\ queued \in BOOLEAN /\ assigned \in Jobs \cup {NoJob}
    /\ onChain \in [Jobs -> {"posted", "running", "stopped", "done"}]
    /\ result \in [Jobs -> Flows \cup {"blank"}]
    /\ \A j \in Jobs : result[j] = "none" <=> onChain[j] # "done"
    /\ flow \in [Jobs -> Flows]
    /\ main \in {"init", "start", "market", "queue", "race", "clean", "delay", "errorClean",
                 "errorDelay", "leaving", "left", "down"}
    /\ exiting \in BOOLEAN /\ signalled \in BOOLEAN
    /\ inJobLoop \in BOOLEAN /\ nodeExiting \in BOOLEAN
    /\ shutdown \in {"idle", "market", "tasks", "jobs"}
    /\ run \in Jobs \cup {NoJob} /\ job \in Jobs \cup {NoJob}
    /\ runPc \in {"off", "monitoring", "unheard", "claiming", "resolving", "task", "finishing"}
    /\ runPc \in {"claiming", "resolving", "task", "finishing"} \/ task # "none" => job # NoJob
    /\ reason \in {"none", "completed", "stopped", "expired"}
    /\ registered \subseteq Jobs
    /\ task \in {"none", "working", "stopping", "quitting"}
    /\ finishing \in BOOLEAN /\ expiryArmed \in BOOLEAN /\ aborted \in BOOLEAN
    /\ listening \in {"off", "on", "due"}
    /\ failures \in 0..MaxFailures /\ crashes \in 0..MaxCrashes /\ signals \in 0..MaxSignals

\* While a task manager works its run() is there to take the outcome, the node is in no
\* queue, and no clean up pulls the job from under it (NodeManager.start, monitorMarket).
WorksUndisturbed == task # "none" => main = "race" /\ runPc = "task" /\ ~queued

\* Nothing of an earlier job is left when one is claimed: no abort, no end its account
\* sent, no timer, unless a signal made the loop go round without clean().
ClaimsAfresh ==
    runPc = "claiming" /\ ~signalled =>
        ~aborted /\ ~finishing /\ ~expiryArmed /\ listening = "off" /\ task = "none"

\* complete() is called for a job that its poster stopped, or that has its result, and no
\* other, however the timer, the account and the end of the job come together.
CompletesStoppedJobs ==
    runPc = "finishing" /\ reason = "stopped" => onChain[job] \in {"stopped", "done"}

\* Until the process dies or is asked to stop, no result is posted of a flow that is still
\* open.  (After a restart one is, of a job that expired meanwhile.)
PostsEndedFlows ==
    [][signals = MaxSignals /\ crashes = MaxCrashes =>
         \A j \in Jobs : result[j] = "none" => result'[j] # "open"]_vars

\* A run the node was assigned does not stay open, whatever fails and whenever the process
\* dies, unless the process is gone, or has given up because it was asked to stop.
RunsAreClosed ==
    \A j \in Jobs : assigned = j ~> assigned # j \/ main \in {"down", "left"}

\* What is posted for a job is the result of a flow that ended, or of a job its poster ended.
PostsWhatEnded == PostsEndedFlows /\ []CompletesStoppedJobs
=============================================================================
