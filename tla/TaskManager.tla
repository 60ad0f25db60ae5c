----------------------------- MODULE TaskManager -----------------------------
(***************************************************************************)
(* One job running on a node: src/src/NodeManager/node/task/TaskManager.ts *)
(* with the handlers bound to it (operations/*.ts) and the part of         *)
(* provider/Provider.ts that runs one operation and emits its events.      *)
(*                                                                         *)
(* The code is single-threaded JavaScript.  An action here is what one     *)
(* macrotask does: a request handler, a container event, a timer.  What    *)
(* the settling of a promise triggers (its reactions, the loop of start()  *)
(* resuming) are microtasks, which run before the next macrotask: they     *)
(* are the actions Settle, RuntimeReady, RuntimeFails, RetryFails,         *)
(* AwaitAgain, GroupEnd and FailFlow, and every other action waits until   *)
(* none of them is due (Quiet).                                            *)
(***************************************************************************)
EXTENDS Integers, FiniteSets

CONSTANTS
    Ops,              \* the operation ids of the job definition
    NGroups,          \* the length of executionPlan
    GroupOf,          \* [Ops -> 1..NGroups], the position of an op's group in it
    Dependencies,     \* [Ops -> SUBSET Ops], dependecyMap.get(op).dependencies
    Servers,          \* the ops with execution.stop_if_dependent_stops
    Volumes,          \* the container/create-volume ops, the others are container/run
    Exposed,          \* the ops that expose a port
    Probed,           \* the exposed ops that have a health check
    Timed,            \* the ops with execution.timeout
    Interpolating,    \* the ops whose interpolation may throw
    Requests,         \* the API requests the environment issues
    JobStops,         \* the reasons stop() is called with
    GpuRuntime,       \* whether the node manages a podman that can go stale
    RuntimeMayFail,   \* whether it may fail to come back
    TeardownMayFail,  \* whether stopping or removing a container may throw
    MaxLive           \* bound: runs of one op that are alive at once

NoSlot  == 0
Slots   == 1..MaxLive
Reasons == {"none", "completed", "expired", "stopped", "restart", "quit", "unknown"}

ASSUME PlanAssumption ==
    /\ NGroups \in Nat \ {0}
    /\ MaxLive \in Nat \ {0}
    /\ GroupOf \in [Ops -> 1..NGroups]
    /\ Dependencies \in [Ops -> SUBSET Ops]
    /\ \A o \in Ops : o \notin Dependencies[o]

ASSUME KindAssumption ==
    /\ Servers \subseteq Ops /\ Volumes \subseteq Ops /\ Timed \subseteq Ops
    /\ Exposed \subseteq Ops \ Volumes /\ Probed \subseteq Exposed
    /\ Interpolating \subseteq Ops
    /\ Requests \subseteq {"stopOp", "stopGroup", "restartOp", "restartGroup"}
    /\ JobStops \subseteq {"expired", "stopped", "quit"}
    /\ GpuRuntime \in BOOLEAN /\ RuntimeMayFail \in BOOLEAN /\ TeardownMayFail \in BOOLEAN

VARIABLES
    pc,                  \* where start() is
    currentGroup,        \* position in the plan, 0 for undefined
    flowStatus,          \* flow.state.status in the repository
    abortReason,         \* mainAbortController.signal.reason, "none" until aborted
    stopLock,            \* lockedOperations.has("stop:<job>")
    operationStatus,     \* in memory, what the API reports
    opState,             \* in the repository, what the result is made of
    runs,                \* the runs of runTaskManagerOperation, [Ops -> [Slots -> Run]]
    abortControllerMap,  \* the run whose controller the map holds
    tracked,             \* currentGroupOperationsPromises, the entries of ops
    leaked,              \* ops with a main abort listener that outlived their run
    lockedOperations,    \* [Ops -> "none", "RESTARTING" or "STOPPING"]
    finaliser,           \* the promise the background part of a stop or restart awaits
    holds,               \* currentGroupOperationsPromises, the ::restart-block entries
    awaited,             \* the promises of the Promise.all start() is in
    rejected,            \* one of them has rejected
    runtime              \* podman: "up", "recreating", or "failed" to be recreated

flowVars  == <<pc, currentGroup, flowStatus>>
stopVars  == <<abortReason, stopLock>>
opVars    == <<operationStatus, opState, runs, abortControllerMap, tracked, leaked>>
lockVars  == <<lockedOperations, finaliser>>
groupVars == <<holds, awaited, rejected>>
vars      == <<flowVars, stopVars, opVars, lockVars, groupVars, runtime>>

-------------------------------------------------------------------------------
Dependents(o) == {d \in Ops : o \in Dependencies[d]}

\* Mutant: a switch without the default branch.
getStatusNoDefault(reason) ==
    CASE reason \in {"completed", "expired"} -> "success"
      [] reason \in {"stopped", "restart"}   -> "stopped"
      [] OTHER                               -> "undefined"

\* getStatus(reason, 'ops')
getStatus(reason) ==
    CASE reason \in {"completed", "expired"} -> "success"
      [] reason \in {"stopped", "restart"}   -> "stopped"
      [] OTHER                               -> "failed"

\* A run's life: ready (held by podman being recreated), creating (after 'start'),
\* started (the container runs), up (it reported itself healthy), teardown
\* (after 'end', containers being removed), failing (the same, after ready()
\* rejected), and then its promise has resolved or rejected.
Phases == {"free", "ready", "creating", "started", "up", "teardown", "failing",
           "resolved", "rejected"}
Working == {"ready", "creating", "started", "up"}

\* notifies: it was given its dependents; retried: the provider's parameter;
\* armed: the timer of enforceOperationTimeout is set; muted: the emitter of a
\* later run of the op was registered, which removes most of its listeners.
NoRun == [phase |-> "free", abort |-> "none", notifies |-> FALSE, retried |-> FALSE,
          armed |-> FALSE, muted |-> FALSE]

NewRun(phase, notifies) == [NoRun EXCEPT !.phase = phase, !.notifies = notifies]

\* The order of microtasks and macrotasks.
Settled(o, k) == runs[o][k].phase \in {"resolved", "rejected"}
Resumes(o, k) == runs[o][k].phase = "ready" /\ runtime # "recreating"
LoopDue == pc = "group" /\ (rejected \/ awaited = {})
Quiet == ~LoopDue /\ \A o \in Ops, k \in Slots : ~Settled(o, k) /\ ~Resumes(o, k)

-------------------------------------------------------------------------------
(* runTaskManagerOperation up to its first await that lasts, for the ops of  *)
(* L, those of bad failing to interpolate.                                   *)

\* Mutant: the main controller is not looked at before its listener is added.
LaunchPhaseDeaf(o, bad) ==
    IF o \in bad THEN "resolved"
    ELSE IF runtime = "recreating" /\ o \notin Volumes THEN "ready" ELSE "creating"

LaunchPhase(o, bad) ==
    IF abortReason # "none" \/ o \in bad THEN "resolved"
    ELSE IF runtime = "recreating" /\ o \notin Volumes THEN "ready" ELSE "creating"

LaunchedStatus(L, bad, st) ==
    [o \in Ops |->
        IF o \notin L \/ abortReason # "none" THEN st[o]
        ELSE IF o \in bad THEN "stopping"
        ELSE IF LaunchPhase(o, bad) = "creating" THEN "running" ELSE st[o]]

OpState(status, ended) == [status |-> status, started |-> TRUE, ended |-> ended]

LaunchedState(L, bad, os) ==
    [o \in Ops |->
        IF o \notin L THEN os[o]
        ELSE IF abortReason # "none" THEN OpState(getStatus(abortReason), TRUE)
        ELSE IF o \in bad THEN OpState("failed", TRUE)
        ELSE IF LaunchPhase(o, bad) = "creating" THEN OpState("running", FALSE) ELSE os[o]]

FreeSlot(o, rs) == CHOOSE k \in Slots : rs[o][k].phase = "free"

LaunchedRuns(L, bad, rs, notifies) ==
    [o \in Ops |-> [k \in Slots |->
        IF o \notin L THEN rs[o][k]
        ELSE IF k = FreeSlot(o, rs) THEN NewRun(LaunchPhase(o, bad), notifies)
        ELSE [rs[o][k] EXCEPT !.muted = rs[o][k].phase # "free"]]]

\* A controller whose run has returned already aborts nothing: the map holds none.
LaunchedControllers(L, bad, rs, ctl) ==
    [o \in Ops |-> IF o \notin L THEN ctl[o]
                   ELSE IF LaunchPhase(o, bad) = "resolved" THEN NoSlot ELSE FreeSlot(o, rs)]

LaunchedTracked(L, rs, tr) == [o \in Ops |-> IF o \in L THEN FreeSlot(o, rs) ELSE tr[o]]

Launch(L, bad, notifies, st, os, rs, ctl, tr) ==
    /\ \A o \in L : \E k \in Slots : rs[o][k].phase = "free"
    /\ operationStatus' = LaunchedStatus(L, bad, st)
    /\ opState' = LaunchedState(L, bad, os)
    /\ runs' = LaunchedRuns(L, bad, rs, notifies)
    /\ abortControllerMap' = LaunchedControllers(L, bad, rs, ctl)
    /\ tracked' = LaunchedTracked(L, rs, tr)
    /\ leaked' = IF abortReason # "none" THEN leaked ELSE leaked \cup (L \cap bad)

-------------------------------------------------------------------------------
(* The synchronous part of stopTaskManagerOperation for the ops of T, whose  *)
(* promises are tr.  An op with no promise is finalised in the same call.    *)

StoppableIn(T, st) == {o \in T : lockedOperations[o] = "none" /\ st[o] # "stopped"}

StopStatus(T, tr, st) ==
    [o \in Ops |-> IF o \notin T THEN st[o]
                   ELSE IF tr[o] = NoSlot THEN "stopped" ELSE "stopping"]

\* Mutant: the stop does not look for an endTime.
EndedAsStoppedAlways(x) == [x EXCEPT !.status = "stopped", !.ended = TRUE]

EndedAsStopped(x) == IF x.ended THEN x ELSE [x EXCEPT !.status = "stopped", !.ended = TRUE]

StopState(T, tr, os) ==
    [o \in Ops |-> IF o \in T /\ tr[o] = NoSlot THEN EndedAsStopped(os[o]) ELSE os[o]]

Locked(T, tr, lock, how) ==
    [o \in Ops |-> IF o \in T /\ tr[o] # NoSlot THEN how ELSE lock[o]]

\* Mutant: nothing waits for the op that was locked.
FinalisersForgotten(T, tr, fin) == fin

Finalisers(T, tr, fin) == [o \in Ops |-> IF o \in T /\ tr[o] # NoSlot THEN tr[o] ELSE fin[o]]

\* Mutant: the abort is only listened to once the container runs.
AbortRunOnceStarted(run, reason) ==
    IF run.phase \in {"started", "up"} /\ run.abort = "none" THEN [run EXCEPT !.abort = reason]
                                                             ELSE run

\* controller.abort(reason): only the first abort of a controller has an effect.
AbortRun(run, reason) ==
    IF run.phase \in Working /\ run.abort = "none" THEN [run EXCEPT !.abort = reason] ELSE run

AbortedRuns(T, rs, reason) ==
    [o \in Ops |-> [k \in Slots |->
        IF o \in T /\ abortControllerMap[o] = k THEN AbortRun(rs[o][k], reason) ELSE rs[o][k]]]

-------------------------------------------------------------------------------
(* start()                                                                    *)

\* Mutant: the dependencies are not looked at.
StartableAtOnce(g, st) == {o \in Ops : GroupOf[o] = g /\ st[o] = "pending"}

\* The ops of group g the loop launches: pending, and every dependency over.
Startable(g, st) ==
    {o \in Ops : /\ GroupOf[o] = g
                 /\ st[o] = "pending"
                 /\ \A d \in Dependencies[o] : st[d] \in {"finished", "stopped"}}

\* The statuses when the loop has queued the groups after g up to group h.
QueuedStatus(g, h, st) ==
    [o \in Ops |-> IF st[o] # "pending" \/ GroupOf[o] \notin (g + 1)..h THEN st[o]
                   ELSE IF o \in Startable(h, st) THEN "starting" ELSE "waiting"]

EnterGroup(h, st, bad) ==
    LET L == Startable(h, st) IN
    /\ bad \subseteq L
    /\ Launch(L, bad, TRUE, QueuedStatus(currentGroup, h, st), opState, runs,
              abortControllerMap, tracked)
    /\ pc' = "group"
    /\ currentGroup' = h
    /\ flowStatus' = "running"
    /\ awaited' = {<<o, FreeSlot(o, runs)>> : o \in L}

\* Mutant: the outcome is read from the progress the API shows.
FinishFlowFromProgress(st) ==
    /\ pc' = "cleanup"
    /\ currentGroup' = 0
    /\ operationStatus' = QueuedStatus(currentGroup, NGroups, st)
    /\ flowStatus' = IF \E o \in Ops : operationStatus[o] = "failed" THEN "failed" ELSE "success"
    /\ UNCHANGED <<opState, runs, abortControllerMap, tracked, leaked, awaited>>

\* The loop is over: the flow gets its outcome, and the clean up begins.
FinishFlow(st) ==
    /\ pc' = "cleanup"
    /\ currentGroup' = 0
    /\ operationStatus' = QueuedStatus(currentGroup, NGroups, st)
    /\ flowStatus' = IF \E o \in Ops : opState[o].status = "failed" THEN "failed" ELSE "success"
    /\ UNCHANGED <<opState, runs, abortControllerMap, tracked, leaked, awaited>>

\* The loop runs through a group in which nothing starts without an await, so it
\* goes on to the next group with a promise to wait for, or to the end of the plan.
Advance(st) ==
    LET nothingIn(groups) == \A g \in groups : Startable(g, st) = {} IN
    \/ \E h \in (currentGroup + 1)..NGroups :
          /\ Startable(h, st) # {}
          /\ nothingIn((currentGroup + 1)..(h - 1))
          /\ \E bad \in SUBSET Interpolating : EnterGroup(h, st, bad)
    \/ nothingIn((currentGroup + 1)..NGroups) /\ FinishFlow(st)

Start ==
    /\ pc = "bootstrapped"
    /\ Advance([o \in Ops |-> "pending"])
    /\ UNCHANGED <<stopVars, lockVars, holds, rejected, runtime>>

\* Mutant: one Promise.all instead of a loop of them.
NothingTrackedOnce == TRUE

NothingTracked == holds = {} /\ \A o \in Ops : tracked[o] = NoSlot

\* Promise.all is done, and promises were added since it was called.
AwaitAgain ==
    /\ LoopDue /\ ~rejected
    /\ ~NothingTracked
    /\ awaited' = {<<o, tracked[o]>> : o \in {p \in Ops : tracked[p] # NoSlot}}
                    \cup {<<o, NoSlot>> : o \in holds}
    /\ UNCHANGED <<flowVars, stopVars, opVars, lockVars, holds, rejected, runtime>>

GroupEnd ==
    /\ LoopDue /\ ~rejected
    /\ NothingTracked
    /\ Advance(operationStatus)
    /\ UNCHANGED <<stopVars, lockVars, holds, rejected, runtime>>

\* Promise.all rejected: the map is cleared and the flow ends as failed.
FailFlow ==
    /\ LoopDue /\ rejected
    /\ pc' = "cleanup"
    /\ currentGroup' = 0
    /\ flowStatus' = "failed"
    /\ tracked' = [o \in Ops |-> NoSlot]
    /\ holds' = {} /\ awaited' = {} /\ rejected' = FALSE
    /\ UNCHANGED <<stopVars, operationStatus, opState, runs, abortControllerMap, leaked,
                   lockVars, runtime>>

\* stopTaskManagerOperation of the provider for every op of the job.
CleanUp ==
    /\ pc = "cleanup" /\ Quiet
    /\ \/ pc' = "done"
       \/ TeardownMayFail /\ pc' = "rejected"
    /\ UNCHANGED <<currentGroup, flowStatus, stopVars, opVars, lockVars, groupVars, runtime>>

-------------------------------------------------------------------------------
(* Requests.  The task manager is in the registry until start() returns.      *)

Serving == pc \in {"group", "cleanup", "rejected"} /\ Quiet

\* The stops of T when the handler has already set the statuses to st.
Stop(T, st) ==
    /\ operationStatus' = StopStatus(T, tracked, st)
    /\ opState' = StopState(T, tracked, opState)
    /\ lockedOperations' = Locked(T, tracked, lockedOperations, "STOPPING")
    /\ finaliser' = Finalisers(T, tracked, finaliser)
    /\ runs' = AbortedRuns(T, runs, "stopped")
    /\ UNCHANGED <<flowVars, stopVars, abortControllerMap, tracked, leaked, groupVars, runtime>>

StopOperation(o) ==
    /\ "stopOp" \in Requests
    /\ Serving
    /\ o \in StoppableIn({o}, operationStatus)
    /\ Stop({o}, operationStatus)

\* Every op of the group becomes "stopping" before the stops, locked or not.
StopGroup ==
    LET members == {o \in Ops : GroupOf[o] = currentGroup}
        st == [o \in Ops |-> IF o \in members THEN "stopping" ELSE operationStatus[o]] IN
    /\ "stopGroup" \in Requests
    /\ Serving /\ currentGroup # 0
    /\ Stop(StoppableIn(members, st), st)

\* The synchronous part of restartTaskManagerOperation for the ops of T, and all
\* of it for those with no promise to wait for.  The new run has no dependents.
Restart(T, rs) ==
    LET now     == {o \in T : tracked[o] = NoSlot}
        later   == T \ now
        st      == [o \in Ops |-> IF o \in T THEN "restarting" ELSE operationStatus[o]]
        aborted == AbortedRuns(T, rs, "restart") IN
    /\ \E bad \in SUBSET (now \cap Interpolating) :
          Launch(now, bad, FALSE, st, opState, aborted, abortControllerMap, tracked)
    /\ lockedOperations' = Locked(later, tracked, lockedOperations, "RESTARTING")
    /\ finaliser' = Finalisers(later, tracked, finaliser)
    /\ holds' = holds \cup later
    /\ UNCHANGED <<flowVars, stopVars, awaited, rejected>>

\* The request names a group and an op: the group has to be the active one.
RestartOperation(o) ==
    /\ "restartOp" \in Requests
    /\ Serving /\ currentGroup # 0
    /\ lockedOperations[o] = "none"
    /\ Restart({o}, runs)
    /\ UNCHANGED runtime

RestartGroup ==
    /\ "restartGroup" \in Requests
    /\ Serving /\ currentGroup # 0
    /\ Restart({o \in Ops : GroupOf[o] = currentGroup /\ lockedOperations[o] = "none"}, runs)
    /\ UNCHANGED runtime

\* stop(reason): abort the main controller, whose listeners are the working runs,
\* the restart blocks and the leaked listeners, then end what has not started.
JobStop(reason) ==
    LET listening == leaked \cup {o \in Ops : \E k \in Slots : runs[o][k].phase \in Working}
        unstarted == {o \in Ops : ~opState[o].started} IN
    /\ Serving
    /\ reason \in JobStops
    /\ abortReason = "none"
    /\ abortReason' = reason
    /\ stopLock' = (pc # "rejected")
    /\ operationStatus' = [o \in Ops |-> IF o \in unstarted THEN "stopped"
                                         ELSE IF o \in listening THEN "stopping"
                                         ELSE operationStatus[o]]
    /\ opState' = [o \in Ops |-> IF o \in unstarted
                                 THEN [status |-> getStatus(reason), started |-> FALSE, ended |-> TRUE]
                                 ELSE opState[o]]
    /\ runs' = [o \in Ops |-> [k \in Slots |-> AbortRun(runs[o][k], reason)]]
    /\ holds' = {}
    /\ awaited' = {p \in awaited : p[2] # NoSlot}
    /\ UNCHANGED <<flowVars, abortControllerMap, tracked, leaked, lockVars, rejected, runtime>>

StopReturns ==
    /\ stopLock
    /\ pc \in {"done", "rejected"}
    /\ stopLock' = FALSE
    /\ UNCHANGED <<flowVars, abortReason, opVars, lockVars, groupVars, runtime>>

-------------------------------------------------------------------------------
(* The provider running slot k of op o, and the listeners of its events.      *)

InPhase(o, k, phases) == Quiet /\ runs[o][k].phase \in phases

MoveRun(o, k, phase) == [runs EXCEPT ![o][k].phase = phase]

ContainerStarted(o, k) ==
    /\ InPhase(o, k, {"creating"})
    /\ o \notin Volumes
    /\ runs' = [MoveRun(o, k, "started") EXCEPT ![o][k].armed = o \in Timed]
    /\ UNCHANGED <<flowVars, stopVars, operationStatus, opState, abortControllerMap, tracked,
                   leaked, lockVars, groupVars, runtime>>

\* Mutant: a stopped op is taken for one that has not started.
ReleasedThoughStopped(o, k) ==
    IF runs[o][k].notifies /\ ~runs[o][k].muted
    THEN {d \in Dependents(o) : operationStatus[d] \in {"init", "pending", "waiting", "stopped"}}
    ELSE {}

\* Mutant: the status of an op the loop has queued is left out.
ReleasedUnlessQueued(o, k) ==
    IF runs[o][k].notifies /\ ~runs[o][k].muted
    THEN {d \in Dependents(o) : operationStatus[d] \in {"init", "pending"}} ELSE {}

\* What 'healthcheck:startup:success' releases: no other dependency is looked at.
Released(o, k) ==
    IF runs[o][k].notifies /\ ~runs[o][k].muted
    THEN {d \in Dependents(o) : operationStatus[d] \in {"init", "pending", "waiting"}}
    ELSE {}

\* The event itself.  A probe reports every port, and again after a liveness
\* restart; an exposed op without a health check never emits it.
StartupSuccess(o, k) ==
    LET L == Released(o, k) IN
    /\ \/ InPhase(o, k, {"started"}) /\ o \notin Exposed
       \/ InPhase(o, k, {"started", "up"}) /\ o \in Probed
    /\ \E bad \in SUBSET (L \cap Interpolating) :
          Launch(L, bad, TRUE, operationStatus, opState, MoveRun(o, k, "up"),
                 abortControllerMap, tracked)
    /\ UNCHANGED <<flowVars, stopVars, lockVars, groupVars, runtime>>

\* How a run that was not, or that was, aborted ends in the repository.
Outcome(abort, status) == IF abort = "none" THEN status ELSE getStatus(abort)

\* An event of the run that sets both statuses of its op, if it is listened to.
Reports(o, k, status, state) ==
    IF runs[o][k].muted THEN UNCHANGED <<operationStatus, opState>>
    ELSE /\ operationStatus' = [operationStatus EXCEPT ![o] = status]
         /\ opState' = [opState EXCEPT ![o] = state]

\* 'exit' and then 'end', in one turn.  'end' deletes the controller of the op.
Exit(o, k, status) ==
    /\ InPhase(o, k, {"up"} \cup IF o \in Exposed THEN {"started"} ELSE {})
    /\ runs[o][k].abort = "none"
    /\ runs' = [MoveRun(o, k, "teardown") EXCEPT ![o][k].armed = FALSE]
    /\ Reports(o, k, "finished", OpState(status, TRUE))
    /\ abortControllerMap' = [abortControllerMap EXCEPT ![o] = NoSlot]
    /\ UNCHANGED <<flowVars, stopVars, tracked, leaked, lockVars, groupVars, runtime>>

\* The run's function throws before 'end', so its promise is going to reject.
Throws(o, k) ==
    /\ runs' = MoveRun(o, k, "failing")
    /\ abortControllerMap' = [abortControllerMap EXCEPT ![o] = IF @ = k THEN NoSlot ELSE @]
    /\ leaked' = IF abortReason = "none" THEN leaked \cup {o} ELSE leaked
    /\ UNCHANGED <<flowVars, stopVars, operationStatus, opState, tracked, lockVars, groupVars,
                   runtime>>

\* 'error' and then 'end', for a run aborted for a reason or not at all.  An
\* 'error' nobody listens to is thrown by emit.
EndInError(o, k, reason) ==
    \/ /\ ~runs[o][k].muted
       /\ runs' = [MoveRun(o, k, IF o \in Volumes THEN "resolved" ELSE "teardown")
                     EXCEPT ![o][k].armed = FALSE]
       /\ Reports(o, k, IF reason = "none" THEN "failed" ELSE "stopped",
                  OpState(Outcome(reason, "failed"), TRUE))
       /\ abortControllerMap' = [abortControllerMap EXCEPT ![o] = NoSlot]
       /\ UNCHANGED <<flowVars, stopVars, tracked, leaked, lockVars, groupVars, runtime>>
    \/ runs[o][k].muted /\ Throws(o, k)

\* An abort reached it, or the container could not be brought up.
Fail(o, k) ==
    /\ \/ InPhase(o, k, {"creating", "started"})
       \/ InPhase(o, k, {"up"}) /\ runs[o][k].abort # "none"
    /\ EndInError(o, k, runs[o][k].abort)

\* The last inspect of an exited container fails, which aborts the run as 'quit'.
LoseExit(o, k) ==
    /\ InPhase(o, k, {"up"} \cup IF o \in Exposed THEN {"started"} ELSE {})
    /\ runs[o][k].abort = "none"
    /\ EndInError(o, k, "quit")

\* A volume is there: success of the start-up, 'exit' and 'end' in one turn.
VolumeDone(o, k) ==
    LET L == Released(o, k) IN
    /\ InPhase(o, k, {"creating"})
    /\ o \in Volumes
    /\ \E bad \in SUBSET (L \cap Interpolating) :
          Launch(L, bad, TRUE,
                 [operationStatus EXCEPT ![o] = "finished"],
                 [opState EXCEPT ![o] = OpState(Outcome(runs[o][k].abort, "success"), TRUE)],
                 MoveRun(o, k, "resolved"),
                 [abortControllerMap EXCEPT ![o] = NoSlot],
                 tracked)
    /\ UNCHANGED <<flowVars, stopVars, lockVars, groupVars, runtime>>

\* The timer of enforceOperationTimeout fires.
Timeout(o, k) ==
    /\ Quiet
    /\ runs[o][k].armed
    /\ operationStatus' = [operationStatus EXCEPT ![o] = "stopping"]
    /\ runs' = [runs EXCEPT ![o][k] = [AbortRun(@, "expired") EXCEPT !.armed = FALSE]]
    /\ UNCHANGED <<flowVars, stopVars, opState, abortControllerMap, tracked, leaked, lockVars,
                   groupVars, runtime>>

\* The containers and the network of the run are removed: its promise settles.
TeardownDone(o, k) ==
    /\ InPhase(o, k, {"teardown", "failing"})
    /\ \/ runs[o][k].phase = "teardown" /\ runs' = MoveRun(o, k, "resolved")
       \/ runs[o][k].phase = "failing" /\ runs' = MoveRun(o, k, "rejected")
       \/ TeardownMayFail /\ runs' = MoveRun(o, k, "rejected")
    /\ UNCHANGED <<flowVars, stopVars, operationStatus, opState, abortControllerMap, tracked,
                   leaked, lockVars, groupVars, runtime>>

\* Mutant: depends_on read the other way round.
StoppedServersReversed(o) ==
    IF currentGroup = 0 THEN {}
    ELSE StoppableIn({s \in Servers : o \in Dependencies[s] /\ GroupOf[s] = currentGroup},
                     operationStatus)

\* The servers trackGroupOperationPromise stops when the promise of o settles; for
\* one that is locked, or of another group, the stop throws instead.
StoppedServers(o) ==
    IF currentGroup = 0 THEN {}
    ELSE StoppableIn({s \in Servers : o \in Dependents(s) /\ GroupOf[s] = currentGroup},
                     operationStatus)

\* The reactions of the promise of run k of op o, in their order: the finally of
\* trackGroupOperationPromise, then the background part of a stop or restart of o.
Settle(o, k) ==
    LET mine     == finaliser[o] = k
        restarts == IF mine /\ lockedOperations[o] = "RESTARTING" THEN {o} ELSE {}
        stops    == IF mine /\ lockedOperations[o] = "STOPPING" THEN {o} ELSE {}
        tr       == [tracked EXCEPT ![o] = NoSlot]
        T        == StoppedServers(o) IN
    /\ Settled(o, k)
    /\ \E bad \in SUBSET (restarts \cap Interpolating) :
          Launch(restarts, bad, FALSE,
                 StopStatus(T \cup stops, tr, operationStatus),
                 StopState(T \cup stops, tr, opState),
                 [AbortedRuns(T, runs, "stopped") EXCEPT ![o][k] = NoRun],
                 abortControllerMap, tr)
    /\ lockedOperations' = [Locked(T, tr, lockedOperations, "STOPPING") EXCEPT
                              ![o] = IF mine THEN "none" ELSE @]
    /\ finaliser' = [Finalisers(T, tr, finaliser) EXCEPT ![o] = IF mine THEN NoSlot ELSE @]
    /\ holds' = holds \ restarts
    /\ awaited' = awaited \ ({<<o, k>>} \cup {<<p, NoSlot>> : p \in restarts})
    /\ rejected' = (rejected \/ (runs[o][k].phase = "rejected" /\ <<o, k>> \in awaited))
    /\ UNCHANGED <<flowVars, stopVars, runtime>>

-------------------------------------------------------------------------------
(* Podman under the operations: gpuRuntime.ready() and recreate().            *)

\* The recreate is over and the run goes on: only a retry looks at the abort.
RuntimeReady(o, k) ==
    /\ Resumes(o, k) /\ runtime = "up"
    /\ ~(runs[o][k].retried /\ runs[o][k].abort # "none")
    /\ runs' = MoveRun(o, k, "creating")
    /\ Reports(o, k, "running", OpState("running", FALSE))
    /\ UNCHANGED <<flowVars, stopVars, abortControllerMap, tracked, leaked, lockVars, groupVars,
                   runtime>>

\* The recreate failed, or the run that waited for it to retry was aborted.
RetryFails(o, k) ==
    /\ Resumes(o, k)
    /\ runs[o][k].retried
    /\ runtime = "failed" \/ runs[o][k].abort # "none"
    /\ EndInError(o, k, runs[o][k].abort)

\* ready() rejects before the try of a first attempt: nothing is emitted.
RuntimeFails(o, k) ==
    /\ Resumes(o, k) /\ runtime = "failed"
    /\ ~runs[o][k].retried
    /\ Throws(o, k)

\* A first attempt meets a stale runtime: it joins the recreate under way, or
\* finds the container fresh and goes on at once, or recreates it, which
\* restarts every running op of the active group, this one included.
RuntimeStale(o, k) ==
    /\ GpuRuntime
    /\ InPhase(o, k, {"creating", "started"})
    /\ o \notin Volumes
    /\ runs[o][k].abort = "none" /\ ~runs[o][k].retried
    /\ \/ /\ runtime = "recreating"
          /\ runs' = [MoveRun(o, k, "ready") EXCEPT ![o][k].retried = TRUE]
          /\ UNCHANGED <<flowVars, stopVars, operationStatus, opState, abortControllerMap,
                         tracked, leaked, lockVars, groupVars, runtime>>
       \/ /\ runtime # "recreating"
          /\ runs' = [MoveRun(o, k, "creating") EXCEPT ![o][k].retried = TRUE]
          /\ Reports(o, k, "running", OpState("running", FALSE))
          /\ UNCHANGED <<flowVars, stopVars, abortControllerMap, tracked, leaked, lockVars,
                         groupVars, runtime>>
       \/ /\ runtime # "recreating"
          /\ runtime' = "recreating"
          /\ Restart({p \in Ops : /\ GroupOf[p] = currentGroup
                                  /\ operationStatus[p] = "running"
                                  /\ lockedOperations[p] = "none"},
                     [MoveRun(o, k, "ready") EXCEPT ![o][k].retried = TRUE])

RecreateEnds ==
    /\ Quiet
    /\ runtime = "recreating"
    /\ runtime' \in {"up"} \cup IF RuntimeMayFail THEN {"failed"} ELSE {}
    /\ UNCHANGED <<flowVars, stopVars, opVars, lockVars, groupVars>>

-------------------------------------------------------------------------------
\* What bootstrap() leaves.
Init ==
    /\ pc = "bootstrapped"
    /\ currentGroup = 0
    /\ flowStatus = "init"
    /\ abortReason = "none"
    /\ stopLock = FALSE
    /\ operationStatus = [o \in Ops |-> "init"]
    /\ opState = [o \in Ops |-> [status |-> "init", started |-> FALSE, ended |-> FALSE]]
    /\ runs = [o \in Ops |-> [k \in Slots |-> NoRun]]
    /\ abortControllerMap = [o \in Ops |-> NoSlot]
    /\ tracked = [o \in Ops |-> NoSlot]
    /\ leaked = {}
    /\ lockedOperations = [o \in Ops |-> "none"]
    /\ finaliser = [o \in Ops |-> NoSlot]
    /\ holds = {} /\ awaited = {} /\ rejected = FALSE
    /\ runtime = "up"

RunStep(o, k) ==
    \/ ContainerStarted(o, k)
    \/ StartupSuccess(o, k)
    \/ \E status \in {"success", "failed"} : Exit(o, k, status)
    \/ Fail(o, k)
    \/ LoseExit(o, k)
    \/ VolumeDone(o, k)
    \/ Timeout(o, k)
    \/ TeardownDone(o, k)
    \/ Settle(o, k)

RuntimeStep(o, k) ==
    \/ RuntimeReady(o, k) \/ RetryFails(o, k) \/ RuntimeFails(o, k)
    \/ RuntimeStale(o, k)

Request ==
    \/ \E o \in Ops : StopOperation(o) \/ RestartOperation(o)
    \/ StopGroup \/ RestartGroup
    \/ \E reason \in JobStops : JobStop(reason)

Next ==
    \/ Start \/ AwaitAgain \/ GroupEnd \/ FailFlow \/ CleanUp
    \/ Request \/ StopReturns
    \/ \E o \in Ops, k \in Slots : RunStep(o, k) \/ RuntimeStep(o, k)
    \/ RecreateEnds

Spec == Init /\ [][Next]_vars

-------------------------------------------------------------------------------
(* Fairness.  A promise reaction that is due runs, a teardown ends, a recreate *)
(* ends, an aborted container is noticed (waitForExit polls the signal), and a *)
(* volume is created or not: timers and I/O callbacks that are due are served  *)
(* in turn, however many requests come in between, hence SF for the actions    *)
(* that wait for Quiet.  Nothing is assumed of requests, of health checks, or  *)
(* of an operation's container ever exiting by itself.                         *)

EndAborted(o) == \E k \in Slots : runs[o][k].abort # "none" /\ Fail(o, k)
Removed(o)    == \E k \in Slots : TeardownDone(o, k)
Reaction(o)   == \E k \in Slots : \/ Settle(o, k) \/ RuntimeReady(o, k)
                                   \/ RetryFails(o, k) \/ RuntimeFails(o, k)

Fairness ==
    /\ WF_vars(Start) /\ WF_vars(AwaitAgain) /\ WF_vars(GroupEnd) /\ WF_vars(FailFlow)
    /\ \A o \in Ops : WF_vars(Reaction(o))
    /\ \A o \in Ops : SF_vars(EndAborted(o)) /\ SF_vars(Removed(o))
    /\ SF_vars(CleanUp) /\ WF_vars(StopReturns)
    /\ SF_vars(RecreateEnds)

FairSpec == Spec /\ Fairness

-------------------------------------------------------------------------------
(* Properties.                                                                *)

PCs        == {"bootstrapped", "group", "cleanup", "done", "rejected"}
Progress   == {"init", "pending", "waiting", "starting", "running", "stopping", "restarting",
               "stopped", "finished", "failed"}
OpStatuses == {"init", "running", "success", "failed", "stopped"}
OpStates   == [status : OpStatuses, started : BOOLEAN, ended : BOOLEAN]
Run        == [phase : Phases, abort : Reasons, notifies : BOOLEAN, retried : BOOLEAN,
               armed : BOOLEAN, muted : BOOLEAN]

\* Every variable keeps to its type; in particular no status is ever undefined,
\* which a stop reason that getStatus() does not know would make it.
TypeOK ==
    /\ pc \in PCs
    /\ currentGroup \in 0..NGroups
    /\ flowStatus \in {"init", "running", "success", "failed"}
    /\ abortReason \in Reasons
    /\ stopLock \in BOOLEAN
    /\ operationStatus \in [Ops -> Progress]
    /\ opState \in [Ops -> OpStates]
    /\ runs \in [Ops -> [Slots -> Run]]
    /\ abortControllerMap \in [Ops -> Slots \cup {NoSlot}]
    /\ tracked \in [Ops -> Slots \cup {NoSlot}]
    /\ leaked \subseteq Ops
    /\ lockedOperations \in [Ops -> {"none", "RESTARTING", "STOPPING"}]
    /\ finaliser \in [Ops -> Slots \cup {NoSlot}]
    /\ holds \subseteq Ops
    /\ awaited \subseteq Ops \X (Slots \cup {NoSlot})
    /\ rejected \in BOOLEAN
    /\ runtime \in {"up", "recreating", "failed"}

Live(o) == {k \in Slots : runs[o][k].phase # "free"}

\* Once stop() has aborted the main controller no container works on without
\* having been told, whatever was launched, restarted, released or retried
\* around the abort (stopAllTaskManagerOperations, runTaskManagerOperation:132).
AbortReachesEveryRun ==
    abortReason # "none" =>
        \A o \in Ops, k \in Slots : runs[o][k].phase \in Working => runs[o][k].abort # "none"

\* An op has one run at a time (a restart waits for the run it replaces, and a
\* dependency reporting itself up again, or several of them, release it once), and it
\* belongs to the group that is active, which waits for it: start() never moves on, or
\* finishes the flow, with a promise it has lost track of.
EveryRunIsAwaited ==
    \A o \in Ops, k \in Slots :
        runs[o][k].phase # "free" => pc = "group" /\ tracked[o] = k

\* A locked op is one whose run is going to end, so that the lock is released,
\* and the group is held exactly while an op is between two runs or before it.
LockedRunIsEnding ==
    \A o \in Ops :
        /\ lockedOperations[o] # "none" =>
              /\ finaliser[o] # NoSlot
              /\ runs[o][finaliser[o]].phase # "free"
              /\ runs[o][finaliser[o]].phase \in Working => runs[o][finaliser[o]].abort # "none"
        /\ abortReason = "none" => (o \in holds <=> lockedOperations[o] = "RESTARTING")

\* start() and stop() keep what JobFlow promises of them: the outcome is written once, with
\* nothing at work, from what is recorded of the ops, which nothing but a stop() changes after;
\* stop() leaves nothing at work for good and does not return before start() (542-747).
WorkingOps == {o \in Ops : \E k \in Slots : runs[o][k].phase \in Working /\ runs[o][k].abort = "none"}

FailedOps == {o \in Ops : opState[o].status = "failed"}

Phase == CASE pc = "bootstrapped" -> "ready"
           [] pc = "group"        -> "running"
           [] pc = "cleanup"      -> "cleaning"
           [] OTHER               -> "over"

Flow == INSTANCE JobFlow WITH phase <- Phase, outcome <- flowStatus, atWork <- WorkingOps,
                              failed <- FailedOps, told <- abortReason # "none",
                              stopping <- stopLock

ImplementsJobFlow == Flow!Spec

\* What a run recorded of its op stays recorded: no late stop, cascade, abort or
\* release rewrites it, only a new run that a restart has started, once podman lets it go on.
NewRunHeld(o) == \E k \in Slots : runs[o][k].phase = "ready" /\ ~runs[o][k].retried

OutcomeIsFinal ==
    [][\A o \in Ops : opState[o].started /\ opState[o].ended /\ opState'[o] # opState[o]
                         => \/ RestartOperation(o) \/ RestartGroup
                            \/ lockedOperations[o] = "RESTARTING"
                            \/ NewRunHeld(o)]_vars

\* A stopped op gets another run from a restart request only: neither the loop
\* nor an op it depends on starts it again.
StoppedStaysDown ==
    [][\A o \in Ops : operationStatus[o] = "stopped" /\ Live(o) = {} /\ Live(o)' # {}
                         => RestartOperation(o) \/ RestartGroup]_vars

\* An op that waits for a single other one is not started before that one reported itself
\* up, or was stopped, by its group or while it was waiting itself.
StartsAfterDependency ==
    abortReason = "none" =>
        \A o, d \in Ops : Dependencies[o] = {d} /\ opState[o].started =>
            \/ opState[d].ended \/ operationStatus[d] = "stopped"
            \/ \E k \in Live(d) : runs[d][k].phase \notin {"ready", "creating", "started"}

\* An op that was left waiting when the flow ended had a dependency that did not
\* finish, or that exited before it was exposed and healthy: no release is lost.
OnlyBlockedOpsWait ==
    pc \in {"cleanup", "done"} /\ abortReason = "none" =>
        \A o \in Ops : operationStatus[o] = "waiting" =>
            \E d \in Dependencies[o] : d \in Exposed \/ operationStatus[d] # "finished"

\* No op comes in the plan before one it depends on.
DependenciesFirst == \A o \in Ops : \A d \in Dependencies[o] : GroupOf[d] <= GroupOf[o]

\* Without a restart of another group's op, what runs is of the active group, or an op it
\* depends on has run and released it, ahead of its turn, unless the plan had it too early.
GroupsInOrder ==
    \A o \in Ops : Live(o) # {} =>
        \/ GroupOf[o] = currentGroup
        \/ /\ 0 < currentGroup
           /\ DependenciesFirst => currentGroup < GroupOf[o]
           /\ \E d \in Dependencies[o] : opState[d].started

\* stop() returns: every aborted container ends and start() finishes.
StopCompletes == abortReason # "none" ~> pc \in {"done", "rejected"} /\ ~stopLock

\* A stop or a restart gives its lock back, whatever else is requested meanwhile.
LocksReleased == \A o \in Ops : lockedOperations[o] # "none" ~> lockedOperations[o] = "none"

\* A server does not outlive what it serves: once an op it serves has run and ended, the
\* server ends too, whatever it was doing, or what runs is a new run that a restart of the
\* server has made (trackGroupOperationPromise).
ServerStops ==
    \A s \in Servers : \A o \in Dependents(s) :
        opState[o].started /\ opState[o].ended ~> \A k \in Live(s) : ~runs[s][k].notifies

\* Ops start in the order the plan and the dependencies give them.
StartsInOrder == StartsAfterDependency /\ GroupsInOrder

\* Whoever waits for a stop or a restart gets an answer: of the job, and of an op.
StopsReturn == StopCompletes /\ LocksReleased
=============================================================================
