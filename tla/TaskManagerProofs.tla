-------------------------- MODULE TaskManagerProofs --------------------------
(***************************************************************************)
(* Theorems about TaskManager for every job definition, every choice of    *)
(* requests and every bound on the runs of an operation.                   *)
(*                                                                         *)
(* What follows the first sections is about a node whose containers can be *)
(* removed and whose podman, if it goes stale, comes back (GpuRuntime).    *)
(* InOrder is the invariant of EveryRunIsAwaited, which carries the        *)
(* refinement of JobFlow: a run of an op is the one start() awaits.        *)
(* Ordered is that of the locks of stops and restarts and of the outcomes  *)
(* of ops; InSequence is that of the order ops start in, when none is      *)
(* restarted, by a request or by podman.                                   *)
(***************************************************************************)
EXTENDS TaskManager, TLAPS

StatusMap     == [Ops -> Progress]
StateMap      == [Ops -> OpStates]
RunMap        == [Ops -> [Slots -> Run]]
SlotMap       == [Ops -> Slots \cup {NoSlot}]

-------------------------------------------------------------------------------
(* What the helpers return.                                                   *)

LEMMA StatusOfReason == ASSUME NEW reason PROVE getStatus(reason) \in OpStatuses
BY DEF getStatus, OpStatuses

LEMMA FreeSlotIsFree ==
    ASSUME NEW rs, NEW o, \E k \in Slots : rs[o][k].phase = "free"
    PROVE  FreeSlot(o, rs) \in Slots /\ rs[o][FreeSlot(o, rs)].phase = "free"
BY DEF FreeSlot

LEMMA OpStateType ==
    ASSUME NEW status \in OpStatuses, NEW ended \in BOOLEAN
    PROVE  OpState(status, ended) \in OpStates
BY DEF OpState, OpStates

LEMMA LaunchPhaseType ==
    ASSUME NEW o, NEW bad
    PROVE  LaunchPhase(o, bad) \in {"resolved", "ready", "creating"}
BY DEF LaunchPhase

LEMMA NewRunType ==
    ASSUME NEW phase \in Phases, NEW notifies \in BOOLEAN
    PROVE  NewRun(phase, notifies) \in Run
BY DEF NewRun, NoRun, Run, Reasons

LEMMA AbortRunType ==
    ASSUME NEW run \in Run, NEW reason \in Reasons
    PROVE  AbortRun(run, reason) \in Run
BY DEF AbortRun, Run

LEMMA AbortedRunsType ==
    ASSUME NEW T, NEW rs \in RunMap, NEW reason \in Reasons
    PROVE  AbortedRuns(T, rs, reason) \in RunMap
BY AbortRunType DEF AbortedRuns, RunMap

LEMMA MoveRunType ==
    ASSUME runs \in RunMap, NEW o \in Ops, NEW k \in Slots, NEW phase \in Phases
    PROVE  MoveRun(o, k, phase) \in RunMap
BY DEF MoveRun, RunMap, Run

LEMMA SetRunType ==
    ASSUME NEW rs \in RunMap, NEW o \in Ops, NEW k \in Slots, NEW b \in BOOLEAN
    PROVE  /\ [rs EXCEPT ![o][k].armed = b] \in RunMap
           /\ [rs EXCEPT ![o][k].retried = b] \in RunMap
<1>1. rs[o][k] \in Run
  BY DEF RunMap
<1>2. [rs[o][k] EXCEPT !.armed = b] \in Run /\ [rs[o][k] EXCEPT !.retried = b] \in Run
  BY <1>1 DEF Run
<1> QED BY <1>2 DEF RunMap

LEMMA StopStatusType ==
    ASSUME NEW T, NEW tr, NEW st \in StatusMap
    PROVE  StopStatus(T, tr, st) \in StatusMap
BY DEF StopStatus, StatusMap, Progress

LEMMA StopStateType ==
    ASSUME NEW T, NEW tr, NEW os \in StateMap
    PROVE  StopState(T, tr, os) \in StateMap
BY DEF StopState, StateMap, EndedAsStopped, OpStates, OpStatuses

LEMMA LockedType ==
    ASSUME NEW T, NEW tr, NEW lock \in [Ops -> {"none", "RESTARTING", "STOPPING"}],
           NEW how \in {"none", "RESTARTING", "STOPPING"}
    PROVE  Locked(T, tr, lock, how) \in [Ops -> {"none", "RESTARTING", "STOPPING"}]
BY DEF Locked

LEMMA FinalisersType ==
    ASSUME NEW T, NEW tr \in SlotMap, NEW fin \in SlotMap
    PROVE  Finalisers(T, tr, fin) \in SlotMap
BY DEF Finalisers, SlotMap

LEMMA QueuedStatusType ==
    ASSUME NEW g, NEW h, NEW st \in StatusMap
    PROVE  QueuedStatus(g, h, st) \in StatusMap
BY DEF QueuedStatus, StatusMap, Progress

\* Whatever it is given, a launch leaves the six variables it sets well typed.
LEMMA LaunchType ==
    ASSUME NEW L \in SUBSET Ops, NEW bad, NEW notifies \in BOOLEAN,
           NEW st \in StatusMap, NEW os \in StateMap, NEW rs \in RunMap,
           NEW ctl \in SlotMap, NEW tr \in SlotMap, leaked \subseteq Ops,
           Launch(L, bad, notifies, st, os, rs, ctl, tr)
    PROVE  /\ operationStatus' \in StatusMap
           /\ opState' \in StateMap
           /\ runs' \in RunMap
           /\ abortControllerMap' \in SlotMap
           /\ tracked' \in SlotMap
           /\ leaked' \subseteq Ops
<1>1. \A o \in L : FreeSlot(o, rs) \in Slots
  BY FreeSlotIsFree DEF Launch
<1>2. operationStatus' \in StatusMap
  BY DEF Launch, LaunchedStatus, StatusMap, Progress
<1>3. opState' \in StateMap
  <2>1. \A o \in Ops : LaunchedState(L, bad, os)[o] \in OpStates
    BY StatusOfReason, OpStateType DEF LaunchedState, StateMap, OpStatuses
  <2>2. LaunchedState(L, bad, os) = [o \in Ops |-> LaunchedState(L, bad, os)[o]]
    BY DEF LaunchedState
  <2> QED BY <2>1, <2>2 DEF Launch, StateMap
<1>4. runs' \in RunMap
  <2>1. ASSUME NEW o \in Ops, NEW k \in Slots
        PROVE  LaunchedRuns(L, bad, rs, notifies)[o][k] \in Run
    <3>1. rs[o][k] \in Run
      BY DEF RunMap
    <3>2. NewRun(LaunchPhase(o, bad), notifies) \in Run
      BY LaunchPhaseType, NewRunType DEF Phases
    <3>3. [rs[o][k] EXCEPT !.muted = rs[o][k].phase # "free"] \in Run
      BY <3>1 DEF Run
    <3> QED BY <3>1, <3>2, <3>3 DEF LaunchedRuns, RunMap
  <2> QED BY <2>1 DEF Launch, LaunchedRuns, RunMap
<1>5. abortControllerMap' \in SlotMap
  BY <1>1 DEF Launch, LaunchedControllers, SlotMap
<1>6. tracked' \in SlotMap
  BY <1>1 DEF Launch, LaunchedTracked, SlotMap
<1>7. leaked' \subseteq Ops
  BY DEF Launch
<1> QED BY <1>2, <1>3, <1>4, <1>5, <1>6, <1>7

-------------------------------------------------------------------------------
(* TypeOK                                                                     *)

\* TypeOK in the names of the sets the lemmas are about.
Typed ==
    /\ pc \in PCs /\ currentGroup \in 0..NGroups
    /\ flowStatus \in {"init", "running", "success", "failed"}
    /\ abortReason \in Reasons /\ stopLock \in BOOLEAN
    /\ operationStatus \in StatusMap /\ opState \in StateMap /\ runs \in RunMap
    /\ abortControllerMap \in SlotMap /\ tracked \in SlotMap /\ leaked \subseteq Ops
    /\ lockedOperations \in [Ops -> {"none", "RESTARTING", "STOPPING"}]
    /\ finaliser \in SlotMap
    /\ holds \subseteq Ops /\ awaited \subseteq Ops \X (Slots \cup {NoSlot})
    /\ rejected \in BOOLEAN
    /\ runtime \in {"up", "recreating", "failed"}

LEMMA TypedIsTypeOK == Typed <=> TypeOK
BY DEF Typed, TypeOK, StatusMap, StateMap, RunMap, SlotMap

LEMMA TypedInit == Init => Typed
<1> SUFFICES ASSUME Init PROVE Typed
  OBVIOUS
<1>1. NoRun \in Run
  BY DEF NoRun, Run, Phases, Reasons
<1>2. currentGroup \in 0..NGroups
  BY PlanAssumption DEF Init
<1> QED
  BY <1>1, <1>2 DEF Init, Typed, PCs, Reasons, StatusMap, Progress, StateMap, OpStates,
     OpStatuses, RunMap, SlotMap

\* start(): from a group to the next one, or to the end.
LEMMA TypedAdvance ==
    ASSUME Typed, NEW st \in StatusMap, Advance(st),
           UNCHANGED <<stopVars, lockVars, holds, rejected, runtime>>
    PROVE  Typed'
<1>1. ASSUME NEW h \in (currentGroup + 1)..NGroups, Startable(h, st) # {},
             NEW bad \in SUBSET Interpolating, EnterGroup(h, st, bad)
      PROVE  Typed'
  <2> DEFINE L == Startable(h, st)
             queued == QueuedStatus(currentGroup, h, st)
  <2>1. /\ Launch(L, bad, TRUE, queued, opState, runs, abortControllerMap, tracked)
        /\ pc' = "group" /\ currentGroup' = h /\ flowStatus' = "running"
        /\ awaited' = {<<o, FreeSlot(o, runs)>> : o \in L}
    BY <1>1 DEF EnterGroup
  <2>2. L \in SUBSET Ops
    BY DEF Startable
  <2>3. queued \in StatusMap
    BY QueuedStatusType
  <2>4. /\ operationStatus' \in StatusMap /\ opState' \in StateMap /\ runs' \in RunMap
        /\ abortControllerMap' \in SlotMap /\ tracked' \in SlotMap /\ leaked' \subseteq Ops
    <3> HIDE DEF L, queued
    <3> QED BY <2>1, <2>2, <2>3, LaunchType DEF Typed
  <2>5. awaited' \subseteq Ops \X (Slots \cup {NoSlot})
    <3>1. \A o \in L : FreeSlot(o, runs) \in Slots
      <4> HIDE DEF L
      <4> QED BY <2>1, FreeSlotIsFree DEF Launch
    <3> QED BY <2>1, <2>2, <3>1
  <2>6. currentGroup' \in 0..NGroups
    BY <2>1, PlanAssumption DEF Typed
  <2> QED BY <2>1, <2>4, <2>5, <2>6 DEF Typed, PCs, stopVars, lockVars
<1>2. CASE FinishFlow(st)
  <2>1. currentGroup' \in 0..NGroups
    BY <1>2, PlanAssumption DEF FinishFlow
  <2>2. operationStatus' \in StatusMap
    BY <1>2, QueuedStatusType DEF FinishFlow
  <2> QED BY <1>2, <2>1, <2>2 DEF FinishFlow, Typed, PCs, stopVars, lockVars
<1> QED BY <1>1, <1>2 DEF Advance

LEMMA TypedStart == ASSUME Typed, Start PROVE Typed'
<1>1. [o \in Ops |-> "pending"] \in StatusMap
  BY DEF StatusMap, Progress
<1> QED BY <1>1, TypedAdvance DEF Start

LEMMA TypedGroupEnd == ASSUME Typed, GroupEnd PROVE Typed'
<1>1. operationStatus \in StatusMap
  BY DEF Typed
<1> QED BY <1>1, TypedAdvance DEF GroupEnd

LEMMA TypedAwaitAgain == ASSUME Typed, AwaitAgain PROVE Typed'
<1>1. awaited' \subseteq Ops \X (Slots \cup {NoSlot})
  BY DEF AwaitAgain, Typed, SlotMap
<1> QED BY <1>1 DEF AwaitAgain, Typed, flowVars, stopVars, opVars, lockVars

LEMMA TypedFailFlow == ASSUME Typed, FailFlow PROVE Typed'
<1>1. currentGroup' \in 0..NGroups
  BY PlanAssumption DEF FailFlow
<1>2. tracked' \in SlotMap
  BY DEF FailFlow, SlotMap
<1> QED BY <1>1, <1>2 DEF FailFlow, Typed, PCs, stopVars, lockVars

LEMMA TypedCleanUp == ASSUME Typed, CleanUp PROVE Typed'
BY DEF CleanUp, Typed, PCs, stopVars, opVars, lockVars, groupVars

\* The requests.
LEMMA TypedStop ==
    ASSUME Typed, NEW T, NEW st \in StatusMap, Stop(T, st)
    PROVE  Typed'
<1>1. operationStatus' \in StatusMap
  BY StopStatusType DEF Stop, Typed
<1>2. opState' \in StateMap
  BY StopStateType DEF Stop, Typed
<1>3. lockedOperations' \in [Ops -> {"none", "RESTARTING", "STOPPING"}]
  BY LockedType DEF Stop, Typed
<1>4. finaliser' \in SlotMap
  BY FinalisersType DEF Stop, Typed
<1>5. runs' \in RunMap
  BY AbortedRunsType DEF Stop, Typed, Reasons
<1> QED
  BY <1>1, <1>2, <1>3, <1>4, <1>5 DEF Stop, Typed, flowVars, stopVars, groupVars

LEMMA TypedStopOperation == ASSUME Typed, NEW o \in Ops, StopOperation(o) PROVE Typed'
BY TypedStop DEF StopOperation, Typed

LEMMA TypedStopGroup == ASSUME Typed, StopGroup PROVE Typed'
<1> DEFINE members == {o \in Ops : GroupOf[o] = currentGroup}
           st == [o \in Ops |-> IF o \in members THEN "stopping" ELSE operationStatus[o]]
<1>1. st \in StatusMap
  BY DEF Typed, StatusMap, Progress
<1>2. Stop(StoppableIn(members, st), st)
  BY DEF StopGroup
<1> QED
  <2> HIDE DEF st, members
  <2> QED BY <1>1, <1>2, TypedStop

LEMMA TypedRestart ==
    ASSUME Typed, NEW T \in SUBSET Ops, NEW rs \in RunMap, Restart(T, rs),
           runtime' \in {"up", "recreating", "failed"}
    PROVE  Typed'
<1> DEFINE now     == {o \in T : tracked[o] = NoSlot}
           later   == T \ now
           st      == [o \in Ops |-> IF o \in T THEN "restarting" ELSE operationStatus[o]]
           aborted == AbortedRuns(T, rs, "restart")
<1>1. PICK bad : Launch(now, bad, FALSE, st, opState, aborted, abortControllerMap, tracked)
  BY DEF Restart
<1>2. /\ lockedOperations' = Locked(later, tracked, lockedOperations, "RESTARTING")
      /\ finaliser' = Finalisers(later, tracked, finaliser)
      /\ holds' = holds \cup later
      /\ UNCHANGED <<flowVars, stopVars, awaited, rejected>>
  BY DEF Restart
<1>3. now \in SUBSET Ops /\ later \in SUBSET Ops
  OBVIOUS
<1>4. st \in StatusMap
  BY DEF Typed, StatusMap, Progress
<1>5. aborted \in RunMap
  BY AbortedRunsType DEF Reasons
<1> HIDE DEF now, later, st, aborted
<1>6. /\ operationStatus' \in StatusMap /\ opState' \in StateMap /\ runs' \in RunMap
      /\ abortControllerMap' \in SlotMap /\ tracked' \in SlotMap /\ leaked' \subseteq Ops
  BY <1>1, <1>3, <1>4, <1>5, LaunchType DEF Typed
<1>7. lockedOperations' \in [Ops -> {"none", "RESTARTING", "STOPPING"}]
  BY <1>2, LockedType DEF Typed
<1>8. finaliser' \in SlotMap
  BY <1>2, FinalisersType DEF Typed
<1> QED BY <1>2, <1>3, <1>6, <1>7, <1>8 DEF Typed, flowVars, stopVars

LEMMA TypedRestartOperation == ASSUME Typed, NEW o \in Ops, RestartOperation(o) PROVE Typed'
BY TypedRestart DEF RestartOperation, Typed

LEMMA TypedRestartGroup == ASSUME Typed, RestartGroup PROVE Typed'
<1> DEFINE T == {o \in Ops : GroupOf[o] = currentGroup /\ lockedOperations[o] = "none"}
<1>1. T \in SUBSET Ops
  OBVIOUS
<1>2. Restart(T, runs)
  BY DEF RestartGroup
<1> QED
  <2> HIDE DEF T
  <2> QED BY <1>1, <1>2, TypedRestart DEF RestartGroup, Typed

LEMMA TypedJobStop == ASSUME Typed, NEW reason \in JobStops, JobStop(reason) PROVE Typed'
<1>1. reason \in Reasons
  BY KindAssumption DEF Reasons
<1>2. operationStatus' \in StatusMap
  BY DEF JobStop, Typed, StatusMap, Progress
<1>3. opState' \in StateMap
  BY StatusOfReason DEF JobStop, Typed, StateMap, OpStates
<1>4. runs' \in RunMap
  BY <1>1, AbortRunType DEF JobStop, Typed, RunMap
<1>5. stopLock' \in BOOLEAN
  BY DEF JobStop
<1>6. awaited' \subseteq Ops \X (Slots \cup {NoSlot})
  BY DEF JobStop, Typed
<1> QED
  BY <1>1, <1>2, <1>3, <1>4, <1>5, <1>6 DEF JobStop, Typed, flowVars, lockVars

LEMMA TypedStopReturns == ASSUME Typed, StopReturns PROVE Typed'
BY DEF StopReturns, Typed, flowVars, opVars, lockVars, groupVars

\* The provider.
LEMMA TypedContainerStarted ==
    ASSUME Typed, NEW o \in Ops, NEW k \in Slots, ContainerStarted(o, k)
    PROVE  Typed'
<1>1. MoveRun(o, k, "started") \in RunMap
  BY MoveRunType DEF Typed, Phases
<1>2. runs' \in RunMap
  <2>1. PICK b \in BOOLEAN : runs' = [MoveRun(o, k, "started") EXCEPT ![o][k].armed = b]
    <3>1. (o \in Timed) \in BOOLEAN
      OBVIOUS
    <3>2. runs' = [MoveRun(o, k, "started") EXCEPT ![o][k].armed = (o \in Timed)]
      BY DEF ContainerStarted
    <3> QED BY <3>1, <3>2, Zenon
  <2> QED BY <1>1, <2>1, SetRunType
<1> QED
  BY <1>2 DEF ContainerStarted, Typed, flowVars, stopVars, lockVars, groupVars

LEMMA TypedStartupSuccess ==
    ASSUME Typed, NEW o \in Ops, NEW k \in Slots, StartupSuccess(o, k)
    PROVE  Typed'
<1>1. PICK bad : Launch(Released(o, k), bad, TRUE, operationStatus, opState, MoveRun(o, k, "up"),
                        abortControllerMap, tracked)
  BY DEF StartupSuccess
<1>2. MoveRun(o, k, "up") \in RunMap
  BY MoveRunType DEF Typed, Phases
<1>3. Released(o, k) \in SUBSET Ops
  BY DEF Released, Dependents
<1>4. /\ operationStatus' \in StatusMap /\ opState' \in StateMap /\ runs' \in RunMap
      /\ abortControllerMap' \in SlotMap /\ tracked' \in SlotMap /\ leaked' \subseteq Ops
  BY <1>1, <1>2, <1>3, LaunchType DEF Typed
<1> QED
  BY <1>4 DEF StartupSuccess, Typed, flowVars, stopVars, lockVars, groupVars

LEMMA ReportsType ==
    ASSUME Typed, NEW o \in Ops, NEW k \in Slots, NEW status \in Progress,
           NEW state \in OpStates, Reports(o, k, status, state)
    PROVE  operationStatus' \in StatusMap /\ opState' \in StateMap
BY DEF Reports, Typed, StatusMap, StateMap

LEMMA TypedExit ==
    ASSUME Typed, NEW o \in Ops, NEW k \in Slots, NEW status \in {"success", "failed"},
           Exit(o, k, status)
    PROVE  Typed'
<1>1. operationStatus' \in StatusMap /\ opState' \in StateMap
  <2>1. "finished" \in Progress /\ OpState(status, TRUE) \in OpStates
    BY OpStateType DEF Progress, OpStatuses
  <2> QED BY <2>1, ReportsType DEF Exit
<1>2. runs' \in RunMap
  <2>1. MoveRun(o, k, "teardown") \in RunMap
    BY MoveRunType DEF Typed, Phases
  <2> QED BY <2>1, SetRunType DEF Exit
<1>3. abortControllerMap' \in SlotMap
  BY DEF Exit, Typed, SlotMap
<1> QED
  BY <1>1, <1>2, <1>3 DEF Exit, Typed, flowVars, stopVars, lockVars, groupVars

LEMMA TypedThrows ==
    ASSUME Typed, NEW o \in Ops, NEW k \in Slots, Throws(o, k)
    PROVE  Typed'
<1>1. runs' \in RunMap
  BY MoveRunType DEF Throws, Typed, Phases
<1>2. abortControllerMap' \in SlotMap
  BY DEF Throws, Typed, SlotMap
<1> QED
  BY <1>1, <1>2 DEF Throws, Typed, flowVars, stopVars, lockVars, groupVars

LEMMA TypedEndInError ==
    ASSUME Typed, NEW o \in Ops, NEW k \in Slots, NEW reason, EndInError(o, k, reason)
    PROVE  Typed'
<1>1. CASE Throws(o, k)
  BY <1>1, TypedThrows
<1>2. CASE ~Throws(o, k)
  <2> DEFINE status == IF reason = "none" THEN "failed" ELSE "stopped"
             phase  == IF o \in Volumes THEN "resolved" ELSE "teardown"
  <2>1. /\ runs' = [MoveRun(o, k, phase) EXCEPT ![o][k].armed = FALSE]
        /\ Reports(o, k, status, OpState(Outcome(reason, "failed"), TRUE))
        /\ abortControllerMap' = [abortControllerMap EXCEPT ![o] = NoSlot]
        /\ UNCHANGED <<flowVars, stopVars, tracked, leaked, lockVars, groupVars, runtime>>
    BY <1>2 DEF EndInError
  <2>2. status \in Progress /\ OpState(Outcome(reason, "failed"), TRUE) \in OpStates
    BY StatusOfReason, OpStateType DEF Progress, Outcome, OpStatuses
  <2>3. phase \in Phases
    BY DEF Phases
  <2> HIDE DEF status, phase
  <2>4. operationStatus' \in StatusMap /\ opState' \in StateMap
    BY <2>1, <2>2, ReportsType
  <2>5. MoveRun(o, k, phase) \in RunMap
    BY <2>3, MoveRunType DEF Typed
  <2>6. runs' \in RunMap
    BY <2>1, <2>5, SetRunType
  <2>7. abortControllerMap' \in SlotMap
    BY <2>1 DEF Typed, SlotMap
  <2> QED
    BY <2>1, <2>4, <2>6, <2>7 DEF Typed, flowVars, stopVars, lockVars, groupVars
<1> QED BY <1>1, <1>2

LEMMA TypedVolumeDone ==
    ASSUME Typed, NEW o \in Ops, NEW k \in Slots, VolumeDone(o, k)
    PROVE  Typed'
<1> DEFINE st  == [operationStatus EXCEPT ![o] = "finished"]
           os  == [opState EXCEPT ![o] = OpState(Outcome(runs[o][k].abort, "success"), TRUE)]
           ctl == [abortControllerMap EXCEPT ![o] = NoSlot]
<1>1. PICK bad : Launch(Released(o, k), bad, TRUE, st, os, MoveRun(o, k, "resolved"), ctl, tracked)
  BY DEF VolumeDone
<1>2. MoveRun(o, k, "resolved") \in RunMap
  BY MoveRunType DEF Typed, Phases
<1>3. Released(o, k) \in SUBSET Ops
  BY DEF Released, Dependents
<1>4. st \in StatusMap
  BY DEF Typed, StatusMap, Progress
<1>5. os \in StateMap
  <2>1. OpState(Outcome(runs[o][k].abort, "success"), TRUE) \in OpStates
    BY StatusOfReason, OpStateType DEF Outcome, OpStatuses
  <2> QED BY <2>1 DEF Typed, StateMap
<1>6. ctl \in SlotMap
  BY DEF Typed, SlotMap
<1> HIDE DEF st, os, ctl
<1>7. /\ operationStatus' \in StatusMap /\ opState' \in StateMap /\ runs' \in RunMap
      /\ abortControllerMap' \in SlotMap /\ tracked' \in SlotMap /\ leaked' \subseteq Ops
  BY <1>1, <1>2, <1>3, <1>4, <1>5, <1>6, LaunchType DEF Typed
<1> QED
  BY <1>7 DEF VolumeDone, Typed, flowVars, stopVars, lockVars, groupVars

LEMMA TypedTimeout ==
    ASSUME Typed, NEW o \in Ops, NEW k \in Slots, Timeout(o, k)
    PROVE  Typed'
<1>1. operationStatus' \in StatusMap
  BY DEF Timeout, Typed, StatusMap, Progress
<1>2. runs' \in RunMap
  <2>1. runs[o][k] \in Run
    BY DEF Typed, RunMap
  <2>2. AbortRun(runs[o][k], "expired") \in Run
    BY <2>1, AbortRunType DEF Reasons
  <2>3. [AbortRun(runs[o][k], "expired") EXCEPT !.armed = FALSE] \in Run
    BY <2>2 DEF Run
  <2> QED BY <2>3 DEF Timeout, Typed, RunMap
<1> QED
  BY <1>1, <1>2 DEF Timeout, Typed, flowVars, stopVars, lockVars, groupVars

LEMMA TypedTeardownDone ==
    ASSUME Typed, NEW o \in Ops, NEW k \in Slots, TeardownDone(o, k)
    PROVE  Typed'
<1>1. runs' \in RunMap
  BY MoveRunType DEF TeardownDone, Typed, Phases
<1> QED
  BY <1>1 DEF TeardownDone, Typed, flowVars, stopVars, lockVars, groupVars

LEMMA TypedSettle ==
    ASSUME Typed, NEW o \in Ops, NEW k \in Slots, Settle(o, k)
    PROVE  Typed'
<1> DEFINE mine     == finaliser[o] = k
           restarts == IF mine /\ lockedOperations[o] = "RESTARTING" THEN {o} ELSE {}
           stops    == IF mine /\ lockedOperations[o] = "STOPPING" THEN {o} ELSE {}
           tr       == [tracked EXCEPT ![o] = NoSlot]
           T        == StoppedServers(o)
           st       == StopStatus(T \cup stops, tr, operationStatus)
           os       == StopState(T \cup stops, tr, opState)
           rs       == [AbortedRuns(T, runs, "stopped") EXCEPT ![o][k] = NoRun]
<1>1. PICK bad : Launch(restarts, bad, FALSE, st, os, rs, abortControllerMap, tr)
  BY DEF Settle
<1>2. /\ lockedOperations' = [Locked(T, tr, lockedOperations, "STOPPING") EXCEPT
                                ![o] = IF mine THEN "none" ELSE @]
      /\ finaliser' = [Finalisers(T, tr, finaliser) EXCEPT ![o] = IF mine THEN NoSlot ELSE @]
      /\ holds' = holds \ restarts
      /\ awaited' = awaited \ ({<<o, k>>} \cup {<<p, NoSlot>> : p \in restarts})
      /\ rejected' = (rejected \/ (runs[o][k].phase = "rejected" /\ <<o, k>> \in awaited))
      /\ UNCHANGED <<flowVars, stopVars, runtime>>
  BY DEF Settle
<1>3. restarts \in SUBSET Ops
  OBVIOUS
<1>4. tr \in SlotMap
  BY DEF Typed, SlotMap
<1>5. st \in StatusMap
  BY StopStatusType DEF Typed
<1>6. os \in StateMap
  BY StopStateType DEF Typed
<1>7. rs \in RunMap
  <2>1. AbortedRuns(T, runs, "stopped") \in RunMap
    BY AbortedRunsType DEF Typed, Reasons
  <2>2. NoRun \in Run
    BY DEF NoRun, Run, Phases, Reasons
  <2> HIDE DEF T
  <2> QED BY <2>1, <2>2 DEF RunMap
<1> HIDE DEF mine, restarts, stops, tr, T, st, os, rs
<1>8. /\ operationStatus' \in StatusMap /\ opState' \in StateMap /\ runs' \in RunMap
      /\ abortControllerMap' \in SlotMap /\ tracked' \in SlotMap /\ leaked' \subseteq Ops
  BY <1>1, <1>3, <1>4, <1>5, <1>6, <1>7, LaunchType DEF Typed
<1>9. lockedOperations' \in [Ops -> {"none", "RESTARTING", "STOPPING"}]
  <2>1. Locked(T, tr, lockedOperations, "STOPPING") \in [Ops -> {"none", "RESTARTING", "STOPPING"}]
    BY LockedType DEF Typed
  <2> QED BY <1>2, <2>1
<1>10. finaliser' \in SlotMap
  <2>1. Finalisers(T, tr, finaliser) \in SlotMap
    BY <1>4, FinalisersType DEF Typed
  <2> QED BY <1>2, <2>1 DEF SlotMap
<1>11. rejected' \in BOOLEAN
  BY <1>2 DEF Typed
<1>12. holds' \subseteq Ops /\ awaited' \subseteq Ops \X (Slots \cup {NoSlot})
  BY <1>2 DEF Typed
<1>13. UNCHANGED <<pc, currentGroup, flowStatus, abortReason, stopLock, runtime>>
  BY <1>2 DEF flowVars, stopVars
<1> QED
  BY <1>8, <1>9, <1>10, <1>11, <1>12, <1>13 DEF Typed

\* Podman under the operations.
LEMMA TypedRuntimeReady ==
    ASSUME Typed, NEW o \in Ops, NEW k \in Slots, RuntimeReady(o, k)
    PROVE  Typed'
<1>1. runs' \in RunMap
  BY MoveRunType DEF RuntimeReady, Typed, Phases
<1>2. operationStatus' \in StatusMap /\ opState' \in StateMap
  <2>1. "running" \in Progress /\ OpState("running", FALSE) \in OpStates
    BY OpStateType DEF Progress, OpStatuses
  <2> QED BY <2>1, ReportsType DEF RuntimeReady
<1> QED
  BY <1>1, <1>2 DEF RuntimeReady, Typed, flowVars, stopVars, lockVars, groupVars

LEMMA TypedRuntimeStale ==
    ASSUME Typed, NEW o \in Ops, NEW k \in Slots, RuntimeStale(o, k)
    PROVE  Typed'
<1> DEFINE held    == [MoveRun(o, k, "ready") EXCEPT ![o][k].retried = TRUE]
           retries == [MoveRun(o, k, "creating") EXCEPT ![o][k].retried = TRUE]
<1>1. held \in RunMap /\ retries \in RunMap
  <2>1. MoveRun(o, k, "ready") \in RunMap /\ MoveRun(o, k, "creating") \in RunMap
    BY MoveRunType DEF Typed, Phases
  <2> QED BY <2>1, SetRunType
<1>2. CASE /\ runs' = held
           /\ UNCHANGED <<flowVars, stopVars, operationStatus, opState, abortControllerMap,
                          tracked, leaked, lockVars, groupVars, runtime>>
  BY <1>1, <1>2 DEF Typed, flowVars, stopVars, lockVars, groupVars
<1>3. CASE /\ runs' = retries
           /\ Reports(o, k, "running", OpState("running", FALSE))
           /\ UNCHANGED <<flowVars, stopVars, abortControllerMap, tracked, leaked, lockVars,
                          groupVars, runtime>>
  <2>1. "running" \in Progress /\ OpState("running", FALSE) \in OpStates
    BY OpStateType DEF Progress, OpStatuses
  <2>2. operationStatus' \in StatusMap /\ opState' \in StateMap
    BY <1>3, <2>1, ReportsType
  <2> QED BY <1>1, <1>3, <2>2 DEF Typed, flowVars, stopVars, lockVars, groupVars
<1>4. CASE \E T \in SUBSET Ops : runtime' = "recreating" /\ Restart(T, held)
  <2> HIDE DEF held
  <2> QED BY <1>1, <1>4, TypedRestart
<1> QED BY <1>2, <1>3, <1>4 DEF RuntimeStale

LEMMA TypedRecreateEnds == ASSUME Typed, RecreateEnds PROVE Typed'
BY DEF RecreateEnds, Typed, flowVars, stopVars, opVars, lockVars, groupVars

LEMMA TypedNext == Typed /\ [Next]_vars => Typed'
<1> SUFFICES ASSUME Typed, [Next]_vars PROVE Typed'
  OBVIOUS
<1>1. CASE Start \/ AwaitAgain \/ GroupEnd \/ FailFlow \/ CleanUp
  BY <1>1, TypedStart, TypedAwaitAgain, TypedGroupEnd, TypedFailFlow, TypedCleanUp
<1>2. CASE Request \/ StopReturns
  BY <1>2, TypedStopOperation, TypedStopGroup, TypedRestartOperation, TypedRestartGroup,
     TypedJobStop, TypedStopReturns DEF Request
<1>3. ASSUME NEW o \in Ops, NEW k \in Slots, RunStep(o, k)
      PROVE  Typed'
  <2>1. CASE Fail(o, k) \/ LoseExit(o, k)
    BY <2>1, TypedEndInError DEF Fail, LoseExit
  <2>2. CASE ~(Fail(o, k) \/ LoseExit(o, k))
    BY <1>3, <2>2, TypedContainerStarted, TypedStartupSuccess, TypedExit, TypedVolumeDone,
       TypedTimeout, TypedTeardownDone, TypedSettle DEF RunStep
  <2> QED BY <2>1, <2>2
<1>4. ASSUME NEW o \in Ops, NEW k \in Slots, RuntimeStep(o, k)
      PROVE  Typed'
  <2>1. CASE RetryFails(o, k)
    BY <2>1, TypedEndInError DEF RetryFails
  <2>2. CASE RuntimeFails(o, k)
    BY <2>2, TypedThrows DEF RuntimeFails
  <2> QED BY <1>4, <2>1, <2>2, TypedRuntimeReady, TypedRuntimeStale DEF RuntimeStep
<1>5. CASE RecreateEnds
  BY <1>5, TypedRecreateEnds
<1>6. CASE UNCHANGED vars
  BY <1>6 DEF vars, flowVars, stopVars, opVars, lockVars, groupVars, Typed
<1> QED BY <1>1, <1>2, <1>3, <1>4, <1>5, <1>6 DEF Next

\* Every reachable state of every job is well typed: no status is left undefined by
\* a reason getStatus() does not know, and no promise the loop awaits is unknown.
THEOREM TypeCorrect == Spec => []TypeOK
<1>1. Typed /\ [Next]_vars => Typed'
  BY TypedNext
<1>2. Spec => []Typed
  BY <1>1, TypedInit, PTL DEF Spec
<1> QED BY <1>2, TypedIsTypeOK, PTL

-------------------------------------------------------------------------------
(* AbortReachesEveryRun                                                       *)

\* Every working run of rs has been told to end.
Told(rs) ==
    \A o \in Ops, k \in Slots : rs[o][k].phase \in Working => rs[o][k].abort # "none"

LEMMA LaunchTold ==
    ASSUME abortReason # "none", NEW L, NEW bad, NEW notifies, NEW st, NEW os,
           NEW rs \in RunMap, NEW ctl, NEW tr, Told(rs),
           Launch(L, bad, notifies, st, os, rs, ctl, tr)
    PROVE  Told(runs')
<1>1. ASSUME NEW o \in Ops, NEW k \in Slots
      PROVE  LaunchedRuns(L, bad, rs, notifies)[o][k].phase \in Working
                => LaunchedRuns(L, bad, rs, notifies)[o][k].abort # "none"
  <2>1. NewRun(LaunchPhase(o, bad), notifies).phase = "resolved"
    BY DEF LaunchPhase, NewRun, NoRun
  <2>2. /\ [rs[o][k] EXCEPT !.muted = rs[o][k].phase # "free"].phase = rs[o][k].phase
        /\ [rs[o][k] EXCEPT !.muted = rs[o][k].phase # "free"].abort = rs[o][k].abort
    BY DEF RunMap, Run
  <2> QED BY <2>1, <2>2 DEF LaunchedRuns, Told, Working
<1> QED BY <1>1 DEF Launch, Told

LEMMA AbortedTold ==
    ASSUME NEW T, NEW rs \in RunMap, NEW reason, Told(rs)
    PROVE  Told(AbortedRuns(T, rs, reason))
BY DEF AbortedRuns, AbortRun, Told, RunMap, Run

\* A run may only be moved to a working phase from one.
LEMMA MoveTold ==
    ASSUME runs \in RunMap, Told(runs), NEW o \in Ops, NEW k \in Slots, NEW phase,
           phase \in Working => runs[o][k].phase \in Working
    PROVE  Told(MoveRun(o, k, phase))
BY DEF MoveRun, Told, RunMap, Run

LEMMA SetRunTold ==
    ASSUME NEW rs \in RunMap, Told(rs), NEW o \in Ops, NEW k \in Slots, NEW b
    PROVE  /\ Told([rs EXCEPT ![o][k].armed = b])
           /\ Told([rs EXCEPT ![o][k].retried = b])
BY DEF Told, RunMap, Run

LEMMA AdvanceTold ==
    ASSUME abortReason # "none", Typed, Told(runs), NEW st, Advance(st)
    PROVE  Told(runs')
<1>1. CASE FinishFlow(st)
  BY <1>1 DEF FinishFlow
<1>2. ASSUME NEW h, NEW bad, EnterGroup(h, st, bad)
      PROVE  Told(runs')
  BY <1>2, LaunchTold DEF EnterGroup, Typed
<1> QED BY <1>1, <1>2 DEF Advance

LEMMA RestartTold ==
    ASSUME abortReason # "none", NEW T, NEW rs \in RunMap, Told(rs), Restart(T, rs)
    PROVE  Told(runs')
<1> DEFINE aborted == AbortedRuns(T, rs, "restart")
<1>1. Told(aborted)
  BY AbortedTold
<1>2. aborted \in RunMap
  BY AbortedRunsType DEF Reasons
<1>3. PICK L, bad, st : Launch(L, bad, FALSE, st, opState, aborted, abortControllerMap, tracked)
  BY DEF Restart
<1> HIDE DEF aborted
<1> QED BY <1>1, <1>2, <1>3, LaunchTold

LEMMA EndInErrorTold ==
    ASSUME Typed, Told(runs), NEW o \in Ops, NEW k \in Slots, NEW reason,
           EndInError(o, k, reason)
    PROVE  Told(runs')
<1> DEFINE phase == IF o \in Volumes THEN "resolved" ELSE "teardown"
<1>1. Told(MoveRun(o, k, phase)) /\ MoveRun(o, k, phase) \in RunMap
  BY MoveTold, MoveRunType DEF Typed, Working, Phases
<1>2. CASE runs' = [MoveRun(o, k, phase) EXCEPT ![o][k].armed = FALSE]
  <2> HIDE DEF phase
  <2> QED BY <1>1, <1>2, SetRunTold
<1>3. CASE Throws(o, k)
  BY <1>3, MoveTold DEF Throws, Typed, Working
<1> QED BY <1>2, <1>3 DEF EndInError

LEMMA SettleTold ==
    ASSUME abortReason # "none", Typed, Told(runs), NEW o \in Ops, NEW k \in Slots, Settle(o, k)
    PROVE  Told(runs')
<1> DEFINE T  == StoppedServers(o)
           rs == [AbortedRuns(T, runs, "stopped") EXCEPT ![o][k] = NoRun]
<1>1. PICK L, bad, st, os, tr : Launch(L, bad, FALSE, st, os, rs, abortControllerMap, tr)
  BY DEF Settle
<1>2. Told(AbortedRuns(T, runs, "stopped")) /\ AbortedRuns(T, runs, "stopped") \in RunMap
  BY AbortedTold, AbortedRunsType DEF Typed, Reasons
<1> HIDE DEF T
<1>3. Told(rs)
  BY <1>2 DEF Told, RunMap, NoRun, Working
<1>4. rs \in RunMap
  BY <1>2 DEF RunMap, NoRun, Run, Phases, Reasons
<1> HIDE DEF rs
<1> QED BY <1>1, <1>3, <1>4, LaunchTold

\* A run that is stale was not aborted: if the job is, the invariant refutes it.
LEMMA RuntimeStaleTold ==
    ASSUME Told(runs), NEW o \in Ops, NEW k \in Slots, RuntimeStale(o, k)
    PROVE  FALSE
BY DEF RuntimeStale, InPhase, Told, Working

LEMMA JobStopTold ==
    ASSUME Typed, NEW reason \in JobStops, JobStop(reason)
    PROVE  Told(runs')
<1>1. reason # "none"
  BY KindAssumption
<1>2. ASSUME NEW run \in Run, AbortRun(run, reason).phase \in Working
      PROVE  AbortRun(run, reason).abort # "none"
  BY <1>1, <1>2 DEF AbortRun, Run
<1> QED BY <1>2 DEF JobStop, Told, Typed, RunMap

LEMMA RunStepTold ==
    ASSUME abortReason # "none", Typed, Told(runs), NEW o \in Ops, NEW k \in Slots,
           RunStep(o, k)
    PROVE  Told(runs')
<1>1. ASSUME NEW phase \in Phases, phase \in Working => runs[o][k].phase \in Working
      PROVE  Told(MoveRun(o, k, phase)) /\ MoveRun(o, k, phase) \in RunMap
  BY <1>1, MoveTold, MoveRunType DEF Typed
<1>2. CASE ContainerStarted(o, k)
  <2>1. Told(MoveRun(o, k, "started")) /\ MoveRun(o, k, "started") \in RunMap
    BY <1>1, <1>2 DEF ContainerStarted, InPhase, Working, Phases
  <2> QED BY <1>2, <2>1, SetRunTold DEF ContainerStarted
<1>3. CASE StartupSuccess(o, k)
  <2>1. Told(MoveRun(o, k, "up")) /\ MoveRun(o, k, "up") \in RunMap
    BY <1>1, <1>3 DEF StartupSuccess, InPhase, Working, Phases
  <2> QED BY <1>3, <2>1, LaunchTold DEF StartupSuccess
<1>4. CASE \E status \in {"success", "failed"} : Exit(o, k, status)
  <2>1. Told(MoveRun(o, k, "teardown")) /\ MoveRun(o, k, "teardown") \in RunMap
    BY <1>1 DEF Working, Phases
  <2>2. runs' = [MoveRun(o, k, "teardown") EXCEPT ![o][k].armed = FALSE]
    BY <1>4 DEF Exit
  <2> QED BY <2>1, <2>2, SetRunTold
<1>5. CASE Fail(o, k) \/ LoseExit(o, k)
  BY <1>5, EndInErrorTold DEF Fail, LoseExit
<1>6. CASE VolumeDone(o, k)
  <2>1. Told(MoveRun(o, k, "resolved")) /\ MoveRun(o, k, "resolved") \in RunMap
    BY <1>1 DEF Working, Phases
  <2> QED BY <1>6, <2>1, LaunchTold DEF VolumeDone
<1>7. CASE Timeout(o, k)
  BY <1>7 DEF Timeout, AbortRun, Told, Typed, RunMap, Run
<1>8. CASE TeardownDone(o, k)
  <2>1. Told(MoveRun(o, k, "resolved")) /\ Told(MoveRun(o, k, "rejected"))
    BY <1>1 DEF Working, Phases
  <2>2. runs' = MoveRun(o, k, "resolved") \/ runs' = MoveRun(o, k, "rejected")
    BY <1>8 DEF TeardownDone
  <2> QED BY <2>1, <2>2
<1>9. CASE Settle(o, k)
  BY <1>9, SettleTold
<1> QED
  BY <1>2, <1>3, <1>4, <1>5, <1>6, <1>7, <1>8, <1>9 DEF RunStep

LEMMA RuntimeStepTold ==
    ASSUME Typed, Told(runs), NEW o \in Ops, NEW k \in Slots, RuntimeStep(o, k)
    PROVE  Told(runs')
<1>1. CASE RuntimeReady(o, k)
  BY <1>1, MoveTold DEF RuntimeReady, Resumes, Typed, Working
<1>2. CASE RetryFails(o, k)
  BY <1>2, EndInErrorTold DEF RetryFails
<1>3. CASE RuntimeFails(o, k)
  BY <1>3, MoveTold DEF RuntimeFails, Throws, Typed, Working
<1>4. CASE RuntimeStale(o, k)
  BY <1>4, RuntimeStaleTold
<1> QED BY <1>1, <1>2, <1>3, <1>4 DEF RuntimeStep

LEMMA ToldNext ==
    Typed /\ AbortReachesEveryRun /\ [Next]_vars => AbortReachesEveryRun'
<1> SUFFICES ASSUME Typed, AbortReachesEveryRun, [Next]_vars, abortReason' # "none"
             PROVE  Told(runs')
  BY DEF AbortReachesEveryRun, Told
<1>1. CASE \E reason \in JobStops : JobStop(reason)
  BY <1>1, JobStopTold
<1>2. CASE ~\E reason \in JobStops : JobStop(reason)
  <2>1. abortReason' = abortReason
    <3>1. CASE Start \/ AwaitAgain \/ GroupEnd \/ FailFlow \/ CleanUp
      BY <3>1 DEF Start, AwaitAgain, GroupEnd, FailFlow, CleanUp, stopVars
    <3>2. CASE Request \/ StopReturns
      BY <1>2, <3>2 DEF Request, StopReturns, StopOperation, StopGroup, Stop, RestartOperation,
         RestartGroup, Restart, stopVars
    <3>3. ASSUME NEW o, NEW k, NEW reason, EndInError(o, k, reason)
          PROVE  abortReason' = abortReason
      BY <3>3 DEF EndInError, Throws, stopVars
    <3>4. ASSUME NEW o \in Ops, NEW k \in Slots, RunStep(o, k)
          PROVE  abortReason' = abortReason
      <4>1. CASE Fail(o, k) \/ LoseExit(o, k)
        BY <3>3, <4>1 DEF Fail, LoseExit
      <4>2. CASE ~(Fail(o, k) \/ LoseExit(o, k))
        BY <3>4, <4>2 DEF RunStep, ContainerStarted, StartupSuccess, Exit, VolumeDone, Timeout,
           TeardownDone, Settle, stopVars
      <4> QED BY <4>1, <4>2
    <3>5. ASSUME NEW o \in Ops, NEW k \in Slots, RuntimeStep(o, k)
          PROVE  abortReason' = abortReason
      <4>1. CASE RetryFails(o, k)
        BY <3>3, <4>1 DEF RetryFails
      <4>2. CASE RuntimeFails(o, k)
        BY <4>2 DEF RuntimeFails, Throws, stopVars
      <4>3. CASE RuntimeReady(o, k)
        BY <4>3 DEF RuntimeReady, stopVars
      <4>4. CASE RuntimeStale(o, k)
        BY <4>4 DEF RuntimeStale, Restart, stopVars
      <4> QED BY <3>5, <4>1, <4>2, <4>3, <4>4 DEF RuntimeStep
    <3>6. CASE RecreateEnds \/ UNCHANGED vars
      BY <3>6 DEF RecreateEnds, vars, stopVars
    <3> QED BY <3>1, <3>2, <3>4, <3>5, <3>6 DEF Next
  <2>2. abortReason # "none" /\ Told(runs)
    BY <2>1 DEF AbortReachesEveryRun, Told
  <2>3. CASE Start \/ GroupEnd
    BY <2>2, <2>3, AdvanceTold DEF Start, GroupEnd
  <2>4. CASE AwaitAgain \/ FailFlow \/ CleanUp \/ StopReturns \/ RecreateEnds \/ UNCHANGED vars
    BY <2>2, <2>4 DEF AwaitAgain, FailFlow, CleanUp, StopReturns, RecreateEnds, vars, opVars
  <2>5. CASE Request
    <3>1. ASSUME NEW T, NEW st, Stop(T, st) PROVE Told(runs')
      BY <2>2, <3>1, AbortedTold DEF Stop, Typed
    <3>2. ASSUME NEW T, Restart(T, runs) PROVE Told(runs')
      BY <2>2, <3>2, RestartTold DEF Typed
    <3> QED
      BY <1>2, <2>5, <3>1, <3>2
      DEF Request, StopOperation, StopGroup, RestartOperation, RestartGroup
  <2>6. CASE \E o \in Ops, k \in Slots : RunStep(o, k) \/ RuntimeStep(o, k)
    BY <2>2, <2>6, RunStepTold, RuntimeStepTold
  <2> QED BY <2>3, <2>4, <2>5, <2>6 DEF Next
<1> QED BY <1>1, <1>2

\* Once the job is stopped no container works on without having been told, for any
\* number of ops and runs and any order of restarts, releases and retries.
THEOREM AbortReachesEveryRunAlways == Spec => []AbortReachesEveryRun
<1>1. Init => Typed /\ AbortReachesEveryRun
  BY TypedInit DEF Init, AbortReachesEveryRun
<1>2. (Typed /\ AbortReachesEveryRun) /\ [Next]_vars => (Typed /\ AbortReachesEveryRun)'
  BY TypedNext, ToldNext
<1> QED BY <1>1, <1>2, PTL DEF Spec

-------------------------------------------------------------------------------
(* StoppedStaysDown                                                           *)

\* No run of o is alive in rs.
Idle(o, rs) == \A k \in Slots : rs[o][k].phase = "free"

LEMMA IdleIsNotLive == \A o : Live(o) = {} <=> Idle(o, runs)
BY DEF Live, Idle

\* Nothing has a status or a run before start() is called.
Unstarted ==
    pc = "bootstrapped" =>
        \A o \in Ops : operationStatus[o] = "init" /\ \A k \in Slots : runs[o][k] = NoRun

\* Without a run none of its steps is enabled.
LEMMA NoRunNoStep ==
    ASSUME NEW o \in Ops, NEW k \in Slots, runs[o][k] = NoRun, RunStep(o, k) \/ RuntimeStep(o, k)
    PROVE  FALSE
<1>1. runs[o][k].phase = "free" /\ ~runs[o][k].armed
  BY DEF NoRun
<1>2. ASSUME RunStep(o, k) PROVE FALSE
  BY <1>1, <1>2 DEF RunStep, ContainerStarted, StartupSuccess, Exit, Fail, LoseExit, VolumeDone,
     Timeout, TeardownDone, Settle, Settled, InPhase
<1>3. ASSUME RuntimeStep(o, k) PROVE FALSE
  BY <1>1, <1>3 DEF RuntimeStep, RuntimeReady, RetryFails, RuntimeFails, RuntimeStale, Resumes,
     InPhase
<1> QED BY <1>2, <1>3

LEMMA UnstartedNext == Unstarted /\ [Next]_vars => Unstarted'
<1> SUFFICES ASSUME Unstarted, [Next]_vars, pc' = "bootstrapped"
             PROVE  Unstarted'
  BY DEF Unstarted
<1>1. CASE Start \/ GroupEnd
  BY <1>1 DEF Start, GroupEnd, Advance, EnterGroup, FinishFlow
<1>2. CASE AwaitAgain \/ FailFlow \/ CleanUp \/ StopReturns \/ RecreateEnds \/ UNCHANGED vars
  BY <1>2 DEF Unstarted, AwaitAgain, FailFlow, CleanUp, StopReturns, RecreateEnds, vars, flowVars,
     opVars
<1>3. CASE Request
  BY <1>3 DEF Request, StopOperation, StopGroup, RestartOperation, RestartGroup, JobStop, Serving,
     Stop, Restart, flowVars
<1>4. CASE \E o \in Ops, k \in Slots : RunStep(o, k) \/ RuntimeStep(o, k)
  <2>1. PICK o \in Ops, k \in Slots : RunStep(o, k) \/ RuntimeStep(o, k)
    BY <1>4
  <2>2. pc # "bootstrapped"
    BY <2>1, NoRunNoStep DEF Unstarted
  <2>3. \A e, j, r : EndInError(e, j, r) => pc' = pc
    BY DEF EndInError, Throws, flowVars
  <2>4. pc' = pc
    <3>1. CASE Fail(o, k) \/ LoseExit(o, k) \/ RetryFails(o, k)
      BY <2>3, <3>1 DEF Fail, LoseExit, RetryFails
    <3>2. CASE RunStep(o, k) /\ ~(Fail(o, k) \/ LoseExit(o, k))
      BY <3>2 DEF RunStep, ContainerStarted, StartupSuccess, Exit, VolumeDone, Timeout,
         TeardownDone, Settle, flowVars
    <3>3. CASE RuntimeReady(o, k) \/ RuntimeFails(o, k)
      BY <3>3 DEF RuntimeReady, RuntimeFails, Throws, flowVars
    <3>4. CASE RuntimeStale(o, k)
      BY <3>4 DEF RuntimeStale, Restart, flowVars
    <3> QED BY <2>1, <3>1, <3>2, <3>3, <3>4 DEF RuntimeStep
  <2> QED BY <2>2, <2>4
<1> QED BY <1>1, <1>2, <1>3, <1>4 DEF Next

\* A launch leaves the runs of the ops it does not launch alone.
LEMMA LaunchIdle ==
    ASSUME NEW L, NEW bad, NEW notifies, NEW st, NEW os, NEW rs \in RunMap, NEW ctl, NEW tr,
           Launch(L, bad, notifies, st, os, rs, ctl, tr),
           NEW o \in Ops, o \notin L, Idle(o, rs)
    PROVE  Idle(o, runs')
BY DEF Launch, LaunchedRuns, Idle, RunMap

LEMMA AbortedIdle ==
    ASSUME NEW T, NEW rs \in RunMap, NEW reason, NEW o \in Ops, Idle(o, rs)
    PROVE  Idle(o, AbortedRuns(T, rs, reason))
BY DEF AbortedRuns, AbortRun, Idle, RunMap, Run, Working

LEMMA MoveIdle ==
    ASSUME runs \in RunMap, NEW o \in Ops, Idle(o, runs),
           NEW p \in Ops, NEW k \in Slots, runs[p][k].phase # "free", NEW phase
    PROVE  Idle(o, MoveRun(p, k, phase))
BY DEF MoveRun, Idle, RunMap, Run

LEMMA SetRunIdle ==
    ASSUME NEW rs \in RunMap, NEW o \in Ops, Idle(o, rs), NEW p \in Ops, NEW k \in Slots, NEW b
    PROVE  /\ Idle(o, [rs EXCEPT ![p][k].armed = b])
           /\ Idle(o, [rs EXCEPT ![p][k].retried = b])
BY DEF Idle, RunMap, Run

LEMMA AdvanceIdle ==
    ASSUME Typed, NEW st, Advance(st), NEW o \in Ops, Idle(o, runs), st[o] # "pending"
    PROVE  Idle(o, runs')
<1>1. CASE FinishFlow(st)
  BY <1>1 DEF FinishFlow
<1>2. ASSUME NEW h, NEW bad, EnterGroup(h, st, bad)
      PROVE  Idle(o, runs')
  <2>1. o \notin Startable(h, st)
    BY DEF Startable
  <2> QED BY <1>2, <2>1, LaunchIdle DEF EnterGroup, Typed
<1> QED BY <1>1, <1>2 DEF Advance

LEMMA EndInErrorIdle ==
    ASSUME Typed, NEW o \in Ops, Idle(o, runs), NEW p \in Ops, NEW k \in Slots,
           runs[p][k].phase # "free", NEW reason, EndInError(p, k, reason)
    PROVE  Idle(o, runs')
<1> DEFINE phase == IF p \in Volumes THEN "resolved" ELSE "teardown"
<1>1. Idle(o, MoveRun(p, k, phase)) /\ MoveRun(p, k, phase) \in RunMap
  BY MoveIdle, MoveRunType DEF Typed, Phases
<1>2. CASE runs' = [MoveRun(p, k, phase) EXCEPT ![p][k].armed = FALSE]
  <2> HIDE DEF phase
  <2> QED BY <1>1, <1>2, SetRunIdle
<1>3. CASE Throws(p, k)
  BY <1>3, MoveIdle DEF Throws, Typed
<1> QED BY <1>2, <1>3 DEF EndInError

LEMMA SettleIdle ==
    ASSUME Typed, NEW o \in Ops, Idle(o, runs), NEW p \in Ops, NEW k \in Slots, Settle(p, k)
    PROVE  Idle(o, runs')
<1> DEFINE T  == StoppedServers(p)
           rs == [AbortedRuns(T, runs, "stopped") EXCEPT ![p][k] = NoRun]
<1>1. o # p
  BY DEF Settle, Settled, Idle
<1>2. PICK L, bad, st, os, tr :
         L \in SUBSET {p} /\ Launch(L, bad, FALSE, st, os, rs, abortControllerMap, tr)
  BY DEF Settle
<1>3. Idle(o, AbortedRuns(T, runs, "stopped")) /\ AbortedRuns(T, runs, "stopped") \in RunMap
  BY AbortedIdle, AbortedRunsType DEF Typed, Reasons
<1> HIDE DEF T
<1>4. Idle(o, rs)
  BY <1>1, <1>3 DEF Idle, RunMap
<1>5. rs \in RunMap
  BY <1>3 DEF RunMap, NoRun, Run, Phases, Reasons
<1> HIDE DEF rs
<1> QED BY <1>1, <1>2, <1>4, <1>5, LaunchIdle

LEMMA RestartIdle ==
    ASSUME NEW T, NEW rs \in RunMap, Restart(T, rs), NEW o \in Ops, o \notin T, Idle(o, rs)
    PROVE  Idle(o, runs')
<1> DEFINE aborted == AbortedRuns(T, rs, "restart")
<1>1. Idle(o, aborted) /\ aborted \in RunMap
  BY AbortedIdle, AbortedRunsType DEF Reasons
<1>2. PICK L, bad, st :
         L \in SUBSET T /\ Launch(L, bad, FALSE, st, opState, aborted, abortControllerMap, tracked)
  BY DEF Restart
<1> HIDE DEF aborted
<1> QED BY <1>1, <1>2, LaunchIdle

LEMMA RunStepIdle ==
    ASSUME Typed, NEW o \in Ops, operationStatus[o] = "stopped", Idle(o, runs),
           NEW p \in Ops, NEW k \in Slots, RunStep(p, k)
    PROVE  Idle(o, runs')
<1>1. ASSUME NEW phase \in Phases, runs[p][k].phase # "free"
      PROVE  Idle(o, MoveRun(p, k, phase)) /\ MoveRun(p, k, phase) \in RunMap
  BY <1>1, MoveIdle, MoveRunType DEF Typed
<1>2. o \notin Released(p, k)
  BY DEF Released
<1>3. CASE ContainerStarted(p, k)
  <2>1. Idle(o, MoveRun(p, k, "started")) /\ MoveRun(p, k, "started") \in RunMap
    BY <1>1, <1>3 DEF ContainerStarted, InPhase, Phases
  <2> QED BY <1>3, <2>1, SetRunIdle DEF ContainerStarted
<1>4. CASE StartupSuccess(p, k)
  <2>1. Idle(o, MoveRun(p, k, "up")) /\ MoveRun(p, k, "up") \in RunMap
    BY <1>1, <1>4 DEF StartupSuccess, InPhase, Phases
  <2> QED BY <1>2, <1>4, <2>1, LaunchIdle DEF StartupSuccess
<1>5. CASE \E status \in {"success", "failed"} : Exit(p, k, status)
  <2>1. Idle(o, MoveRun(p, k, "teardown")) /\ MoveRun(p, k, "teardown") \in RunMap
    BY <1>1, <1>5 DEF Exit, InPhase, Phases
  <2>2. runs' = [MoveRun(p, k, "teardown") EXCEPT ![p][k].armed = FALSE]
    BY <1>5 DEF Exit
  <2> QED BY <2>1, <2>2, SetRunIdle
<1>6. CASE Fail(p, k) \/ LoseExit(p, k)
  BY <1>6, EndInErrorIdle DEF Fail, LoseExit, InPhase
<1>7. CASE VolumeDone(p, k)
  <2>1. Idle(o, MoveRun(p, k, "resolved")) /\ MoveRun(p, k, "resolved") \in RunMap
    BY <1>1, <1>7 DEF VolumeDone, InPhase, Phases
  <2> QED BY <1>2, <1>7, <2>1, LaunchIdle DEF VolumeDone
<1>8. CASE Timeout(p, k)
  BY <1>8 DEF Timeout, AbortRun, Idle, Typed, RunMap, Run, Working
<1>9. CASE TeardownDone(p, k)
  <2>1. Idle(o, MoveRun(p, k, "resolved")) /\ Idle(o, MoveRun(p, k, "rejected"))
    BY <1>1, <1>9 DEF TeardownDone, InPhase, Phases
  <2>2. runs' = MoveRun(p, k, "resolved") \/ runs' = MoveRun(p, k, "rejected")
    BY <1>9 DEF TeardownDone
  <2> QED BY <2>1, <2>2
<1>10. CASE Settle(p, k)
  BY <1>10, SettleIdle
<1> QED
  BY <1>3, <1>4, <1>5, <1>6, <1>7, <1>8, <1>9, <1>10 DEF RunStep

LEMMA RuntimeStepIdle ==
    ASSUME Typed, NEW o \in Ops, operationStatus[o] = "stopped", Idle(o, runs),
           NEW p \in Ops, NEW k \in Slots, RuntimeStep(p, k)
    PROVE  Idle(o, runs')
<1>1. runs[p][k].phase # "free"
  BY DEF RuntimeStep, RuntimeReady, RetryFails, RuntimeFails, RuntimeStale, Resumes, InPhase
<1>2. CASE RuntimeReady(p, k)
  BY <1>1, <1>2, MoveIdle DEF RuntimeReady, Typed
<1>3. CASE RetryFails(p, k)
  BY <1>1, <1>3, EndInErrorIdle DEF RetryFails
<1>4. CASE RuntimeFails(p, k)
  BY <1>1, <1>4, MoveIdle DEF RuntimeFails, Throws, Typed
<1>5. CASE RuntimeStale(p, k)
  <2> DEFINE held    == [MoveRun(p, k, "ready") EXCEPT ![p][k].retried = TRUE]
             retries == [MoveRun(p, k, "creating") EXCEPT ![p][k].retried = TRUE]
             T       == {q \in Ops : /\ GroupOf[q] = currentGroup
                                     /\ operationStatus[q] = "running"
                                     /\ lockedOperations[q] = "none"}
  <2>1. MoveRun(p, k, "ready") \in RunMap /\ MoveRun(p, k, "creating") \in RunMap
    BY MoveRunType DEF Typed, Phases
  <2>2. Idle(o, MoveRun(p, k, "ready")) /\ Idle(o, MoveRun(p, k, "creating"))
    BY <1>1, MoveIdle DEF Typed
  <2>3. held \in RunMap /\ Idle(o, held) /\ Idle(o, retries)
    BY <2>1, <2>2, SetRunType, SetRunIdle
  <2>4. runs' = held \/ runs' = retries \/ Restart(T, held)
    BY <1>5 DEF RuntimeStale
  <2>5. o \notin T
    OBVIOUS
  <2> HIDE DEF held, retries, T
  <2> QED BY <2>3, <2>4, <2>5, RestartIdle
<1> QED BY <1>2, <1>3, <1>4, <1>5 DEF RuntimeStep

LEMMA StaysDown ==
    ASSUME Typed, Unstarted, [Next]_vars, NEW o \in Ops, operationStatus[o] = "stopped",
           Idle(o, runs), ~RestartOperation(o), ~RestartGroup
    PROVE  Idle(o, runs')
<1>1. CASE Start
  BY <1>1 DEF Start, Unstarted
<1>2. CASE GroupEnd
  BY <1>2, AdvanceIdle DEF GroupEnd
<1>3. CASE AwaitAgain \/ FailFlow \/ CleanUp \/ StopReturns \/ RecreateEnds \/ UNCHANGED vars
  BY <1>3 DEF AwaitAgain, FailFlow, CleanUp, StopReturns, RecreateEnds, vars, opVars
<1>4. CASE Request
  <2>1. ASSUME NEW T, NEW st, Stop(T, st) PROVE Idle(o, runs')
    BY <2>1, AbortedIdle DEF Stop, Typed
  <2>2. CASE StopGroup \/ \E p \in Ops : StopOperation(p)
    BY <2>1, <2>2 DEF StopGroup, StopOperation
  <2>3. ASSUME NEW p \in Ops, RestartOperation(p) PROVE Idle(o, runs')
    <3>1. o \notin {p}
      BY <2>3
    <3> QED BY <2>3, <3>1, RestartIdle DEF RestartOperation, Typed
  <2>4. CASE \E reason \in JobStops : JobStop(reason)
    BY <2>4 DEF JobStop, AbortRun, Idle, Working
  <2> QED BY <1>4, <2>2, <2>3, <2>4 DEF Request
<1>5. CASE \E p \in Ops, k \in Slots : RunStep(p, k) \/ RuntimeStep(p, k)
  BY <1>5, RunStepIdle, RuntimeStepIdle
<1> QED BY <1>1, <1>2, <1>3, <1>4, <1>5 DEF Next

\* A stopped op gets another run from a restart request only, in every job: not
\* from the loop, a dependency that reports itself up, or podman being recreated.
THEOREM StoppedStaysDownAlways == Spec => StoppedStaysDown
<1>1. Init => Typed /\ Unstarted
  BY TypedInit DEF Init, Unstarted
<1>2. (Typed /\ Unstarted) /\ [Next]_vars => (Typed /\ Unstarted)'
  BY TypedNext, UnstartedNext
<1>3. (Typed /\ Unstarted) /\ [Next]_vars
        => [\A o \in Ops : operationStatus[o] = "stopped" /\ Live(o) = {} /\ Live(o)' # {}
                              => RestartOperation(o) \/ RestartGroup]_vars
  <2> SUFFICES ASSUME Typed, Unstarted, [Next]_vars, NEW o \in Ops,
                      operationStatus[o] = "stopped", Live(o) = {},
                      ~RestartOperation(o), ~RestartGroup
               PROVE  Live(o)' = {}
    OBVIOUS
  <2>1. Idle(o, runs')
    BY StaysDown, IdleIsNotLive
  <2> QED BY <2>1 DEF Live, Idle
<1> QED BY <1>1, <1>2, <1>3, PTL DEF Spec, StoppedStaysDown

-------------------------------------------------------------------------------
(* The runs start() awaits, on a node whose containers can be removed and     *)
(* whose podman comes back.                                                   *)

\* An op with one of these statuses has not been launched, or its run is held by podman.
Unqueued == {"init", "pending", "waiting"}

\* A run with one of these phases may still report that it is up.
Early == {"ready", "creating", "started"}

\* On a node whose podman is recreated, no op is released twice: a held op keeps its status,
\* so a second report, or a second dependency, would launch it again.
ReleasedOnce ==
    GpuRuntime => \A o \in Ops : /\ Dependencies[o] \cap Probed = {}
                                 /\ \A d, e \in Dependencies[o] : d = e

\* The run of an op is the one that is tracked.
OneTracked(rs, tr) == \A o \in Ops, k \in Slots : rs[o][k].phase # "free" => tr[o] = k

\* No run is on its way to reject, only podman holds one, and the events of all are heard.
CalmRun(run) ==
    run.phase \notin {"failing", "rejected"} /\ ~run.muted /\ (run.phase = "ready" => GpuRuntime)

RunsCalm(rs) == \A o \in Ops, k \in Slots : CalmRun(rs[o][k])

\* No run is going to release o any more.
Spent(o, st, rs) ==
    \A d \in Dependencies[o] :
        /\ st[d] \notin Unqueued
        /\ \A k \in Slots : rs[d][k].notifies => rs[d][k].phase \notin Early

\* What waits to be launched has no run, or one that podman holds and that is the last, and
\* nothing waits after a stop().
Queued(st, os, rs, abort) ==
    \A o \in Ops : st[o] \in Unqueued =>
        /\ abort = "none" /\ ~os[o].started
        /\ \A k \in Slots : rs[o][k].phase \in {"free", "ready"}
        /\ Idle(o, rs) \/ Spent(o, st, rs)

\* A failure is recorded when its run ends, or by stop().
Recorded(os, abort) ==
    \A o \in Ops : os[o].status = "failed" => os[o].ended /\ (os[o].started \/ abort # "none")

OpsInOrder ==
    /\ OneTracked(runs, tracked) /\ RunsCalm(runs)
    /\ Queued(operationStatus, opState, runs, abortReason)
    /\ Recorded(opState, abortReason)

FlowInOrder ==
    /\ runtime # "failed" /\ (runtime = "recreating" => GpuRuntime)
    /\ ~rejected /\ pc # "rejected"
    /\ pc = "bootstrapped" => abortReason = "none"
    /\ currentGroup # 0 => pc = "group"
    /\ pc = "group" => flowStatus = "running"
    /\ pc # "group" => \A o \in Ops : Idle(o, runs)

InOrder == OpsInOrder /\ FlowInOrder

-------------------------------------------------------------------------------
(* What the helpers keep.                                                     *)

\* rs is what is left of the runs when run k of o has gone on.
Moved(o, k, rs) ==
    /\ rs \in RunMap
    /\ \A p \in Ops, j \in Slots : p # o \/ j # k => rs[p][j] = runs[p][j]
    /\ runs[o][k].phase # "free"
    /\ CalmRun(rs[o][k])
    /\ rs[o][k].notifies = runs[o][k].notifies
    /\ rs[o][k].phase \in Early => runs[o][k].phase \in Early

LEMMA MoveIsMoved ==
    ASSUME runs \in RunMap, RunsCalm(runs), NEW o \in Ops, NEW k \in Slots,
           runs[o][k].phase # "free",
           NEW phase \in Phases \ {"failing", "rejected"}, phase = "ready" => GpuRuntime,
           phase \in Early => runs[o][k].phase \in Early
    PROVE  Moved(o, k, MoveRun(o, k, phase))
<1>1. MoveRun(o, k, phase)[o][k] = [runs[o][k] EXCEPT !.phase = phase]
  BY DEF MoveRun, RunMap
<1>2. CalmRun(MoveRun(o, k, phase)[o][k])
  BY <1>1 DEF RunsCalm, CalmRun, RunMap, Run
<1>3. MoveRun(o, k, phase)[o][k].phase = phase
      /\ MoveRun(o, k, phase)[o][k].notifies = runs[o][k].notifies
  BY <1>1 DEF RunMap, Run
<1>4. MoveRun(o, k, phase) \in RunMap
  BY MoveRunType
<1> QED BY <1>2, <1>3, <1>4 DEF Moved, MoveRun, RunMap

LEMMA SetIsMoved ==
    ASSUME NEW rs, NEW o \in Ops, NEW k \in Slots, Moved(o, k, rs), NEW b \in BOOLEAN
    PROVE  /\ Moved(o, k, [rs EXCEPT ![o][k].armed = b])
           /\ Moved(o, k, [rs EXCEPT ![o][k].retried = b])
<1>1. /\ [rs EXCEPT ![o][k].armed = b][o][k] = [rs[o][k] EXCEPT !.armed = b]
      /\ [rs EXCEPT ![o][k].retried = b][o][k] = [rs[o][k] EXCEPT !.retried = b]
  BY DEF Moved, RunMap
<1>2. rs[o][k] \in Run
  BY DEF Moved, RunMap
<1>3. \A x \in {[rs[o][k] EXCEPT !.armed = b], [rs[o][k] EXCEPT !.retried = b]} :
         x \in Run /\ x.phase = rs[o][k].phase /\ x.notifies = rs[o][k].notifies
         /\ x.muted = rs[o][k].muted
  BY <1>2 DEF Run
<1>4. /\ [rs EXCEPT ![o][k].armed = b] \in RunMap
      /\ [rs EXCEPT ![o][k].retried = b] \in RunMap
  BY <1>1, <1>3 DEF Moved, RunMap
<1>5. \A p \in Ops, j \in Slots : p # o \/ j # k =>
         /\ [rs EXCEPT ![o][k].armed = b][p][j] = rs[p][j]
         /\ [rs EXCEPT ![o][k].retried = b][p][j] = rs[p][j]
  BY DEF Moved, RunMap
<1> QED BY <1>1, <1>3, <1>4, <1>5 DEF Moved, CalmRun

\* What was idle stays idle, and o is the only op whose phases change.
LEMMA MovedKeeps ==
    ASSUME NEW tr, OneTracked(runs, tr), RunsCalm(runs),
           NEW o \in Ops, NEW k \in Slots, NEW rs, Moved(o, k, rs)
    PROVE  /\ rs \in RunMap /\ OneTracked(rs, tr) /\ RunsCalm(rs)
           /\ \A p \in Ops : Idle(p, runs) => Idle(p, rs)
<1>1. \A p \in Ops, j \in Slots : rs[p][j].phase # "free" => runs[p][j].phase # "free"
  BY DEF Moved
<1> QED BY <1>1 DEF Moved, OneTracked, RunsCalm, Idle

\* What is queued stays so while ops leave the queue, and no run starts to release again.
LEMMA QueuedKept ==
    ASSUME NEW st, NEW os, NEW rs, NEW st2, NEW os2, NEW rs2,
           Queued(st, os, rs, abortReason),
           \A p \in Ops : st2[p] \in Unqueued =>
              /\ st[p] \in Unqueued /\ os2[p].started = os[p].started
              /\ \A j \in Slots : rs2[p][j].phase = rs[p][j].phase,
           \A p \in Ops, j \in Slots : rs2[p][j].notifies /\ rs2[p][j].phase \in Early
                                          => rs[p][j].notifies /\ rs[p][j].phase \in Early
    PROVE  Queued(st2, os2, rs2, abortReason)
<1> SUFFICES ASSUME NEW o \in Ops, st2[o] \in Unqueued
             PROVE  /\ abortReason = "none" /\ ~os2[o].started
                    /\ \A j \in Slots : rs2[o][j].phase \in {"free", "ready"}
                    /\ Idle(o, rs2) \/ Spent(o, st2, rs2)
  BY DEF Queued
<1>1. /\ abortReason = "none" /\ ~os[o].started
      /\ \A j \in Slots : rs[o][j].phase \in {"free", "ready"}
      /\ Idle(o, rs) \/ Spent(o, st, rs)
  BY DEF Queued
<1>2. Idle(o, rs) => Idle(o, rs2)
  BY DEF Idle
<1>3. Spent(o, st, rs) => Spent(o, st2, rs2)
  BY PlanAssumption DEF Spent
<1> QED BY <1>1, <1>2, <1>3

LEMMA MovedQueued ==
    ASSUME Queued(operationStatus, opState, runs, abortReason),
           NEW o \in Ops, NEW k \in Slots, NEW rs, Moved(o, k, rs), NEW st, NEW os,
           st[o] \notin Unqueued,
           \A p \in Ops \ {o} : st[p] = operationStatus[p] /\ os[p] = opState[p]
    PROVE  Queued(st, os, rs, abortReason)
<1>1. ASSUME NEW p \in Ops, st[p] \in Unqueued
      PROVE  /\ p # o /\ operationStatus[p] \in Unqueued /\ os[p].started = opState[p].started
             /\ \A j \in Slots : rs[p][j].phase = runs[p][j].phase
  BY <1>1 DEF Moved
<1>2. \A p \in Ops, j \in Slots : rs[p][j].notifies /\ rs[p][j].phase \in Early
                                    => runs[p][j].notifies /\ runs[p][j].phase \in Early
  BY DEF Moved
<1> QED BY <1>1, <1>2, QueuedKept

\* A run that podman has let go on is that of an op that does not wait.
LEMMA QueuedIsHeld ==
    ASSUME Queued(operationStatus, opState, runs, abortReason), NEW o \in Ops, NEW k \in Slots,
           runs[o][k].phase \notin {"free", "ready"}
    PROVE  operationStatus[o] \notin Unqueued
BY DEF Queued

LEMMA AbortRunKeeps ==
    ASSUME NEW run \in Run, NEW reason
    PROVE  AbortRun(run, reason).phase = run.phase /\ AbortRun(run, reason).muted = run.muted
           /\ AbortRun(run, reason).notifies = run.notifies
BY DEF AbortRun, Run

\* An abort changes nothing of the order of the runs.
LEMMA AbortedPhases ==
    ASSUME NEW rs \in RunMap, NEW T, NEW reason, NEW o \in Ops, NEW k \in Slots
    PROVE  /\ AbortedRuns(T, rs, reason)[o][k].phase = rs[o][k].phase
           /\ AbortedRuns(T, rs, reason)[o][k].muted = rs[o][k].muted
           /\ AbortedRuns(T, rs, reason)[o][k].notifies = rs[o][k].notifies
BY AbortRunKeeps DEF AbortedRuns, RunMap

LEMMA AbortedKeeps ==
    ASSUME NEW rs \in RunMap, NEW tr, OneTracked(rs, tr), RunsCalm(rs), NEW T, NEW reason
    PROVE  OneTracked(AbortedRuns(T, rs, reason), tr) /\ RunsCalm(AbortedRuns(T, rs, reason))
BY AbortedPhases DEF OneTracked, RunsCalm, CalmRun

LEMMA AbortedQueued ==
    ASSUME NEW st, NEW os, NEW rs \in RunMap, Queued(st, os, rs, abortReason), NEW T, NEW reason
    PROVE  Queued(st, os, AbortedRuns(T, rs, reason), abortReason)
BY AbortedPhases, QueuedKept

LEMMA UntrackedIsIdle ==
    ASSUME NEW rs, NEW tr, OneTracked(rs, tr), NEW o \in Ops, tr[o] = NoSlot
    PROVE  Idle(o, rs)
BY PlanAssumption DEF OneTracked, Idle, Slots, NoSlot

LEMMA StopStateKeeps ==
    ASSUME NEW T, NEW tr, NEW os \in StateMap, NEW o \in Ops
    PROVE  /\ StopState(T, tr, os)[o].started = os[o].started
           /\ StopState(T, tr, os)[o].status = "failed" => StopState(T, tr, os)[o] = os[o]
           /\ os[o].status = "failed" /\ os[o].ended => StopState(T, tr, os)[o] = os[o]
BY DEF StopState, EndedAsStopped, StateMap, OpStates

\* Ops without a run are launched: each gets one, which is tracked, and no longer waits, or is
\* held and waits for nothing but podman.
LEMMA LaunchKeeps ==
    ASSUME runtime = "recreating" => GpuRuntime, abortReason' = abortReason,
           NEW L \in SUBSET Ops, NEW bad, NEW notifies \in BOOLEAN, NEW st \in StatusMap,
           NEW os \in StateMap, NEW rs \in RunMap, NEW ctl, NEW tr \in SlotMap,
           Launch(L, bad, notifies, st, os, rs, ctl, tr),
           OneTracked(rs, tr), RunsCalm(rs), Recorded(os, abortReason),
           Queued(st, os, rs, abortReason),
           \A o \in L : Idle(o, rs),
           runtime = "recreating" => \A o \in L : st[o] \in Unqueued => Spent(o, st, rs),
           notifies => \/ \A o \in L : st[o] \in Unqueued
                       \/ (\A o \in Ops : Idle(o, rs)) /\ \A o \in L : st[o] \notin Unqueued
    PROVE  OpsInOrder'
<1>1. \A o \in Ops : /\ LaunchPhase(o, bad) \in {"resolved", "ready", "creating"}
                     /\ LaunchPhase(o, bad) = "ready" => runtime = "recreating"
  BY DEF LaunchPhase
<1>2. ASSUME NEW o \in Ops, NEW k \in Slots
      PROVE  /\ o \notin L => runs'[o][k] = rs[o][k]
             /\ o \in L => /\ tracked'[o] = FreeSlot(o, rs)
                           /\ runs'[o][k].phase # "free" => k = FreeSlot(o, rs)
                           /\ runs'[o][k].phase \in {"free", LaunchPhase(o, bad)}
                           /\ CalmRun(runs'[o][k])
                           /\ runs'[o][k].phase # "free" => runs'[o][k].notifies = notifies
             /\ o \notin L => tracked'[o] = tr[o]
  <2>1. runs'[o][k] = IF o \notin L THEN rs[o][k]
                      ELSE IF k = FreeSlot(o, rs) THEN NewRun(LaunchPhase(o, bad), notifies)
                      ELSE [rs[o][k] EXCEPT !.muted = rs[o][k].phase # "free"]
    BY DEF Launch, LaunchedRuns
  <2>2. /\ NewRun(LaunchPhase(o, bad), notifies).phase = LaunchPhase(o, bad)
        /\ NewRun(LaunchPhase(o, bad), notifies).muted = FALSE
        /\ NewRun(LaunchPhase(o, bad), notifies).notifies = notifies
    BY DEF NewRun, NoRun
  <2>3. o \in L => rs[o][k].phase = "free"
    BY DEF Idle
  <2>4. /\ [rs[o][k] EXCEPT !.muted = rs[o][k].phase # "free"].phase = rs[o][k].phase
        /\ [rs[o][k] EXCEPT !.muted = rs[o][k].phase # "free"].muted = (rs[o][k].phase # "free")
    BY DEF RunMap, Run
  <2>5. tracked'[o] = IF o \in L THEN FreeSlot(o, rs) ELSE tr[o]
    BY DEF Launch, LaunchedTracked
  <2> QED BY <1>1, <2>1, <2>2, <2>3, <2>4, <2>5 DEF CalmRun
<1>3. OneTracked(runs', tracked') /\ RunsCalm(runs')
  BY <1>2 DEF OneTracked, RunsCalm
<1>4. ASSUME NEW o \in Ops, operationStatus'[o] \in Unqueued
      PROVE  /\ st[o] \in Unqueued /\ opState'[o] = os[o]
             /\ o \in L => runtime = "recreating" /\ LaunchPhase(o, bad) = "ready"
  <2>1. /\ operationStatus'[o] = LaunchedStatus(L, bad, st)[o]
        /\ opState'[o] = LaunchedState(L, bad, os)[o]
    BY DEF Launch
  <2>2. CASE o \notin L
    BY <1>4, <2>1, <2>2 DEF LaunchedStatus, LaunchedState
  <2>3. CASE o \in L /\ abortReason # "none"
    BY <1>4, <2>1, <2>3 DEF LaunchedStatus, Queued
  <2>4. CASE o \in L /\ abortReason = "none"
    BY <1>1, <1>4, <2>1, <2>4 DEF LaunchedStatus, LaunchedState, LaunchPhase, Unqueued
  <2> QED BY <2>2, <2>3, <2>4
<1>5. ASSUME NEW o \in Ops, operationStatus'[o] \in Unqueued
      PROVE  Idle(o, runs') \/ Spent(o, operationStatus', runs')
  <2>1. CASE notifies /\ ~\A p \in L : st[p] \in Unqueued
    <3>1. (\A p \in Ops : Idle(p, rs)) /\ \A p \in L : st[p] \notin Unqueued
      BY <2>1
    <3>2. o \notin L /\ Idle(o, rs)
      BY <1>4, <1>5, <3>1
    <3> QED BY <1>2, <3>2 DEF Idle
  <2>2. CASE ~notifies \/ \A p \in L : st[p] \in Unqueued
    <3>1. CASE o \notin L /\ Idle(o, rs)
      BY <1>2, <3>1 DEF Idle
    <3>2. CASE Spent(o, st, rs)
      <4> SUFFICES ASSUME NEW d \in Dependencies[o]
                   PROVE  /\ operationStatus'[d] \notin Unqueued
                          /\ \A k \in Slots : runs'[d][k].notifies => runs'[d][k].phase \notin Early
        BY DEF Spent
      <4>1. d \in Ops /\ st[d] \notin Unqueued
            /\ \A k \in Slots : rs[d][k].notifies => rs[d][k].phase \notin Early
        BY <3>2, PlanAssumption DEF Spent
      <4>2. d \in L => ~notifies
        BY <2>2, <4>1
      <4>3. d \in L => \A k \in Slots : \/ runs'[d][k].phase = "free"
                                        \/ runs'[d][k].notifies = notifies
        BY <1>2, <4>1
      <4>4. d \notin L => \A k \in Slots : runs'[d][k] = rs[d][k]
        BY <1>2, <4>1
      <4> QED BY <1>4, <4>1, <4>2, <4>3, <4>4 DEF Early
    <3> QED BY <1>4, <1>5, <3>1, <3>2 DEF Queued
  <2> QED BY <2>1, <2>2
<1>6. Queued(operationStatus', opState', runs', abortReason)
  <2> SUFFICES ASSUME NEW o \in Ops, operationStatus'[o] \in Unqueued
               PROVE  /\ abortReason = "none" /\ ~opState'[o].started
                      /\ \A k \in Slots : runs'[o][k].phase \in {"free", "ready"}
                      /\ Idle(o, runs') \/ Spent(o, operationStatus', runs')
    BY DEF Queued
  <2> QED BY <1>2, <1>4, <1>5 DEF Queued
<1>7. Recorded(opState', abortReason)
  <2>1. ASSUME NEW o \in Ops, o \in L
        PROVE  opState'[o] \in {OpState(getStatus(abortReason), TRUE), OpState("failed", TRUE),
                                OpState("running", FALSE), os[o]}
    <3>1. opState'[o] = LaunchedState(L, bad, os)[o]
      BY DEF Launch
    <3> QED BY <2>1, <3>1 DEF LaunchedState
  <2>2. ASSUME NEW o \in Ops, o \notin L
        PROVE  opState'[o] = os[o]
    BY <2>2 DEF Launch, LaunchedState
  <2>3. ASSUME NEW o \in Ops, opState'[o].status = "failed"
        PROVE  opState'[o] = os[o] \/ (opState'[o].started /\ opState'[o].ended)
    BY <2>1, <2>2, <2>3 DEF OpState
  <2> QED BY <2>3 DEF Recorded
<1> QED BY <1>3, <1>6, <1>7 DEF OpsInOrder

LEMMA AdvanceKeeps ==
    ASSUME Typed, runtime = "recreating" => GpuRuntime, abortReason' = abortReason, OpsInOrder,
           \A o \in Ops : Idle(o, runs),
           NEW st \in StatusMap, Advance(st), Queued(st, opState, runs, abortReason)
    PROVE  OpsInOrder'
<1>1. ASSUME NEW h, NEW o \in Ops, QueuedStatus(currentGroup, h, st)[o] \in Unqueued
      PROVE  st[o] \in Unqueued
  BY <1>1 DEF QueuedStatus, Unqueued
<1>2. CASE FinishFlow(st)
  <2>1. Queued(operationStatus', opState, runs, abortReason)
    BY <1>1, <1>2, QueuedKept DEF FinishFlow
  <2> QED BY <1>2, <2>1 DEF FinishFlow, OpsInOrder
<1>3. ASSUME NEW h \in (currentGroup + 1)..NGroups, NEW bad, EnterGroup(h, st, bad)
      PROVE  OpsInOrder'
  <2> DEFINE L == Startable(h, st)
             queued == QueuedStatus(currentGroup, h, st)
  <2>1. Launch(L, bad, TRUE, queued, opState, runs, abortControllerMap, tracked)
    BY <1>3 DEF EnterGroup
  <2>2. L \in SUBSET Ops /\ \A o \in L : st[o] = "pending"
    BY DEF Startable
  <2>3. queued \in StatusMap
    BY QueuedStatusType
  <2>4. Queued(queued, opState, runs, abortReason)
    BY <1>1, QueuedKept
  <2>5. \A o \in L : queued[o] \notin Unqueued
    BY PlanAssumption DEF QueuedStatus, Startable, Unqueued
  <2> HIDE DEF L, queued
  <2> QED BY <2>1, <2>2, <2>3, <2>4, <2>5, LaunchKeeps DEF OpsInOrder, Typed
<1> QED BY <1>2, <1>3 DEF Advance

LEMMA StopKeeps ==
    ASSUME Typed, OpsInOrder, NEW T, NEW st \in StatusMap, Stop(T, st),
           Queued(st, opState, runs, abortReason)
    PROVE  OpsInOrder'
<1>1. OneTracked(runs', tracked') /\ RunsCalm(runs')
  BY AbortedKeeps DEF Stop, OpsInOrder, Typed
<1>2. Queued(operationStatus', opState', runs', abortReason')
  <2>1. \A o \in Ops : operationStatus'[o] \in Unqueued => st[o] \in Unqueued
    BY DEF Stop, StopStatus, Unqueued
  <2>2. \A o \in Ops : opState'[o].started = opState[o].started
    BY StopStateKeeps DEF Stop, Typed
  <2>3. \A o \in Ops, k \in Slots : runs'[o][k].phase = runs[o][k].phase
                                    /\ runs'[o][k].notifies = runs[o][k].notifies
    BY AbortedPhases DEF Stop, Typed
  <2>4. abortReason' = abortReason
    BY DEF Stop, stopVars
  <2> QED BY <2>1, <2>2, <2>3, <2>4, QueuedKept
<1>3. Recorded(opState', abortReason')
  BY StopStateKeeps DEF Stop, stopVars, Recorded, OpsInOrder, Typed
<1> QED BY <1>1, <1>2, <1>3 DEF OpsInOrder

\* A restart request, and the one of podman when run rs of an op has met it stale.
LEMMA RestartKeeps ==
    ASSUME Typed, runtime = "recreating" => GpuRuntime, OpsInOrder, NEW T \in SUBSET Ops,
           NEW rs \in RunMap, OneTracked(rs, tracked), RunsCalm(rs),
           Queued(operationStatus, opState, rs, abortReason), Restart(T, rs)
    PROVE  OpsInOrder'
<1> DEFINE now     == {o \in T : tracked[o] = NoSlot}
           st      == [o \in Ops |-> IF o \in T THEN "restarting" ELSE operationStatus[o]]
           aborted == AbortedRuns(T, rs, "restart")
<1>1. PICK bad : Launch(now, bad, FALSE, st, opState, aborted, abortControllerMap, tracked)
  BY DEF Restart
<1>2. now \in SUBSET Ops /\ abortReason' = abortReason
  BY DEF Restart, stopVars
<1>3. st \in StatusMap
  BY DEF Typed, StatusMap, Progress
<1>4. aborted \in RunMap /\ OneTracked(aborted, tracked) /\ RunsCalm(aborted)
  BY AbortedRunsType, AbortedKeeps DEF Reasons
<1>5. \A o \in now : Idle(o, aborted)
  <2> HIDE DEF aborted
  <2> QED BY <1>4, UntrackedIsIdle
<1>6. Queued(st, opState, aborted, abortReason)
  <2>1. Queued(operationStatus, opState, aborted, abortReason)
    BY AbortedQueued
  <2>2. \A o \in Ops : st[o] \in Unqueued => operationStatus[o] \in Unqueued
    BY DEF Unqueued
  <2> HIDE DEF st, aborted
  <2> QED BY <2>1, <2>2, QueuedKept
<1>7. \A o \in now : st[o] \notin Unqueued
  BY DEF Unqueued
<1> HIDE DEF now, st, aborted
<1> QED BY <1>1, <1>2, <1>3, <1>4, <1>5, <1>6, <1>7, LaunchKeeps DEF OpsInOrder, Typed

LEMMA JobStopKeeps ==
    ASSUME Typed, OpsInOrder, NEW reason \in JobStops, JobStop(reason)
    PROVE  OpsInOrder'
<1>1. abortReason = "none" /\ abortReason' = reason /\ reason # "none"
  BY KindAssumption DEF JobStop
<1>2. OneTracked(runs', tracked') /\ RunsCalm(runs')
  <2>1. \A o \in Ops, k \in Slots :
           runs'[o][k].phase = runs[o][k].phase /\ runs'[o][k].muted = runs[o][k].muted
    BY AbortRunKeeps DEF JobStop, Typed, RunMap
  <2>2. tracked' = tracked
    BY DEF JobStop
  <2> QED BY <2>1, <2>2 DEF OneTracked, RunsCalm, CalmRun, OpsInOrder
<1>3. \A o \in Ops : operationStatus'[o] \notin Unqueued
  BY DEF JobStop, Unqueued, OpsInOrder, Queued
<1>4. Recorded(opState', abortReason')
  BY <1>1 DEF JobStop, Recorded, OpsInOrder
<1> QED BY <1>2, <1>3, <1>4 DEF OpsInOrder, Queued

\* A run goes on, and nothing is said of its op, which is not one that waits.
LEMMA SilentKeeps ==
    ASSUME OpsInOrder, NEW o \in Ops, NEW k \in Slots, Moved(o, k, runs'),
           runs[o][k].phase # "ready",
           UNCHANGED <<operationStatus, opState, abortReason, tracked>>
    PROVE  OpsInOrder'
<1>1. OneTracked(runs', tracked') /\ RunsCalm(runs')
  BY MovedKeeps DEF OpsInOrder
<1>2. operationStatus[o] \notin Unqueued
  BY QueuedIsHeld DEF OpsInOrder, Moved
<1>3. Queued(operationStatus', opState', runs', abortReason')
  BY <1>2, MovedQueued DEF OpsInOrder
<1> QED BY <1>1, <1>3 DEF OpsInOrder, Recorded

\* The events of a run that set the statuses of its op, when nothing is launched.
LEMMA ReportKeeps ==
    ASSUME Typed, OpsInOrder, NEW o \in Ops, NEW k \in Slots, Moved(o, k, runs'),
           NEW status, status \notin Unqueued, NEW state \in OpStates,
           state.status = "failed" => state.started /\ state.ended,
           Reports(o, k, status, state), UNCHANGED <<abortReason, tracked>>
    PROVE  OpsInOrder'
<1>1. OneTracked(runs', tracked') /\ RunsCalm(runs')
  BY MovedKeeps DEF OpsInOrder
<1>2. /\ operationStatus' = [operationStatus EXCEPT ![o] = status]
      /\ opState' = [opState EXCEPT ![o] = state]
  BY DEF Reports, OpsInOrder, RunsCalm, CalmRun
<1>3. /\ operationStatus'[o] \notin Unqueued
      /\ \A p \in Ops \ {o} : operationStatus'[p] = operationStatus[p] /\ opState'[p] = opState[p]
  BY <1>2 DEF Typed, StatusMap, StateMap
<1>4. Queued(operationStatus', opState', runs', abortReason')
  BY <1>3, MovedQueued DEF OpsInOrder
<1>5. Recorded(opState', abortReason')
  BY <1>2 DEF Recorded, OpsInOrder, Typed, StateMap
<1> QED BY <1>1, <1>4, <1>5 DEF OpsInOrder

LEMMA EndInErrorKeeps ==
    ASSUME Typed, OpsInOrder, NEW o \in Ops, NEW k \in Slots, runs[o][k].phase # "free",
           NEW reason, EndInError(o, k, reason)
    PROVE  OpsInOrder' /\ Moved(o, k, runs')
<1> DEFINE phase  == IF o \in Volumes THEN "resolved" ELSE "teardown"
           status == IF reason = "none" THEN "failed" ELSE "stopped"
           state  == OpState(Outcome(reason, "failed"), TRUE)
<1>1. /\ runs' = [MoveRun(o, k, phase) EXCEPT ![o][k].armed = FALSE]
      /\ Reports(o, k, status, state)
      /\ UNCHANGED <<abortReason, tracked>>
  BY DEF EndInError, OpsInOrder, RunsCalm, CalmRun, stopVars
<1>2. phase \in Phases \ {"ready", "failing", "rejected"} /\ phase \notin Early
      /\ status \notin Unqueued
  BY DEF Phases, Unqueued, Early
<1>3. state \in OpStates /\ state.started /\ state.ended
  BY StatusOfReason, OpStateType DEF Outcome, OpStatuses, OpState
<1> HIDE DEF phase, status, state
<1>4. Moved(o, k, runs')
  BY <1>1, <1>2, MoveIsMoved, SetIsMoved DEF OpsInOrder, Typed
<1> QED BY <1>1, <1>2, <1>3, <1>4, ReportKeeps

\* What a run releases has no run, and no run is going to release it again.
LEMMA ReleasedIsIdle ==
    ASSUME ReleasedOnce, OpsInOrder, NEW o \in Ops, NEW k \in Slots, NEW p \in Released(o, k),
           runs[o][k].phase \in {"creating", "started"}
              \/ (runs[o][k].phase = "up" /\ o \in Probed)
    PROVE  /\ p \in Ops /\ p # o /\ operationStatus[p] \in Unqueued /\ Idle(p, runs)
           /\ GpuRuntime => Dependencies[p] = {o}
<1>1. /\ p \in Ops /\ o \in Dependencies[p] /\ runs[o][k].notifies
      /\ operationStatus[p] \in Unqueued
  BY DEF Released, Dependents, Unqueued
<1>2. /\ \A j \in Slots : runs[p][j].phase \in {"free", "ready"}
      /\ Idle(p, runs) \/ Spent(p, operationStatus, runs)
  BY <1>1 DEF OpsInOrder, Queued
<1>3. CASE ~GpuRuntime
  BY <1>1, <1>2, <1>3, PlanAssumption DEF OpsInOrder, RunsCalm, CalmRun, Idle
<1>4. CASE GpuRuntime
  <2>1. Dependencies[p] = {o} /\ o \notin Probed
    BY <1>1, <1>4 DEF ReleasedOnce
  <2>2. ~Spent(p, operationStatus, runs)
    BY <1>1, <2>1 DEF Spent, Early
  <2> QED BY <1>1, <1>2, <2>1, <2>2, PlanAssumption
<1> QED BY <1>3, <1>4

LEMMA StartupSuccessKeeps ==
    ASSUME ReleasedOnce, Typed, runtime = "recreating" => GpuRuntime, OpsInOrder,
           NEW o \in Ops, NEW k \in Slots, StartupSuccess(o, k)
    PROVE  OpsInOrder'
<1> DEFINE L  == Released(o, k)
           rs == MoveRun(o, k, "up")
<1>1. PICK bad : Launch(L, bad, TRUE, operationStatus, opState, rs, abortControllerMap, tracked)
  BY DEF StartupSuccess
<1>2. /\ runs[o][k].phase \in {"started", "up"} /\ abortReason' = abortReason
      /\ runs[o][k].phase = "up" => o \in Probed
  BY DEF StartupSuccess, InPhase, stopVars
<1>3. Moved(o, k, rs)
  BY <1>2, MoveIsMoved DEF OpsInOrder, Typed, Phases, Early
<1>4. operationStatus[o] \notin Unqueued
  BY <1>2, QueuedIsHeld DEF OpsInOrder
<1>5. Queued(operationStatus, opState, rs, abortReason)
  BY <1>3, <1>4, MovedQueued DEF OpsInOrder
<1>6. /\ rs \in RunMap /\ OneTracked(rs, tracked) /\ RunsCalm(rs)
      /\ \A p \in Ops : Idle(p, runs) => Idle(p, rs)
  BY <1>3, MovedKeeps DEF OpsInOrder
<1>7. ASSUME NEW p \in L
      PROVE  /\ p \in Ops /\ operationStatus[p] \in Unqueued /\ Idle(p, rs)
             /\ GpuRuntime => Dependencies[p] = {o}
  BY <1>2, <1>6, <1>7, ReleasedIsIdle
<1>8. \A j \in Slots : rs[o][j].phase \notin Early
  <2>1. rs[o][k].phase = "up"
    BY <1>2 DEF MoveRun, Typed, RunMap, Run
  <2> HIDE DEF rs
  <2> QED BY <1>6, <2>1 DEF OneTracked, Early
<1> HIDE DEF L, rs
<1>9. runtime = "recreating" => \A p \in L : Spent(p, operationStatus, rs)
  BY <1>4, <1>7, <1>8 DEF Spent
<1> QED BY <1>1, <1>2, <1>5, <1>6, <1>7, <1>9, LaunchKeeps DEF OpsInOrder, Typed

LEMMA VolumeDoneKeeps ==
    ASSUME ReleasedOnce, Typed, runtime = "recreating" => GpuRuntime, OpsInOrder,
           NEW o \in Ops, NEW k \in Slots, VolumeDone(o, k)
    PROVE  OpsInOrder'
<1> DEFINE L   == Released(o, k)
           rs  == MoveRun(o, k, "resolved")
           st  == [operationStatus EXCEPT ![o] = "finished"]
           os  == [opState EXCEPT ![o] = OpState(Outcome(runs[o][k].abort, "success"), TRUE)]
           ctl == [abortControllerMap EXCEPT ![o] = NoSlot]
<1>1. PICK bad : Launch(L, bad, TRUE, st, os, rs, ctl, tracked)
  BY DEF VolumeDone
<1>2. runs[o][k].phase = "creating" /\ abortReason' = abortReason
  BY DEF VolumeDone, InPhase, stopVars
<1>3. Moved(o, k, rs)
  BY <1>2, MoveIsMoved DEF OpsInOrder, Typed, Phases, Early
<1>4. /\ st[o] \notin Unqueued
      /\ \A p \in Ops \ {o} : st[p] = operationStatus[p] /\ os[p] = opState[p]
  BY DEF Typed, StatusMap, StateMap, Unqueued
<1>5. /\ rs \in RunMap /\ OneTracked(rs, tracked) /\ RunsCalm(rs)
      /\ \A p \in Ops : Idle(p, runs) => Idle(p, rs)
  BY <1>3, MovedKeeps DEF OpsInOrder
<1>6. st \in StatusMap
  BY DEF Typed, StatusMap, Progress
<1>7. os \in StateMap /\ Recorded(os, abortReason)
  <2>1. OpState(Outcome(runs[o][k].abort, "success"), TRUE) \in OpStates
    BY StatusOfReason, OpStateType DEF Outcome, OpStatuses
  <2>2. /\ OpState(Outcome(runs[o][k].abort, "success"), TRUE).started
        /\ OpState(Outcome(runs[o][k].abort, "success"), TRUE).ended
    BY DEF OpState
  <2> QED BY <2>1, <2>2 DEF OpsInOrder, Recorded, Typed, StateMap
<1>8. \A j \in Slots : rs[o][j].phase \notin Early
  <2>1. rs[o][k].phase = "resolved"
    BY <1>2 DEF MoveRun, Typed, RunMap, Run
  <2> HIDE DEF rs
  <2> QED BY <1>5, <2>1 DEF OneTracked, Early
<1>9. tracked \in SlotMap
  BY DEF Typed
<1> HIDE DEF rs, st, os, ctl
<1>10. Queued(st, os, rs, abortReason)
  BY <1>3, <1>4, MovedQueued DEF OpsInOrder
<1>11. ASSUME NEW p \in L
       PROVE  /\ p \in Ops /\ st[p] \in Unqueued /\ Idle(p, rs)
              /\ GpuRuntime => Dependencies[p] = {o}
  BY <1>2, <1>4, <1>5, <1>11, ReleasedIsIdle
<1> HIDE DEF L
<1>12. runtime = "recreating" => \A p \in L : Spent(p, st, rs)
  BY <1>4, <1>8, <1>11 DEF Spent
<1> QED
  BY <1>1, <1>2, <1>5, <1>6, <1>7, <1>9, <1>10, <1>11, <1>12, LaunchKeeps

LEMMA SettleKeeps ==
    ASSUME Typed, runtime = "recreating" => GpuRuntime, OpsInOrder,
           NEW o \in Ops, NEW k \in Slots, Settle(o, k)
    PROVE  OpsInOrder'
<1> DEFINE mine     == finaliser[o] = k
           restarts == IF mine /\ lockedOperations[o] = "RESTARTING" THEN {o} ELSE {}
           stops    == IF mine /\ lockedOperations[o] = "STOPPING" THEN {o} ELSE {}
           tr       == [tracked EXCEPT ![o] = NoSlot]
           T        == StoppedServers(o)
           st       == StopStatus(T \cup stops, tr, operationStatus)
           os       == StopState(T \cup stops, tr, opState)
           aborted  == AbortedRuns(T, runs, "stopped")
           rs       == [aborted EXCEPT ![o][k] = NoRun]
<1>1. PICK bad : Launch(restarts, bad, FALSE, st, os, rs, abortControllerMap, tr)
  BY DEF Settle
<1>2. runs[o][k].phase \in {"resolved", "rejected"} /\ abortReason' = abortReason
  BY DEF Settle, Settled, stopVars
<1>3. tracked[o] = k /\ operationStatus[o] \notin Unqueued
  BY <1>2, QueuedIsHeld DEF OpsInOrder, OneTracked
<1>4. aborted \in RunMap /\ OneTracked(aborted, tracked) /\ RunsCalm(aborted)
  BY AbortedRunsType, AbortedKeeps DEF OpsInOrder, Typed, Reasons
<1>5. \A p \in Ops, j \in Slots : aborted[p][j].phase = runs[p][j].phase
                                  /\ aborted[p][j].notifies = runs[p][j].notifies
  BY AbortedPhases DEF Typed
<1>6. tr \in SlotMap
  BY DEF Typed, SlotMap
<1>7. st \in StatusMap /\ os \in StateMap
  BY StopStatusType, StopStateType DEF Typed
<1>8. \A p \in Ops : st[p] \in Unqueued => operationStatus[p] \in Unqueued
  BY DEF StopStatus, Unqueued
<1>9. /\ Recorded(os, abortReason)
      /\ \A p \in Ops : os[p].started = opState[p].started
  BY StopStateKeeps DEF Recorded, OpsInOrder, Typed
<1> HIDE DEF T, stops, mine, st, os, aborted
<1>10. NoRun \in Run /\ NoRun.phase = "free" /\ ~NoRun.muted
  BY DEF NoRun, Run, Phases, Reasons
<1>11. \A p \in Ops, j \in Slots : rs[p][j] = IF p = o /\ j = k THEN NoRun ELSE aborted[p][j]
  BY <1>4 DEF RunMap
<1>12. rs \in RunMap /\ RunsCalm(rs) /\ OneTracked(rs, tr) /\ Idle(o, rs)
  <2>1. rs \in RunMap
    BY <1>4, <1>10 DEF RunMap
  <2>2. Idle(o, rs)
    BY <1>3, <1>4, <1>10, <1>11 DEF OneTracked, Idle
  <2>3. RunsCalm(rs)
    BY <1>4, <1>10, <1>11 DEF RunsCalm, CalmRun
  <2>4. OneTracked(rs, tr)
    BY <1>4, <1>11, <2>2 DEF OneTracked, Idle, Typed, SlotMap
  <2> QED BY <2>1, <2>2, <2>3, <2>4
<1>13. Queued(st, os, rs, abortReason)
  <2>1. ASSUME NEW p \in Ops, st[p] \in Unqueued
        PROVE  /\ operationStatus[p] \in Unqueued /\ os[p].started = opState[p].started
               /\ \A j \in Slots : rs[p][j].phase = runs[p][j].phase
    BY <1>3, <1>5, <1>8, <1>9, <1>11, <2>1
  <2>2. \A p \in Ops, j \in Slots : rs[p][j].notifies /\ rs[p][j].phase \in Early
                                      => runs[p][j].notifies /\ runs[p][j].phase \in Early
    BY <1>5, <1>10, <1>11 DEF Early
  <2> HIDE DEF rs
  <2> QED BY <2>1, <2>2, QueuedKept DEF OpsInOrder
<1>14. restarts \in SUBSET Ops /\ \A p \in restarts : p = o
  OBVIOUS
<1> HIDE DEF restarts, tr, rs
<1>15. \A p \in restarts : st[p] \notin Unqueued
  BY <1>3, <1>8, <1>14
<1> QED
  BY <1>1, <1>2, <1>6, <1>7, <1>9, <1>12, <1>13, <1>14, <1>15, LaunchKeeps

LEMMA TimeoutKeeps ==
    ASSUME Typed, OpsInOrder, NEW o \in Ops, NEW k \in Slots, Timeout(o, k)
    PROVE  /\ OpsInOrder'
           /\ \A p \in Ops : Idle(p, runs) => Idle(p, runs')
<1>1. ASSUME NEW p \in Ops, NEW j \in Slots
      PROVE  /\ runs'[p][j].phase = runs[p][j].phase /\ runs'[p][j].muted = runs[p][j].muted
             /\ runs'[p][j].notifies = runs[p][j].notifies
  <2>1. runs[o][k] \in Run /\ AbortRun(runs[o][k], "expired") \in Run
    BY AbortRunType DEF Typed, RunMap, Reasons
  <2>2. /\ [AbortRun(runs[o][k], "expired") EXCEPT !.armed = FALSE].phase = runs[o][k].phase
        /\ [AbortRun(runs[o][k], "expired") EXCEPT !.armed = FALSE].muted = runs[o][k].muted
        /\ [AbortRun(runs[o][k], "expired") EXCEPT !.armed = FALSE].notifies = runs[o][k].notifies
    BY <2>1, AbortRunKeeps DEF Run
  <2>3. runs'[p][j] = IF p = o /\ j = k
                      THEN [AbortRun(runs[o][k], "expired") EXCEPT !.armed = FALSE]
                      ELSE runs[p][j]
    BY DEF Timeout, Typed, RunMap
  <2> QED BY <2>2, <2>3
<1>2. /\ operationStatus' = [operationStatus EXCEPT ![o] = "stopping"]
      /\ UNCHANGED <<opState, tracked, abortReason>>
  BY DEF Timeout, stopVars
<1>3. \A p \in Ops : Idle(p, runs) => Idle(p, runs')
  BY <1>1 DEF Idle
<1>4. OneTracked(runs', tracked') /\ RunsCalm(runs')
  BY <1>1, <1>2 DEF OpsInOrder, OneTracked, RunsCalm, CalmRun
<1>5. Queued(operationStatus', opState', runs', abortReason')
  <2>1. \A p \in Ops : operationStatus'[p] \in Unqueued => operationStatus[p] \in Unqueued
    BY <1>2 DEF Typed, StatusMap, Unqueued
  <2>2. ASSUME NEW p \in Ops, operationStatus'[p] \in Unqueued
        PROVE  /\ operationStatus[p] \in Unqueued /\ opState'[p].started = opState[p].started
               /\ \A j \in Slots : runs'[p][j].phase = runs[p][j].phase
    BY <1>1, <1>2, <2>1, <2>2
  <2>3. \A p \in Ops, j \in Slots : runs'[p][j].notifies /\ runs'[p][j].phase \in Early
                                      => runs[p][j].notifies /\ runs[p][j].phase \in Early
    BY <1>1
  <2>4. Queued(operationStatus', opState', runs', abortReason)
    BY <2>2, <2>3, QueuedKept DEF OpsInOrder
  <2> QED BY <1>2, <2>4
<1> QED BY <1>2, <1>3, <1>4, <1>5 DEF OpsInOrder, Recorded

LEMMA RunStepKeeps ==
    ASSUME ~TeardownMayFail, ReleasedOnce, Typed, runtime = "recreating" => GpuRuntime,
           OpsInOrder, NEW o \in Ops, NEW k \in Slots, RunStep(o, k)
    PROVE  OpsInOrder'
<1>1. CASE ContainerStarted(o, k)
  <2>1. runs[o][k].phase = "creating"
    BY <1>1 DEF ContainerStarted, InPhase
  <2>2. Moved(o, k, MoveRun(o, k, "started"))
    BY <2>1, MoveIsMoved DEF OpsInOrder, Typed, Phases, Early
  <2>3. Moved(o, k, runs')
    <3>1. PICK b \in BOOLEAN : runs' = [MoveRun(o, k, "started") EXCEPT ![o][k].armed = b]
      <4>1. (o \in Timed) \in BOOLEAN
        OBVIOUS
      <4>2. runs' = [MoveRun(o, k, "started") EXCEPT ![o][k].armed = (o \in Timed)]
        BY <1>1 DEF ContainerStarted
      <4> QED BY <4>1, <4>2, Zenon
    <3> QED BY <2>2, <3>1, SetIsMoved
  <2> QED BY <1>1, <2>1, <2>3, SilentKeeps DEF ContainerStarted, stopVars
<1>2. CASE StartupSuccess(o, k)
  BY <1>2, StartupSuccessKeeps
<1>3. ASSUME NEW status \in {"success", "failed"}, Exit(o, k, status)
      PROVE  OpsInOrder'
  <2>1. /\ runs[o][k].phase # "free"
        /\ runs' = [MoveRun(o, k, "teardown") EXCEPT ![o][k].armed = FALSE]
        /\ Reports(o, k, "finished", OpState(status, TRUE))
        /\ UNCHANGED <<abortReason, tracked>>
    BY <1>3 DEF Exit, InPhase, stopVars
  <2>2. /\ OpState(status, TRUE) \in OpStates
        /\ OpState(status, TRUE).started /\ OpState(status, TRUE).ended
    BY OpStateType DEF OpStatuses, OpState
  <2>3. Moved(o, k, runs')
    BY <2>1, MoveIsMoved, SetIsMoved DEF OpsInOrder, Typed, Phases, Early
  <2> QED BY <2>1, <2>2, <2>3, ReportKeeps DEF Unqueued
<1>4. CASE Fail(o, k) \/ LoseExit(o, k)
  BY <1>4, EndInErrorKeeps DEF Fail, LoseExit, InPhase
<1>5. CASE VolumeDone(o, k)
  BY <1>5, VolumeDoneKeeps
<1>6. CASE Timeout(o, k)
  BY <1>6, TimeoutKeeps
<1>7. CASE TeardownDone(o, k)
  <2>1. runs' = MoveRun(o, k, "resolved") /\ runs[o][k].phase = "teardown"
    BY <1>7 DEF TeardownDone, InPhase, OpsInOrder, RunsCalm, CalmRun
  <2>2. Moved(o, k, runs')
    BY <2>1, MoveIsMoved DEF OpsInOrder, Typed, Phases, Early
  <2> QED BY <1>7, <2>1, <2>2, SilentKeeps DEF TeardownDone, stopVars
<1>8. CASE Settle(o, k)
  BY <1>8, SettleKeeps
<1> QED
  BY <1>1, <1>2, <1>3, <1>4, <1>5, <1>6, <1>7, <1>8 DEF RunStep

\* No step of a run ends the flow, or lets go of what start() awaits.
LEMMA RunStepFlow ==
    ASSUME OpsInOrder, ~rejected, NEW o \in Ops, NEW k \in Slots, RunStep(o, k)
    PROVE  /\ UNCHANGED <<pc, currentGroup, flowStatus, abortReason, stopLock, runtime>>
           /\ ~rejected'
           /\ Timeout(o, k) \/ runs[o][k].phase # "free"
<1>1. ~runs[o][k].muted /\ runs[o][k].phase # "rejected"
  BY DEF OpsInOrder, RunsCalm, CalmRun
<1>2. CASE Fail(o, k) \/ LoseExit(o, k)
  <2>1. ASSUME NEW reason, EndInError(o, k, reason)
        PROVE  UNCHANGED <<flowVars, stopVars, groupVars, runtime>>
    BY <1>1, <2>1 DEF EndInError
  <2>2. UNCHANGED <<flowVars, stopVars, groupVars, runtime>>
    BY <1>2, <2>1 DEF Fail, LoseExit
  <2>3. runs[o][k].phase # "free"
    BY <1>2 DEF Fail, LoseExit, InPhase
  <2> QED BY <2>2, <2>3 DEF flowVars, stopVars, groupVars
<1>3. CASE Settle(o, k)
  BY <1>1, <1>3 DEF Settle, Settled, flowVars, stopVars
<1>4. CASE ~(Fail(o, k) \/ LoseExit(o, k) \/ Settle(o, k))
  <2>1. UNCHANGED <<flowVars, stopVars, groupVars, runtime>>
    <3>1. CASE ContainerStarted(o, k) \/ StartupSuccess(o, k) \/ VolumeDone(o, k)
      BY <3>1 DEF ContainerStarted, StartupSuccess, VolumeDone
    <3>2. CASE (\E status \in {"success", "failed"} : Exit(o, k, status)) \/ Timeout(o, k)
               \/ TeardownDone(o, k)
      BY <3>2 DEF Exit, Timeout, TeardownDone
    <3> QED BY <1>4, <3>1, <3>2 DEF RunStep
  <2>2. Timeout(o, k) \/ runs[o][k].phase # "free"
    BY <1>4 DEF RunStep, ContainerStarted, StartupSuccess, Exit, VolumeDone, TeardownDone, InPhase
  <2> QED BY <2>1, <2>2 DEF flowVars, stopVars, groupVars
<1> QED BY <1>2, <1>3, <1>4

\* A run that podman holds goes on, or ends in an error; a run that finds podman stale waits
\* for it, or goes on, or has what runs in the group restarted.
LEMMA RuntimeStepKeeps ==
    ASSUME Typed, FlowInOrder, OpsInOrder, NEW o \in Ops, NEW k \in Slots, RuntimeStep(o, k)
    PROVE  /\ OpsInOrder'
           /\ UNCHANGED <<pc, currentGroup, flowStatus, abortReason, stopLock, rejected>>
           /\ runtime' = runtime \/ (runtime' = "recreating" /\ GpuRuntime)
           /\ runs[o][k].phase # "free"
<1>1. CASE RuntimeReady(o, k)
  <2>1. /\ runs[o][k].phase = "ready" /\ runs' = MoveRun(o, k, "creating")
        /\ Reports(o, k, "running", OpState("running", FALSE))
        /\ UNCHANGED <<flowVars, stopVars, groupVars, runtime, tracked>>
    BY <1>1 DEF RuntimeReady, Resumes
  <2>2. Moved(o, k, runs')
    BY <2>1, MoveIsMoved DEF OpsInOrder, Typed, Phases, Early
  <2>3. OpState("running", FALSE) \in OpStates /\ OpState("running", FALSE).status # "failed"
    BY OpStateType DEF OpStatuses, OpState
  <2>4. OpsInOrder'
    BY <2>1, <2>2, <2>3, ReportKeeps DEF stopVars, Unqueued
  <2> QED BY <2>1, <2>4 DEF flowVars, stopVars, groupVars
<1>2. CASE RetryFails(o, k)
  <2>1. runs[o][k].phase = "ready" /\ EndInError(o, k, runs[o][k].abort)
    BY <1>2 DEF RetryFails, Resumes
  <2>2. ~runs[o][k].muted
    BY DEF OpsInOrder, RunsCalm, CalmRun
  <2>3. UNCHANGED <<flowVars, stopVars, groupVars, runtime>>
    BY <2>1, <2>2 DEF EndInError
  <2> QED BY <2>1, <2>3, EndInErrorKeeps DEF flowVars, stopVars, groupVars
<1>3. CASE RuntimeFails(o, k)
  BY <1>3 DEF RuntimeFails, FlowInOrder
<1>4. CASE RuntimeStale(o, k)
  <2> DEFINE held  == [MoveRun(o, k, "ready") EXCEPT ![o][k].retried = TRUE]
             again == [MoveRun(o, k, "creating") EXCEPT ![o][k].retried = TRUE]
             T     == {p \in Ops : /\ GroupOf[p] = currentGroup
                                   /\ operationStatus[p] = "running"
                                   /\ lockedOperations[p] = "none"}
  <2>1. runs[o][k].phase \in {"creating", "started"} /\ GpuRuntime
    BY <1>4 DEF RuntimeStale, InPhase
  <2>2. Moved(o, k, held) /\ Moved(o, k, again)
    BY <2>1, MoveIsMoved, SetIsMoved DEF OpsInOrder, Typed, Phases, Early
  <2>3. CASE /\ runs' = held
             /\ UNCHANGED <<flowVars, stopVars, operationStatus, opState, abortControllerMap,
                            tracked, leaked, lockVars, groupVars, runtime>>
    <3>1. OpsInOrder'
      BY <2>1, <2>2, <2>3, SilentKeeps DEF stopVars
    <3> QED BY <2>1, <2>3, <3>1 DEF flowVars, stopVars, groupVars
  <2>4. CASE /\ runs' = again
             /\ Reports(o, k, "running", OpState("running", FALSE))
             /\ UNCHANGED <<flowVars, stopVars, abortControllerMap, tracked, leaked, lockVars,
                            groupVars, runtime>>
    <3>1. OpState("running", FALSE) \in OpStates /\ OpState("running", FALSE).status # "failed"
      BY OpStateType DEF OpStatuses, OpState
    <3>2. OpsInOrder'
      BY <2>2, <2>4, <3>1, ReportKeeps DEF stopVars, Unqueued
    <3> QED BY <2>1, <2>4, <3>2 DEF flowVars, stopVars, groupVars
  <2>5. CASE runtime' = "recreating" /\ Restart(T, held)
    <3>1. operationStatus[o] \notin Unqueued
      BY <2>1, QueuedIsHeld DEF OpsInOrder
    <3>2. Queued(operationStatus, opState, held, abortReason)
      BY <2>2, <3>1, MovedQueued DEF OpsInOrder
    <3>3. held \in RunMap /\ OneTracked(held, tracked) /\ RunsCalm(held)
      BY <2>2, MovedKeeps DEF OpsInOrder
    <3> HIDE DEF held
    <3>4. OpsInOrder'
      BY <2>1, <2>5, <3>2, <3>3, RestartKeeps
    <3> QED BY <2>1, <2>5, <3>4 DEF Restart, flowVars, stopVars
  <2> HIDE DEF held, again, T
  <2> QED BY <1>4, <2>3, <2>4, <2>5 DEF RuntimeStale, held, again, T
<1> QED BY <1>1, <1>2, <1>3, <1>4 DEF RuntimeStep

\* On a node whose podman does not go stale nothing of it being recreated happens.
LEMMA NoRuntimeStep ==
    ASSUME ~GpuRuntime, FlowInOrder, RunsCalm(runs), NEW o \in Ops, NEW k \in Slots,
           RuntimeStep(o, k)
    PROVE  FALSE
BY DEF RuntimeStep, RuntimeReady, RetryFails, RuntimeFails, RuntimeStale, Resumes, RunsCalm,
   CalmRun
(* EveryRunIsAwaited                                                          *)

LEMMA InOrderInit == Init => InOrder
<1> SUFFICES ASSUME Init PROVE InOrder
  OBVIOUS
<1>1. \A o \in Ops, k \in Slots : runs[o][k].phase = "free" /\ ~runs[o][k].muted
  BY DEF Init, NoRun
<1>2. \A o \in Ops : ~opState[o].started /\ opState[o].status # "failed"
  BY DEF Init
<1> QED
  BY <1>1, <1>2 DEF Init, InOrder, OpsInOrder, FlowInOrder, OneTracked, RunsCalm, CalmRun, Queued,
     Idle, Recorded

\* start() queues or launches the ops of a group when no op runs.
LEMMA AdvanceInOrder ==
    ASSUME Typed, InOrder, NEW st \in StatusMap, Advance(st),
           Queued(st, opState, runs, abortReason), \A o \in Ops : Idle(o, runs),
           UNCHANGED <<stopVars, rejected, runtime>>
    PROVE  InOrder'
<1>1. OpsInOrder'
  BY AdvanceKeeps DEF InOrder, FlowInOrder, stopVars
<1>2. CASE FinishFlow(st)
  BY <1>1, <1>2 DEF FinishFlow, InOrder, FlowInOrder
<1>3. ASSUME NEW h, NEW bad, EnterGroup(h, st, bad)
      PROVE  InOrder'
  BY <1>1, <1>3 DEF EnterGroup, InOrder, FlowInOrder
<1> QED BY <1>2, <1>3 DEF Advance

LEMMA StartInOrder == ASSUME Typed, Unstarted, InOrder, Start PROVE InOrder'
<1> DEFINE st == [o \in Ops |-> "pending"]
<1>1. st \in StatusMap /\ pc = "bootstrapped" /\ Advance(st)
      /\ UNCHANGED <<stopVars, rejected, runtime>>
  BY DEF Start, StatusMap, Progress
<1>2. Queued(st, opState, runs, abortReason) /\ \A o \in Ops : Idle(o, runs)
  BY <1>1 DEF InOrder, OpsInOrder, FlowInOrder, Queued, Idle, Unqueued, Unstarted
<1> HIDE DEF st
<1> QED BY <1>1, <1>2, AdvanceInOrder

LEMMA GroupEndInOrder == ASSUME Typed, InOrder, GroupEnd PROVE InOrder'
<1>1. \A o \in Ops : Idle(o, runs)
  BY UntrackedIsIdle DEF GroupEnd, NothingTracked, InOrder, OpsInOrder
<1>2. Queued(operationStatus, opState, runs, abortReason) /\ operationStatus \in StatusMap
  BY DEF InOrder, OpsInOrder, Typed
<1> QED BY <1>1, <1>2, AdvanceInOrder DEF GroupEnd

LEMMA RequestInOrder == ASSUME Typed, InOrder, Request PROVE InOrder'
<1>1. ASSUME NEW T, NEW st \in StatusMap, Stop(T, st),
             Queued(st, opState, runs, abortReason)
      PROVE  InOrder'
  <2>1. OpsInOrder'
    BY <1>1, StopKeeps DEF InOrder
  <2>2. ASSUME NEW o \in Ops, Idle(o, runs) PROVE Idle(o, runs')
    BY <1>1, <2>2, AbortedIdle DEF Stop, Typed
  <2> QED
    BY <1>1, <2>1, <2>2 DEF Stop, InOrder, FlowInOrder, flowVars, stopVars, groupVars
<1>2. ASSUME NEW T \in SUBSET Ops, Restart(T, runs), currentGroup # 0, runtime' = runtime
      PROVE  InOrder'
  <2>1. OpsInOrder'
    BY <1>2, RestartKeeps DEF InOrder, FlowInOrder, OpsInOrder, Typed
  <2> QED BY <1>2, <2>1 DEF Restart, InOrder, FlowInOrder, flowVars, stopVars
<1>3. ASSUME NEW o \in Ops, StopOperation(o)
      PROVE  InOrder'
  BY <1>1, <1>3 DEF StopOperation, InOrder, OpsInOrder, Typed
<1>4. CASE StopGroup
  <2> DEFINE members == {o \in Ops : GroupOf[o] = currentGroup}
             st == [o \in Ops |-> IF o \in members THEN "stopping" ELSE operationStatus[o]]
  <2>1. st \in StatusMap /\ Queued(st, opState, runs, abortReason)
    <3>1. \A o \in Ops : st[o] \in Unqueued => operationStatus[o] \in Unqueued
      BY DEF Unqueued
    <3>2. st \in StatusMap
      BY DEF Typed, StatusMap, Progress
    <3> HIDE DEF st
    <3> QED BY <3>1, <3>2, QueuedKept DEF InOrder, OpsInOrder
  <2>2. Stop(StoppableIn(members, st), st)
    BY <1>4 DEF StopGroup
  <2> HIDE DEF members, st
  <2> QED BY <1>1, <2>1, <2>2
<1>5. ASSUME NEW o \in Ops, RestartOperation(o)
      PROVE  InOrder'
  BY <1>2, <1>5 DEF RestartOperation
<1>6. CASE RestartGroup
  <2>1. PICK T \in SUBSET Ops : Restart(T, runs)
    BY <1>6 DEF RestartGroup
  <2> QED BY <1>2, <1>6, <2>1 DEF RestartGroup
<1>7. ASSUME NEW reason \in JobStops, JobStop(reason)
      PROVE  InOrder'
  <2>1. OpsInOrder'
    BY <1>7, JobStopKeeps DEF InOrder
  <2>2. ASSUME NEW o \in Ops, Idle(o, runs) PROVE Idle(o, runs')
    BY <1>7, <2>2, AbortRunKeeps DEF JobStop, Idle, Typed, RunMap
  <2> QED
    BY <1>7, <2>1, <2>2 DEF JobStop, Serving, InOrder, FlowInOrder, flowVars
<1> QED BY <1>3, <1>4, <1>5, <1>6, <1>7 DEF Request

LEMMA InOrderNext ==
    ASSUME ~TeardownMayFail, GpuRuntime => ~RuntimeMayFail, ReleasedOnce, Typed, Unstarted, InOrder,
           [Next]_vars
    PROVE  InOrder'
<1>1. CASE Start
  BY <1>1, StartInOrder
<1>2. CASE GroupEnd
  BY <1>2, GroupEndInOrder
<1>3. CASE Request
  BY <1>3, RequestInOrder
<1>4. CASE FailFlow
  BY <1>4 DEF FailFlow, InOrder, FlowInOrder
<1>5. CASE AwaitAgain \/ CleanUp \/ StopReturns \/ UNCHANGED vars
  <2>1. UNCHANGED <<opVars, currentGroup, flowStatus, abortReason, runtime, rejected>>
    BY <1>5 DEF AwaitAgain, CleanUp, StopReturns, vars, flowVars, stopVars, groupVars
  <2>2. pc' = pc \/ (pc = "cleanup" /\ pc' = "done")
    BY <1>5 DEF AwaitAgain, CleanUp, StopReturns, vars, flowVars
  <2>3. OpsInOrder' /\ runs' = runs
    BY <2>1 DEF InOrder, OpsInOrder, opVars
  <2> QED BY <2>1, <2>2, <2>3 DEF InOrder, FlowInOrder
<1>6. ASSUME NEW o \in Ops, NEW k \in Slots, RunStep(o, k)
      PROVE  InOrder'
  <2>1. OpsInOrder'
    BY <1>6, RunStepKeeps DEF InOrder, FlowInOrder
  <2>2. /\ UNCHANGED <<pc, currentGroup, flowStatus, abortReason, stopLock, runtime>>
        /\ ~rejected'
        /\ Timeout(o, k) \/ runs[o][k].phase # "free"
    BY <1>6, RunStepFlow DEF InOrder, FlowInOrder
  <2>3. pc # "group" => \A p \in Ops : Idle(p, runs')
    BY <2>2, TimeoutKeeps DEF InOrder, FlowInOrder, Idle
  <2> QED BY <2>1, <2>2, <2>3 DEF InOrder, FlowInOrder
<1>7. ASSUME NEW o \in Ops, NEW k \in Slots, RuntimeStep(o, k)
      PROVE  InOrder'
  <2>1. /\ OpsInOrder'
        /\ UNCHANGED <<pc, currentGroup, flowStatus, abortReason, stopLock, rejected>>
        /\ runtime' = runtime \/ (runtime' = "recreating" /\ GpuRuntime)
        /\ runs[o][k].phase # "free"
    BY <1>7, RuntimeStepKeeps DEF InOrder
  <2>2. pc = "group"
    BY <2>1 DEF InOrder, FlowInOrder, Idle
  <2> QED BY <2>1, <2>2 DEF InOrder, FlowInOrder
<1>8. CASE RecreateEnds
  <2>1. /\ runtime' = "up" /\ OpsInOrder'
        /\ UNCHANGED <<pc, currentGroup, flowStatus, abortReason, rejected, runs>>
    <3>1. /\ runtime = "recreating"
          /\ runtime' \in {"up"} \cup (IF RuntimeMayFail THEN {"failed"} ELSE {})
          /\ UNCHANGED <<flowVars, stopVars, opVars, lockVars, groupVars>>
      BY <1>8 DEF RecreateEnds
    <3>2. ~RuntimeMayFail
      BY <3>1 DEF InOrder, FlowInOrder
    <3> QED BY <3>1, <3>2 DEF InOrder, OpsInOrder, flowVars, stopVars, opVars, lockVars, groupVars
  <2> QED BY <2>1 DEF InOrder, FlowInOrder
<1> QED BY <1>1, <1>2, <1>3, <1>4, <1>5, <1>6, <1>7, <1>8 DEF Next

Invariant == Typed /\ AbortReachesEveryRun /\ Unstarted /\ InOrder

LEMMA InvariantAlways ==
    ASSUME ~TeardownMayFail, GpuRuntime => ~RuntimeMayFail, ReleasedOnce
    PROVE  Spec => []Invariant
<1>1. Init => Invariant
  BY TypedInit, InOrderInit DEF Init, Invariant, AbortReachesEveryRun, Unstarted
<1>2. Invariant /\ [Next]_vars => Invariant'
  BY TypedNext, ToldNext, UnstartedNext, InOrderNext DEF Invariant
<1> QED BY <1>1, <1>2, PTL DEF Spec

\* Every run belongs to the active group, which awaits it, whatever is stopped, restarted
\* or released: start() does not move on, or end the flow, while an op still runs.
THEOREM EveryRunIsAwaitedAlways ==
    ASSUME ~TeardownMayFail, GpuRuntime => ~RuntimeMayFail, ReleasedOnce
    PROVE  Spec => []EveryRunIsAwaited
<1>1. Invariant => EveryRunIsAwaited
  BY DEF Invariant, InOrder, OpsInOrder, FlowInOrder, OneTracked, Idle, EveryRunIsAwaited
<1> QED BY <1>1, InvariantAlways, PTL

-------------------------------------------------------------------------------
(* ImplementsJobFlow                                                          *)

LEMMA PhaseIs ==
    /\ pc = "bootstrapped" => Phase = "ready"
    /\ pc = "group" => Phase = "running"
    /\ pc = "cleanup" => Phase = "cleaning"
    /\ pc \in {"done", "rejected"} => Phase = "over"
BY DEF Phase

LEMMA PhaseWillBe ==
    /\ pc' = pc => Phase' = Phase
    /\ pc' = "group" => Phase' = "running"
    /\ pc' = "cleanup" => Phase' = "cleaning"
    /\ pc' \in {"done", "rejected"} => Phase' = "over"
BY DEF Phase

LEMMA NoneWorking ==
    /\ (\A o \in Ops : Idle(o, runs)) => WorkingOps = {}
    /\ (\A o \in Ops : Idle(o, runs')) => WorkingOps' = {}
BY DEF WorkingOps, Idle, Working

\* While the group is active a step that leaves the flow alone is work, whatever it does
\* to the ops: what works after stop() has been told to end.
LEMMA Works ==
    ASSUME AbortReachesEveryRun', pc = "group",
           UNCHANGED <<pc, flowStatus, abortReason, stopLock>>
    PROVE  Flow!Work
<1>1. WorkingOps' \subseteq IF abortReason # "none" THEN {} ELSE Ops
  BY DEF AbortReachesEveryRun, WorkingOps
<1>2. FailedOps' \subseteq Ops
  BY DEF FailedOps
<1>3. Phase = "running" /\ Phase' = Phase
  BY PhaseIs, PhaseWillBe
<1> QED BY <1>1, <1>2, <1>3 DEF Flow!Work

\* The outcome is written when nothing is at work.
LEMMA Finishes ==
    ASSUME NEW st, FinishFlow(st), pc \in {"bootstrapped", "group"},
           \A o \in Ops : Idle(o, runs), UNCHANGED stopVars
    PROVE  Flow!Finish
<1>1. Phase \in {"ready", "running"} /\ Phase' = "cleaning"
  BY PhaseIs, PhaseWillBe DEF FinishFlow
<1>2. WorkingOps = {} /\ WorkingOps' = {}
  BY NoneWorking DEF FinishFlow
<1>3. FailedOps' = FailedOps
  BY DEF FailedOps, FinishFlow
<1>4. flowStatus' = IF FailedOps = {} THEN "success" ELSE "failed"
  BY DEF FinishFlow, FailedOps
<1>5. UNCHANGED <<abortReason, stopLock>>
  BY DEF stopVars
<1> QED BY <1>1, <1>2, <1>3, <1>4, <1>5 DEF Flow!Finish

LEMMA StartImplements ==
    ASSUME Invariant, Start
    PROVE  Flow!Begin \/ Flow!Finish
<1> DEFINE st == [o \in Ops |-> "pending"]
<1>1. /\ pc = "bootstrapped" /\ UNCHANGED <<abortReason, stopLock>>
      /\ \A o \in Ops : Idle(o, runs)
  BY DEF Start, stopVars, Invariant, InOrder, FlowInOrder
<1>2. CASE FinishFlow(st)
  <2> HIDE DEF st
  <2> QED BY <1>1, <1>2, Finishes DEF stopVars
<1>3. ASSUME NEW h, NEW bad, EnterGroup(h, st, bad)
      PROVE  Flow!Begin
  <2>1. Phase = "ready" /\ Phase' = "running" /\ flowStatus' = "running"
    BY <1>1, <1>3, PhaseIs, PhaseWillBe DEF EnterGroup
  <2>2. WorkingOps' \subseteq Ops /\ FailedOps' \subseteq Ops
    BY DEF WorkingOps, FailedOps
  <2> QED BY <1>1, <2>1, <2>2 DEF Flow!Begin
<1>4. Advance(st)
  BY DEF Start
<1> HIDE DEF st
<1> QED BY <1>2, <1>3, <1>4 DEF Advance

LEMMA GroupEndImplements ==
    ASSUME Invariant, Invariant', GroupEnd
    PROVE  Flow!Work \/ Flow!Finish
<1>1. pc = "group" /\ UNCHANGED <<abortReason, stopLock>>
  BY DEF GroupEnd, LoopDue, stopVars
<1>2. \A o \in Ops : Idle(o, runs)
  BY UntrackedIsIdle DEF GroupEnd, NothingTracked, Invariant, InOrder, OpsInOrder
<1>3. CASE FinishFlow(operationStatus)
  BY <1>1, <1>2, <1>3, Finishes DEF stopVars
<1>4. ASSUME NEW h, NEW bad, EnterGroup(h, operationStatus, bad)
      PROVE  Flow!Work
  <2>1. pc' = pc /\ flowStatus' = flowStatus
    BY <1>1, <1>4 DEF EnterGroup, Invariant, InOrder, FlowInOrder
  <2> QED BY <1>1, <2>1, Works DEF Invariant
<1> QED BY <1>3, <1>4 DEF GroupEnd, Advance

\* What is stopped while the containers are cleaned up ran to its end, or never ran.
LEMMA StopImplements ==
    ASSUME Invariant, Invariant', Serving, NEW T, NEW st, Stop(T, st)
    PROVE  Flow!Work \/ UNCHANGED Flow!vars
<1>1. UNCHANGED <<pc, flowStatus, abortReason, stopLock>>
  BY DEF Stop, flowVars, stopVars
<1>2. CASE pc = "group"
  BY <1>1, <1>2, Works DEF Invariant
<1>3. CASE pc # "group"
  <2>1. WorkingOps' = WorkingOps
    <3>1. \A o \in Ops : Idle(o, runs) /\ Idle(o, runs')
      BY <1>1, <1>3 DEF Invariant, InOrder, FlowInOrder
    <3> QED BY <3>1, NoneWorking
  <2>2. FailedOps' = FailedOps
    <3>1. ASSUME NEW o \in Ops
          PROVE  opState[o].status = "failed" <=> opState'[o].status = "failed"
      BY StopStateKeeps DEF Stop, Invariant, InOrder, OpsInOrder, Recorded, Typed
    <3> QED BY <3>1 DEF FailedOps
  <2>3. Phase' = Phase
    BY <1>1, PhaseWillBe
  <2> QED BY <1>1, <2>1, <2>2, <2>3 DEF Flow!vars
<1> QED BY <1>2, <1>3

LEMMA JobStopImplements ==
    ASSUME Invariant, Invariant', NEW reason \in JobStops, JobStop(reason)
    PROVE  Flow!Stop
<1>1. Phase \in {"running", "cleaning"} /\ Phase' = Phase
  BY PhaseIs, PhaseWillBe
  DEF JobStop, Serving, flowVars, Invariant, InOrder, FlowInOrder
<1>2. abortReason = "none" /\ abortReason' # "none" /\ flowStatus' = flowStatus /\ stopLock'
  BY KindAssumption DEF JobStop, flowVars, Invariant, InOrder, FlowInOrder
<1>3. WorkingOps' = {}
  BY <1>2 DEF WorkingOps, Invariant, AbortReachesEveryRun
<1>4. FailedOps \subseteq FailedOps'
  <2> SUFFICES ASSUME NEW o \in Ops, opState[o].status = "failed"
               PROVE  opState'[o].status = "failed"
    BY DEF FailedOps
  <2>1. opState[o].started
    BY <1>2 DEF Invariant, InOrder, OpsInOrder, Recorded
  <2> QED BY <2>1 DEF JobStop
<1>5. FailedOps' \subseteq Ops
  BY DEF FailedOps
<1>6. (abortReason # "none") = FALSE /\ (abortReason # "none")' = TRUE /\ stopLock' = TRUE
  BY <1>2 DEF JobStop, Invariant, InOrder, FlowInOrder
<1> QED BY <1>1, <1>2, <1>3, <1>4, <1>5, <1>6 DEF Flow!Stop

LEMMA RequestImplements ==
    ASSUME Invariant, Invariant', Request
    PROVE  Flow!Work \/ Flow!Stop \/ UNCHANGED Flow!vars
<1>1. CASE StopGroup \/ \E o \in Ops : StopOperation(o)
  BY <1>1, StopImplements DEF StopGroup, StopOperation
<1>2. CASE RestartGroup \/ \E o \in Ops : RestartOperation(o)
  <2>1. /\ pc = "group"
        /\ UNCHANGED <<pc, flowStatus, abortReason, stopLock>>
    BY <1>2 DEF RestartGroup, RestartOperation, Restart, flowVars, stopVars, Invariant, InOrder,
       FlowInOrder
  <2> QED BY <2>1, Works DEF Invariant
<1>3. CASE \E reason \in JobStops : JobStop(reason)
  BY <1>3, JobStopImplements
<1> QED BY <1>1, <1>2, <1>3 DEF Request

LEMMA RunStepImplements ==
    ASSUME Invariant, Invariant', NEW o \in Ops, NEW k \in Slots, RunStep(o, k)
    PROVE  Flow!Work \/ UNCHANGED Flow!vars
<1>1. /\ UNCHANGED <<pc, currentGroup, flowStatus, abortReason, stopLock, runtime>>
      /\ Timeout(o, k) \/ runs[o][k].phase # "free"
  BY RunStepFlow DEF Invariant, InOrder, FlowInOrder
<1>2. CASE pc = "group"
  BY <1>1, <1>2, Works DEF Invariant
<1>3. CASE pc # "group"
  <2>1. WorkingOps' = WorkingOps
    <3>1. \A p \in Ops : Idle(p, runs) /\ Idle(p, runs')
      BY <1>1, <1>3 DEF Invariant, InOrder, FlowInOrder
    <3> QED BY <3>1, NoneWorking
  <2>2. FailedOps' = FailedOps
    <3>1. Timeout(o, k)
      BY <1>1, <1>3 DEF Invariant, InOrder, FlowInOrder, Idle
    <3> QED BY <3>1 DEF Timeout, FailedOps
  <2>3. Phase' = Phase
    BY <1>1, PhaseWillBe
  <2> QED BY <1>1, <2>1, <2>2, <2>3 DEF Flow!vars
<1> QED BY <1>2, <1>3

LEMMA StepImplements ==
    ASSUME Invariant, Invariant', [Next]_vars
    PROVE  [Flow!Next]_Flow!vars
<1>1. CASE Start
  BY <1>1, StartImplements DEF Flow!Next
<1>2. CASE GroupEnd
  BY <1>2, GroupEndImplements DEF Flow!Next
<1>3. CASE Request
  BY <1>3, RequestImplements DEF Flow!Next
<1>4. CASE CleanUp
  <2>1. pc = "cleanup" /\ pc' = "done" /\ UNCHANGED <<flowStatus, abortReason, stopLock>>
    BY <1>4 DEF CleanUp, stopVars, Invariant, InOrder, FlowInOrder
  <2>2. WorkingOps' = WorkingOps /\ FailedOps' = FailedOps
    BY <1>4 DEF CleanUp, opVars, WorkingOps, FailedOps
  <2> QED BY <2>1, <2>2, PhaseIs, PhaseWillBe DEF Flow!CleanedUp, Flow!Next
<1>5. CASE StopReturns
  <2>1. /\ stopLock /\ stopLock' = FALSE /\ pc \in {"done", "rejected"}
        /\ UNCHANGED <<pc, flowStatus, abortReason>>
    BY <1>5 DEF StopReturns, flowVars
  <2>2. WorkingOps' = WorkingOps /\ FailedOps' = FailedOps
    BY <1>5 DEF StopReturns, opVars, WorkingOps, FailedOps
  <2> QED BY <2>1, <2>2, PhaseIs, PhaseWillBe DEF Flow!StopReturns, Flow!Next
<1>6. CASE FailFlow
  BY <1>6 DEF FailFlow, Invariant, InOrder, FlowInOrder
<1>7. CASE AwaitAgain \/ RecreateEnds \/ UNCHANGED vars
  <2>1. UNCHANGED <<pc, flowStatus, abortReason, stopLock, runs, opState>>
    BY <1>7 DEF AwaitAgain, RecreateEnds, vars, flowVars, stopVars, opVars
  <2> QED BY <2>1, PhaseWillBe DEF WorkingOps, FailedOps, Flow!vars
<1>8. ASSUME NEW o \in Ops, NEW k \in Slots, RunStep(o, k)
      PROVE  [Flow!Next]_Flow!vars
  BY <1>8, RunStepImplements DEF Flow!Next
<1>9. ASSUME NEW o \in Ops, NEW k \in Slots, RuntimeStep(o, k)
      PROVE  Flow!Next
  <2>1. /\ UNCHANGED <<pc, flowStatus, abortReason, stopLock>>
        /\ runs[o][k].phase # "free"
    BY <1>9, RuntimeStepKeeps DEF Invariant, InOrder
  <2>2. pc = "group"
    BY <2>1 DEF Invariant, InOrder, FlowInOrder, Idle
  <2> QED BY <2>1, <2>2, Works DEF Invariant, Flow!Next
<1> QED
  BY <1>1, <1>2, <1>3, <1>4, <1>5, <1>6, <1>7, <1>8, <1>9 DEF Next

\* A task manager implements what JobHandler relies on: start() writes the outcome of the
\* ops once, with nothing at work, and stop() leaves nothing at work and returns after it.
THEOREM TaskManagerImplementsJobFlow ==
    ASSUME ~TeardownMayFail, GpuRuntime => ~RuntimeMayFail, ReleasedOnce
    PROVE  Spec => ImplementsJobFlow
<1>1. Init => Flow!Init
  <2> SUFFICES ASSUME Init PROVE Flow!Init
    OBVIOUS
  <2>1. pc = "bootstrapped" /\ flowStatus = "init" /\ abortReason = "none" /\ stopLock = FALSE
    BY DEF Init
  <2>2. WorkingOps = {}
    BY NoneWorking DEF Init, Idle, NoRun
  <2>3. FailedOps = {}
    BY DEF Init, FailedOps
  <2> QED BY <2>1, <2>2, <2>3, PhaseIs DEF Flow!Init
<1>2. Invariant /\ Invariant' /\ [Next]_vars => [Flow!Next]_Flow!vars
  BY StepImplements
<1> QED BY <1>1, <1>2, InvariantAlways, PTL DEF Spec, ImplementsJobFlow, Flow!Spec

-------------------------------------------------------------------------------
(* The locks of stops and restarts, and the outcomes of ops.                  *)

\* A run that has been reported: podman holds a new one before it is, an older one to retry it.
AtWork(run) == run.phase \in Working /\ (run.phase = "ready" => run.retried)

\* A tracked promise is that of a run, the controller of a working run is in the map, and
\* what its op recorded is still open.
Tracks(rs, tr)    == \A o \in Ops : tr[o] # NoSlot => rs[o][tr[o]].phase # "free"
Controls(rs, ctl) == \A o \in Ops, k \in Slots : rs[o][k].phase \in Working => ctl[o] = k
Open(rs, os)      == \A o \in Ops, k \in Slots :
                        AtWork(rs[o][k]) => os[o].started /\ ~os[o].ended

Led(rs, os, ctl, tr) == Tracks(rs, tr) /\ Controls(rs, ctl) /\ Open(rs, os)

\* A lock comes with a promise that is awaited, and its run, if at work, was told to end.
Ending(o, rs, tr, fin) ==
    fin[o] # NoSlot => /\ fin[o] = tr[o]
                       /\ rs[o][tr[o]].phase \in Working => rs[o][tr[o]].abort # "none"

Locks(rs, tr, lock, fin) ==
    \A o \in Ops : (lock[o] = "none" <=> fin[o] = NoSlot) /\ Ending(o, rs, tr, fin)

\* Until stop() drops them, the restart blocks are those of the ops that are being restarted.
Blocks(hs, lock, abort) == abort = "none" => \A o \in Ops : o \in hs <=> lock[o] = "RESTARTING"

\* An op that runs has a run, which podman that meets it stale tells to end.
Running(st, rs) == \A o \in Ops : st[o] = "running" => \E k \in Slots : rs[o][k].phase \in Working

Ordered ==
    /\ Running(operationStatus, runs)
    /\ Led(runs, opState, abortControllerMap, tracked)
    /\ Locks(runs, tracked, lockedOperations, finaliser)
    /\ Blocks(holds, lockedOperations, abortReason)

-------------------------------------------------------------------------------
(* What the helpers keep.                                                     *)

LEMMA IdleIsUnlocked ==
    ASSUME NEW rs, NEW tr \in SlotMap, NEW lock, NEW fin, Tracks(rs, tr),
           Locks(rs, tr, lock, fin), NEW o \in Ops, Idle(o, rs)
    PROVE  tr[o] = NoSlot /\ fin[o] = NoSlot /\ lock[o] = "none"
<1>1. tr[o] = NoSlot
  BY DEF Tracks, SlotMap, Idle
<1> QED BY <1>1 DEF Locks, Ending

\* The ops that are launched have no run, and so no lock; the others are left alone.
LEMMA LaunchLed ==
    ASSUME NEW L \in SUBSET Ops, NEW bad, NEW notifies, NEW st, NEW os,
           NEW rs \in RunMap, NEW ctl, NEW tr \in SlotMap,
           Launch(L, bad, notifies, st, os, rs, ctl, tr),
           \A o \in L : Idle(o, rs), Led(rs, os, ctl, tr), Running(st, rs)
    PROVE  Led(runs', opState', abortControllerMap', tracked') /\ Running(operationStatus', runs')
<1>1. \A o \in Ops : LaunchPhase(o, bad) \in {"resolved", "ready", "creating"}
  BY DEF LaunchPhase
<1>2. ASSUME NEW o \in Ops \ L
      PROVE  /\ tracked'[o] = tr[o] /\ opState'[o] = os[o] /\ abortControllerMap'[o] = ctl[o]
             /\ operationStatus'[o] = st[o] /\ \A k \in Slots : runs'[o][k] = rs[o][k]
  BY DEF Launch, LaunchedTracked, LaunchedState, LaunchedStatus, LaunchedControllers, LaunchedRuns
<1>3. ASSUME NEW o \in L
      PROVE  /\ FreeSlot(o, rs) \in Slots
             /\ tracked'[o] = FreeSlot(o, rs)
             /\ runs'[o][FreeSlot(o, rs)].phase = LaunchPhase(o, bad)
             /\ ~runs'[o][FreeSlot(o, rs)].retried
             /\ \A k \in Slots \ {FreeSlot(o, rs)} : runs'[o][k].phase = "free"
             /\ LaunchPhase(o, bad) # "resolved" => abortControllerMap'[o] = FreeSlot(o, rs)
             /\ LaunchPhase(o, bad) = "creating" => opState'[o] = OpState("running", FALSE)
             /\ operationStatus'[o] = "running" => LaunchPhase(o, bad) = "creating"
  <2>1. FreeSlot(o, rs) \in Slots
    BY DEF Launch, FreeSlot
  <2>2. \A k \in Slots : runs'[o][k] = IF k = FreeSlot(o, rs)
                                       THEN NewRun(LaunchPhase(o, bad), notifies)
                                       ELSE [rs[o][k] EXCEPT !.muted = rs[o][k].phase # "free"]
    BY DEF Launch, LaunchedRuns
  <2>3. /\ NewRun(LaunchPhase(o, bad), notifies).phase = LaunchPhase(o, bad)
        /\ ~NewRun(LaunchPhase(o, bad), notifies).retried
    BY DEF NewRun, NoRun
  <2>4. \A k \in Slots :
           [rs[o][k] EXCEPT !.muted = rs[o][k].phase # "free"].phase = "free"
    BY DEF RunMap, Run, Idle
  <2>5. tracked'[o] = FreeSlot(o, rs)
    BY DEF Launch, LaunchedTracked
  <2>6. LaunchPhase(o, bad) # "resolved" => abortControllerMap'[o] = FreeSlot(o, rs)
    BY DEF Launch, LaunchedControllers
  <2>7. LaunchPhase(o, bad) = "creating" => opState'[o] = OpState("running", FALSE)
    BY DEF Launch, LaunchedState, LaunchPhase
  <2>8. \A k \in Slots \ {FreeSlot(o, rs)} : runs'[o][k].phase = "free"
    BY <2>2, <2>4
  <2>9. /\ runs'[o][FreeSlot(o, rs)].phase = LaunchPhase(o, bad)
        /\ ~runs'[o][FreeSlot(o, rs)].retried
    BY <2>1, <2>2, <2>3
  <2>10. operationStatus'[o] = "running" => LaunchPhase(o, bad) = "creating"
    <3>1. st[o] # "running"
      BY DEF Running, Idle, Working
    <3> QED BY <3>1 DEF Launch, LaunchedStatus
  <2> QED BY <2>1, <2>5, <2>6, <2>7, <2>8, <2>9, <2>10
<1>4. Tracks(runs', tracked')
  <2> SUFFICES ASSUME NEW o \in Ops, tracked'[o] # NoSlot
               PROVE  runs'[o][tracked'[o]].phase # "free"
    BY DEF Tracks
  <2>1. CASE o \in L
    BY <1>1, <1>3, <2>1
  <2>2. CASE o \notin L
    BY <1>2, <2>2 DEF Led, Tracks, SlotMap
  <2> QED BY <2>1, <2>2
<1>5. Controls(runs', abortControllerMap')
  <2> SUFFICES ASSUME NEW o \in Ops, NEW k \in Slots, runs'[o][k].phase \in Working
               PROVE  abortControllerMap'[o] = k
    BY DEF Controls
  <2>1. CASE o \in L
    BY <1>1, <1>3, <2>1 DEF Working
  <2>2. CASE o \notin L
    BY <1>2, <2>2 DEF Led, Controls
  <2> QED BY <2>1, <2>2
<1>6. Open(runs', opState')
  <2> SUFFICES ASSUME NEW o \in Ops, NEW k \in Slots, AtWork(runs'[o][k])
               PROVE  opState'[o].started /\ ~opState'[o].ended
    BY DEF Open
  <2>1. CASE o \in L
    BY <1>1, <1>3, <2>1 DEF AtWork, Working, OpState
  <2>2. CASE o \notin L
    BY <1>2, <2>2 DEF Led, Open
  <2> QED BY <2>1, <2>2
<1>7. Running(operationStatus', runs')
  <2> SUFFICES ASSUME NEW o \in Ops, operationStatus'[o] = "running"
               PROVE  \E k \in Slots : runs'[o][k].phase \in Working
    BY DEF Running
  <2>1. CASE o \in L
    BY <1>3, <2>1 DEF Working
  <2>2. CASE o \notin L
    BY <1>2, <2>2 DEF Running
  <2> QED BY <2>1, <2>2
<1> QED BY <1>4, <1>5, <1>6, <1>7 DEF Led

LEMMA LaunchLocks ==
    ASSUME NEW L \in SUBSET Ops, NEW bad, NEW notifies, NEW st, NEW os,
           NEW rs, NEW ctl, NEW tr \in SlotMap,
           Launch(L, bad, notifies, st, os, rs, ctl, tr),
           \A o \in L : Idle(o, rs), Tracks(rs, tr),
           NEW lock, NEW fin, Locks(rs, tr, lock, fin)
    PROVE  Locks(runs', tracked', lock, fin)
<1>1. ASSUME NEW o \in Ops \ L
      PROVE  tracked'[o] = tr[o] /\ \A k \in Slots : runs'[o][k] = rs[o][k]
  BY DEF Launch, LaunchedTracked, LaunchedRuns
<1> SUFFICES ASSUME NEW o \in Ops PROVE Ending(o, runs', tracked', fin)
  BY DEF Locks
<1>2. CASE o \in L
  BY <1>2, IdleIsUnlocked DEF Ending
<1>3. CASE o \notin L
  BY <1>1, <1>3 DEF Locks, Ending, SlotMap
<1> QED BY <1>2, <1>3

\* A run goes on, or leaves its work behind and closes what it recorded.
LEMMA RunLed ==
    ASSUME NEW rs, NEW os, NEW ctl, NEW tr \in SlotMap, Led(rs, os, ctl, tr),
           NEW o \in Ops, NEW k \in Slots, NEW rs2, NEW os2, NEW ctl2,
           OneTracked(rs2, tr), rs2[o][k].phase # "free",
           rs2[o][k].phase \in Working => rs[o][k].phase \in Working /\ ctl2[o] = ctl[o],
           AtWork(rs2[o][k]) => os2[o].started /\ ~os2[o].ended,
           \A p \in Ops \ {o} : /\ os2[p] = os[p] /\ ctl2[p] = ctl[p]
                                /\ \A j \in Slots : rs2[p][j] = rs[p][j]
    PROVE  Led(rs2, os2, ctl2, tr)
<1>1. tr[o] = k /\ \A j \in Slots : rs2[o][j].phase # "free" => j = k
  BY DEF OneTracked
<1>2. Tracks(rs2, tr)
  BY <1>1 DEF Led, Tracks, SlotMap
<1>3. Controls(rs2, ctl2)
  BY <1>1 DEF Led, Controls, Working
<1>4. Open(rs2, os2)
  BY <1>1 DEF Led, Open, AtWork, Working
<1> QED BY <1>2, <1>3, <1>4 DEF Led

LEMMA RunLocks ==
    ASSUME NEW rs, NEW tr \in SlotMap, NEW lock, NEW fin, Locks(rs, tr, lock, fin),
           NEW o \in Ops, NEW k \in Slots, NEW rs2,
           OneTracked(rs2, tr), rs2[o][k].phase # "free",
           rs2[o][k].phase \in Working => /\ rs[o][k].phase \in Working
                                          /\ rs2[o][k].abort = rs[o][k].abort,
           \A p \in Ops \ {o}, j \in Slots : rs2[p][j] = rs[p][j]
    PROVE  Locks(rs2, tr, lock, fin)
<1>1. tr[o] = k
  BY DEF OneTracked
<1> SUFFICES ASSUME NEW p \in Ops PROVE Ending(p, rs2, tr, fin)
  BY DEF Locks
<1>2. CASE p = o
  BY <1>1, <1>2 DEF Locks, Ending
<1>3. CASE p # o
  BY <1>3 DEF Locks, Ending, SlotMap
<1> QED BY <1>2, <1>3

\* An abort changes no phase, and takes none back.
LEMMA ToldLed ==
    ASSUME NEW rs, NEW os, NEW ctl, NEW tr \in SlotMap, NEW lock, NEW fin,
           Led(rs, os, ctl, tr), Locks(rs, tr, lock, fin), NEW rs2,
           \A o \in Ops, k \in Slots :
              /\ rs2[o][k].phase = rs[o][k].phase /\ rs2[o][k].retried = rs[o][k].retried
              /\ rs[o][k].abort # "none" => rs2[o][k].abort # "none"
    PROVE  Led(rs2, os, ctl, tr) /\ Locks(rs2, tr, lock, fin)
<1>1. Tracks(rs2, tr) /\ Controls(rs2, ctl) /\ Open(rs2, os)
  BY DEF Led, Tracks, Controls, Open, AtWork, SlotMap
<1>2. Locks(rs2, tr, lock, fin)
  BY DEF Locks, Ending, SlotMap
<1> QED BY <1>1, <1>2 DEF Led

LEMMA AbortRunTells ==
    ASSUME NEW run \in Run, NEW reason \in Reasons
    PROVE  /\ AbortRun(run, reason).phase = run.phase /\ AbortRun(run, reason).retried = run.retried
           /\ run.abort # "none" => AbortRun(run, reason).abort # "none"
           /\ run.phase \in Working /\ reason # "none" => AbortRun(run, reason).abort # "none"
BY DEF AbortRun, Run, Reasons

LEMMA AbortedTells ==
    ASSUME NEW rs \in RunMap, NEW T \in SUBSET Ops, NEW reason \in Reasons \ {"none"},
           Controls(rs, abortControllerMap), NEW o \in Ops, NEW k \in Slots
    PROVE  /\ AbortedRuns(T, rs, reason)[o][k].phase = rs[o][k].phase
           /\ AbortedRuns(T, rs, reason)[o][k].retried = rs[o][k].retried
           /\ rs[o][k].abort # "none" => AbortedRuns(T, rs, reason)[o][k].abort # "none"
           /\ o \in T /\ rs[o][k].phase \in Working
                => AbortedRuns(T, rs, reason)[o][k].abort # "none"
<1>1. rs[o][k] \in Run
  BY DEF RunMap
<1>2. AbortedRuns(T, rs, reason)[o][k] = IF o \in T /\ abortControllerMap[o] = k
                                         THEN AbortRun(rs[o][k], reason) ELSE rs[o][k]
  BY DEF AbortedRuns
<1> QED BY <1>1, <1>2, AbortRunTells DEF Controls

\* The ops of T, none of which is locked, get the locks of a stop or restart and are told.
LEMMA LockLed ==
    ASSUME NEW rs \in RunMap, NEW os, NEW tr \in SlotMap, NEW lock, NEW fin,
           Led(rs, os, abortControllerMap, tr), Locks(rs, tr, lock, fin),
           NEW T \in SUBSET Ops, \A o \in T : lock[o] = "none", NEW S \in SUBSET T,
           \A o \in T \ S : tr[o] = NoSlot,
           NEW reason \in Reasons \ {"none"}, NEW how \in {"STOPPING", "RESTARTING"}
    PROVE  /\ Led(AbortedRuns(T, rs, reason), os, abortControllerMap, tr)
           /\ Locks(AbortedRuns(T, rs, reason), tr, Locked(S, tr, lock, how),
                    Finalisers(S, tr, fin))
<1> DEFINE told == AbortedRuns(T, rs, reason)
<1>1. \A o \in Ops, k \in Slots :
         /\ told[o][k].phase = rs[o][k].phase /\ told[o][k].retried = rs[o][k].retried
         /\ rs[o][k].abort # "none" => told[o][k].abort # "none"
         /\ o \in T /\ rs[o][k].phase \in Working => told[o][k].abort # "none"
  BY AbortedTells DEF Led
<1> HIDE DEF told
<1>2. Led(told, os, abortControllerMap, tr) /\ Locks(told, tr, lock, fin)
  BY <1>1, ToldLed
<1>3. ASSUME NEW o \in Ops
      PROVE  /\ Locked(S, tr, lock, how)[o] = "none" <=> Finalisers(S, tr, fin)[o] = NoSlot
             /\ Ending(o, told, tr, Finalisers(S, tr, fin))
  <2>1. CASE o \in S /\ tr[o] # NoSlot
    <3>1. Locked(S, tr, lock, how)[o] = how /\ Finalisers(S, tr, fin)[o] = tr[o]
      BY <2>1 DEF Locked, Finalisers
    <3>2. tr[o] \in Slots
      BY <2>1 DEF SlotMap
    <3> QED BY <1>1, <2>1, <3>1, <3>2 DEF Ending
  <2>2. CASE ~(o \in S /\ tr[o] # NoSlot)
    <3>1. Locked(S, tr, lock, how)[o] = lock[o] /\ Finalisers(S, tr, fin)[o] = fin[o]
      BY <2>2 DEF Locked, Finalisers
    <3> QED BY <1>2, <3>1 DEF Locks, Ending
  <2> QED BY <2>1, <2>2
<1>4. Locks(told, tr, Locked(S, tr, lock, how), Finalisers(S, tr, fin))
  BY <1>3 DEF Locks
<1> QED BY <1>2, <1>4 DEF told

\* A run is gone, and with it the promise, the lock and what awaited it.
LEMMA DropLed ==
    ASSUME NEW rs, NEW os, NEW ctl, NEW tr \in SlotMap, NEW lock, NEW fin,
           Led(rs, os, ctl, tr), Locks(rs, tr, lock, fin),
           NEW o \in Ops, NEW rs2, NEW tr2, NEW lock2, NEW fin2,
           Idle(o, rs2), tr2[o] = NoSlot, lock2[o] = "none", fin2[o] = NoSlot,
           \A p \in Ops \ {o} : /\ \A j \in Slots : rs2[p][j] = rs[p][j]
                                /\ tr2[p] = tr[p] /\ lock2[p] = lock[p] /\ fin2[p] = fin[p]
    PROVE  Led(rs2, os, ctl, tr2) /\ Locks(rs2, tr2, lock2, fin2)
<1>1. ASSUME NEW p \in Ops, tr2[p] # NoSlot
      PROVE  p # o /\ tr2[p] = tr[p] /\ rs2[p][tr2[p]] = rs[p][tr[p]]
  BY <1>1 DEF SlotMap
<1>2. Tracks(rs2, tr2)
  BY <1>1 DEF Led, Tracks
<1>3. ASSUME NEW p \in Ops, NEW j \in Slots, rs2[p][j].phase \in Working
      PROVE  p # o /\ rs2[p][j] = rs[p][j]
  BY <1>3 DEF Idle, Working
<1>4. Controls(rs2, ctl) /\ Open(rs2, os)
  BY <1>3 DEF Led, Controls, Open, AtWork
<1>5. Locks(rs2, tr2, lock2, fin2)
  <2> SUFFICES ASSUME NEW p \in Ops
               PROVE  (lock2[p] = "none" <=> fin2[p] = NoSlot) /\ Ending(p, rs2, tr2, fin2)
    BY DEF Locks
  <2>1. CASE p = o
    BY <2>1 DEF Ending
  <2>2. CASE p # o
    BY <1>1, <2>2 DEF Locks, Ending
  <2> QED BY <2>1, <2>2
<1> QED BY <1>2, <1>4, <1>5 DEF Led

\* A stop that finds no promise ends what is still open of an op that has no run.
LEMMA StopStateLed ==
    ASSUME NEW rs, NEW os \in StateMap, NEW ctl, NEW tr, NEW T,
           Led(rs, os, ctl, tr), OneTracked(rs, tr)
    PROVE  /\ Led(rs, StopState(T, tr, os), ctl, tr)
           /\ \A o \in Ops : os[o].ended => StopState(T, tr, os)[o] = os[o]
<1>1. ASSUME NEW o \in Ops, NEW k \in Slots, rs[o][k].phase \in Working
      PROVE  StopState(T, tr, os)[o] = os[o]
  BY <1>1, PlanAssumption DEF StopState, OneTracked, Working, Slots, NoSlot
<1>2. \A o \in Ops : os[o].ended => StopState(T, tr, os)[o] = os[o]
  BY DEF StopState, EndedAsStopped
<1> QED BY <1>1, <1>2 DEF Led, Open, AtWork

LEMMA RunningKept ==
    ASSUME NEW st, NEW rs, Running(st, rs), NEW st2, NEW rs2,
           \A o \in Ops : st2[o] = "running" =>
              /\ st[o] = "running"
              /\ \A k \in Slots : rs[o][k].phase \in Working => rs2[o][k].phase \in Working
    PROVE  Running(st2, rs2)
BY DEF Running

\* What an op recorded stands, or is rewritten by the run a restart starts.
Rewritten(o) == opState[o].started /\ opState[o].ended /\ opState'[o] # opState[o]

Stands == \A o \in Ops : ~Rewritten(o)

RewritesToRestart == \A o \in Ops : Rewritten(o) => lockedOperations[o] = "RESTARTING"

-------------------------------------------------------------------------------
(* The actions.                                                               *)

LEMMA AdvanceOrdered ==
    ASSUME Typed, Ordered, \A o \in Ops : Idle(o, runs),
           NEW st, Advance(st), Queued(st, opState, runs, abortReason), Running(st, runs),
           UNCHANGED <<stopVars, lockVars, holds>>
    PROVE  Ordered' /\ Stands
<1>1. UNCHANGED <<lockedOperations, finaliser, holds, abortReason>>
  BY DEF lockVars, stopVars
<1>2. CASE FinishFlow(st)
  <2>1. \A o \in Ops : operationStatus'[o] = "running" => st[o] = "running"
    BY <1>2 DEF FinishFlow, QueuedStatus
  <2>2. Running(operationStatus', runs')
    BY <1>2, <2>1, RunningKept DEF FinishFlow
  <2> QED BY <1>1, <1>2, <2>2 DEF FinishFlow, Ordered, Stands, Rewritten
<1>3. ASSUME NEW h, NEW bad, EnterGroup(h, st, bad)
      PROVE  Ordered' /\ Stands
  <2> DEFINE L == Startable(h, st)
             queued == QueuedStatus(currentGroup, h, st)
  <2>1. Launch(L, bad, TRUE, queued, opState, runs, abortControllerMap, tracked)
    BY <1>3 DEF EnterGroup
  <2>2. L \in SUBSET Ops /\ \A o \in L : ~opState[o].started
    BY DEF Startable, Queued, Unqueued
  <2> Running(queued, runs)
    BY RunningKept DEF QueuedStatus
  <2> HIDE DEF L, queued
  <2>3. /\ runs \in RunMap /\ tracked \in SlotMap /\ \A o \in L : Idle(o, runs)
        /\ Led(runs, opState, abortControllerMap, tracked)
        /\ Locks(runs, tracked, lockedOperations, finaliser)
    BY <2>2 DEF Ordered, Typed
  <2>4. /\ Led(runs', opState', abortControllerMap', tracked')
        /\ Running(operationStatus', runs')
    BY <2>1, <2>2, <2>3, LaunchLed
  <2>5. Locks(runs', tracked', lockedOperations, finaliser)
    BY <2>1, <2>2, <2>3, LaunchLocks DEF Led
  <2>6. \A o \in Ops \ L : opState'[o] = opState[o]
    BY <2>1 DEF Launch, LaunchedState
  <2> QED BY <1>1, <2>2, <2>4, <2>5, <2>6 DEF Ordered, Stands, Rewritten
<1> QED BY <1>2, <1>3 DEF Advance

LEMMA StopOrdered ==
    ASSUME Typed, InOrder, Ordered, NEW T \in SUBSET Ops,
           \A o \in T : lockedOperations[o] = "none", NEW st, Stop(T, st), Running(st, runs)
    PROVE  Ordered' /\ Stands
<1>1. /\ Led(runs', opState, abortControllerMap, tracked)
      /\ Locks(runs', tracked, lockedOperations', finaliser')
  <2>1. /\ runs' = AbortedRuns(T, runs, "stopped")
        /\ lockedOperations' = Locked(T, tracked, lockedOperations, "STOPPING")
        /\ finaliser' = Finalisers(T, tracked, finaliser)
    BY DEF Stop
  <2> QED BY <2>1, LockLed DEF Ordered, Typed, Reasons
<1>2. OneTracked(runs', tracked)
  BY AbortedKeeps DEF Stop, InOrder, OpsInOrder, Typed
<1>3. /\ UNCHANGED <<abortControllerMap, tracked, holds, abortReason>>
      /\ opState' = StopState(T, tracked, opState)
  BY DEF Stop, stopVars, groupVars
<1>4. Led(runs', opState', abortControllerMap', tracked') /\ Stands
  BY <1>1, <1>2, <1>3, StopStateLed DEF Typed, Stands, Rewritten
<1>5. Blocks(holds', lockedOperations', abortReason')
  BY <1>3 DEF Stop, Locked, Ordered, Blocks
<1>6. Running(operationStatus', runs')
  <2>1. \A o \in Ops : operationStatus'[o] = "running" => st[o] = "running"
    BY DEF Stop, StopStatus
  <2>2. \A o \in Ops, k \in Slots : runs'[o][k].phase = runs[o][k].phase
    BY AbortedPhases DEF Stop, Typed
  <2> QED BY <2>1, <2>2, RunningKept
<1> QED BY <1>1, <1>3, <1>4, <1>5, <1>6 DEF Ordered

\* A restart request, and the one of podman when run rs of an op has met it stale.
LEMMA RestartOrdered ==
    ASSUME Typed, OpsInOrder, Blocks(holds, lockedOperations, abortReason),
           NEW T \in SUBSET Ops, \A o \in T : lockedOperations[o] = "none",
           NEW rs \in RunMap, OneTracked(rs, tracked), RunsCalm(rs),
           Led(rs, opState, abortControllerMap, tracked),
           Locks(rs, tracked, lockedOperations, finaliser), Running(operationStatus, rs),
           Restart(T, rs)
    PROVE  /\ Ordered'
           /\ \A o \in Ops : o \notin T \/ tracked[o] # NoSlot => opState'[o] = opState[o]
<1> DEFINE now     == {o \in T : tracked[o] = NoSlot}
           later   == T \ now
           st      == [o \in Ops |-> IF o \in T THEN "restarting" ELSE operationStatus[o]]
           aborted == AbortedRuns(T, rs, "restart")
<1>1. PICK bad : Launch(now, bad, FALSE, st, opState, aborted, abortControllerMap, tracked)
  BY DEF Restart
<1>2. /\ now \in SUBSET Ops /\ later \in SUBSET T /\ \A o \in T \ later : tracked[o] = NoSlot
      /\ lockedOperations' = Locked(later, tracked, lockedOperations, "RESTARTING")
      /\ finaliser' = Finalisers(later, tracked, finaliser)
      /\ abortReason' = abortReason /\ holds' = holds \cup later
  BY DEF Restart, stopVars
<1>3. aborted \in RunMap /\ OneTracked(aborted, tracked)
  BY AbortedRunsType, AbortedKeeps DEF Reasons
<1>4. \A o \in now : Idle(o, aborted)
  <2> HIDE DEF aborted
  <2> QED BY <1>3, UntrackedIsIdle
<1>5. Blocks(holds', lockedOperations', abortReason')
  BY <1>2 DEF Locked, Blocks
<1> Running(st, aborted)
  <2>1. \A o \in Ops : st[o] = "running" => operationStatus[o] = "running"
    OBVIOUS
  <2>2. \A o \in Ops, k \in Slots : aborted[o][k].phase = rs[o][k].phase
    BY AbortedPhases
  <2> HIDE DEF st, aborted
  <2> QED BY <2>1, <2>2, RunningKept
<1> HIDE DEF later, st
<1>6. /\ Led(aborted, opState, abortControllerMap, tracked)
      /\ Locks(aborted, tracked, lockedOperations', finaliser')
  BY <1>2, LockLed DEF Typed, Reasons
<1> HIDE DEF aborted
<1>7. /\ Led(runs', opState', abortControllerMap', tracked')
      /\ Locks(runs', tracked', lockedOperations', finaliser')
      /\ Running(operationStatus', runs')
      /\ \A o \in Ops \ now : opState'[o] = opState[o]
  <2> HIDE DEF now
  <2>1. tracked \in SlotMap
    BY DEF Typed
  <2>2. Led(runs', opState', abortControllerMap', tracked') /\ Running(operationStatus', runs')
    BY <1>1, <1>2, <1>3, <1>4, <1>6, <2>1, LaunchLed
  <2>3. Locks(runs', tracked', lockedOperations', finaliser')
    BY <1>1, <1>2, <1>4, <1>6, <2>1, LaunchLocks DEF Led
  <2>4. \A o \in Ops \ now : opState'[o] = opState[o]
    BY <1>1 DEF Launch, LaunchedState
  <2> QED BY <2>2, <2>3, <2>4
<1> QED BY <1>5, <1>7 DEF Ordered

LEMMA JobStopOrdered ==
    ASSUME Typed, Ordered, NEW reason \in JobStops, JobStop(reason)
    PROVE  Ordered' /\ Stands
<1>1. abortReason' # "none"
  BY KindAssumption DEF JobStop
<1>2. ASSUME NEW o \in Ops, NEW k \in Slots
      PROVE  /\ runs'[o][k].phase = runs[o][k].phase /\ runs'[o][k].retried = runs[o][k].retried
             /\ runs[o][k].abort # "none" => runs'[o][k].abort # "none"
  <2>1. runs[o][k] \in Run /\ reason \in Reasons
    BY KindAssumption DEF Typed, RunMap, Reasons
  <2>2. runs'[o][k] = AbortRun(runs[o][k], reason)
    BY DEF JobStop
  <2> QED BY <2>1, <2>2, AbortRunTells
<1>3. UNCHANGED <<abortControllerMap, tracked, lockedOperations, finaliser>>
  BY DEF JobStop, lockVars
<1>4. /\ Led(runs', opState, abortControllerMap, tracked)
      /\ Locks(runs', tracked, lockedOperations, finaliser)
  BY <1>2, ToldLed DEF Ordered, Typed
<1>5. \A o \in Ops : opState[o].started => opState'[o] = opState[o]
  BY DEF JobStop
<1>6. Open(runs', opState') /\ Stands
  BY <1>4, <1>5 DEF Led, Open, Stands, Rewritten
<1>7. Running(operationStatus', runs')
  <2>1. \A o \in Ops : operationStatus'[o] = "running" => operationStatus[o] = "running"
    BY DEF JobStop
  <2> QED BY <1>2, <2>1, RunningKept DEF Ordered
<1> QED BY <1>1, <1>3, <1>4, <1>6, <1>7 DEF Ordered, Led, Blocks

\* A step of a run in which nothing is launched: what is left of it was at work before.
LEMMA RunGoesOn ==
    ASSUME Typed, OpsInOrder, Ordered, NEW o \in Ops, NEW k \in Slots, Moved(o, k, runs'),
           UNCHANGED <<tracked, lockVars, holds, abortReason>>,
           runs'[o][k].phase # "free",
           runs'[o][k].phase \in Working =>
              /\ runs[o][k].phase \in Working /\ runs'[o][k].abort = runs[o][k].abort
              /\ abortControllerMap'[o] = abortControllerMap[o],
           AtWork(runs'[o][k]) => \/ AtWork(runs[o][k]) /\ opState'[o] = opState[o]
                                  \/ opState'[o].started /\ ~opState'[o].ended,
           operationStatus'[o] = "running" =>
              \/ runs'[o][k].phase \in Working
              \/ operationStatus[o] = "running" /\ runs[o][k].phase \notin Working,
           \A p \in Ops \ {o} : /\ operationStatus'[p] = operationStatus[p]
                                /\ opState'[p] = opState[p]
                                /\ abortControllerMap'[p] = abortControllerMap[p]
    PROVE  /\ Ordered'
           /\ \A p \in Ops \ {o} : ~Rewritten(p)
           /\ opState'[o] = opState[o] \/ AtWork(runs[o][k]) => Stands
<1>1. UNCHANGED <<lockedOperations, finaliser, holds, abortReason, tracked>>
  BY DEF lockVars
<1>2. /\ tracked \in SlotMap /\ OneTracked(runs, tracked) /\ OneTracked(runs', tracked)
      /\ Led(runs, opState, abortControllerMap, tracked)
      /\ Locks(runs, tracked, lockedOperations, finaliser)
      /\ \A p \in Ops \ {o}, j \in Slots : runs'[p][j] = runs[p][j]
  BY MovedKeeps DEF Ordered, Typed, OpsInOrder, Moved
<1>3. AtWork(runs'[o][k]) => opState'[o].started /\ ~opState'[o].ended
  BY <1>2 DEF Led, Open
<1>4. Led(runs', opState', abortControllerMap', tracked')
  BY <1>1, <1>2, <1>3, RunLed
<1>5. Locks(runs', tracked, lockedOperations, finaliser)
  BY <1>2, RunLocks
<1>6. Running(operationStatus', runs')
  <2> SUFFICES ASSUME NEW p \in Ops, operationStatus'[p] = "running"
               PROVE  \E j \in Slots : runs'[p][j].phase \in Working
    BY DEF Running
  <2>1. CASE p # o
    BY <1>2, <2>1 DEF Ordered, Running
  <2>2. CASE p = o
    <3>1. \A j \in Slots : runs[o][j].phase \in Working => j = k
      BY <1>2 DEF OneTracked, Moved, Working
    <3> QED BY <2>2, <3>1 DEF Ordered, Running
  <2> QED BY <2>1, <2>2
<1>7. /\ \A p \in Ops \ {o} : ~Rewritten(p)
      /\ opState'[o] = opState[o] \/ AtWork(runs[o][k]) => Stands
  BY <1>2 DEF Stands, Rewritten, Led, Open
<1> QED BY <1>1, <1>4, <1>5, <1>6, <1>7 DEF Ordered

LEMMA MovedRun ==
    ASSUME runs \in RunMap, NEW o \in Ops, NEW k \in Slots, NEW phase
    PROVE  /\ MoveRun(o, k, phase)[o][k].phase = phase
           /\ MoveRun(o, k, phase)[o][k].abort = runs[o][k].abort
           /\ MoveRun(o, k, phase)[o][k].retried = runs[o][k].retried
           /\ \A p \in Ops \ {o}, j \in Slots : MoveRun(o, k, phase)[p][j] = runs[p][j]
BY DEF MoveRun, RunMap, Run

LEMMA SetRun ==
    ASSUME NEW rs \in RunMap, NEW o \in Ops, NEW k \in Slots, NEW b
    PROVE  /\ [rs EXCEPT ![o][k].armed = b][o][k].phase = rs[o][k].phase
           /\ [rs EXCEPT ![o][k].armed = b][o][k].abort = rs[o][k].abort
           /\ [rs EXCEPT ![o][k].armed = b][o][k].retried = rs[o][k].retried
           /\ [rs EXCEPT ![o][k].retried = b][o][k].phase = rs[o][k].phase
           /\ [rs EXCEPT ![o][k].retried = b][o][k].abort = rs[o][k].abort
           /\ \A p \in Ops \ {o}, j \in Slots :
                 /\ [rs EXCEPT ![o][k].armed = b][p][j] = rs[p][j]
                 /\ [rs EXCEPT ![o][k].retried = b][p][j] = rs[p][j]
BY DEF RunMap, Run

\* What a run reports of its op is said of no other.
LEMMA ReportsOfOne ==
    ASSUME Typed, OpsInOrder, NEW o \in Ops, NEW k \in Slots, NEW status, NEW state,
           Reports(o, k, status, state)
    PROVE  /\ operationStatus'[o] = status /\ opState'[o] = state
           /\ \A p \in Ops \ {o} : operationStatus'[p] = operationStatus[p]
                                   /\ opState'[p] = opState[p]
<1>1. ~runs[o][k].muted
  BY DEF OpsInOrder, RunsCalm, CalmRun
<1> QED BY <1>1 DEF Reports, Typed, StatusMap, StateMap

LEMMA EndInErrorOrdered ==
    ASSUME Typed, OpsInOrder, Ordered, NEW o \in Ops, NEW k \in Slots,
           AtWork(runs[o][k]), NEW reason, EndInError(o, k, reason)
    PROVE  Ordered' /\ Stands
<1> DEFINE phase  == IF o \in Volumes THEN "resolved" ELSE "teardown"
           status == IF reason = "none" THEN "failed" ELSE "stopped"
           state  == OpState(Outcome(reason, "failed"), TRUE)
<1>1. ~runs[o][k].muted
  BY DEF OpsInOrder, RunsCalm, CalmRun
<1>2. /\ runs' = [MoveRun(o, k, phase) EXCEPT ![o][k].armed = FALSE]
      /\ Reports(o, k, status, state)
      /\ abortControllerMap' = [abortControllerMap EXCEPT ![o] = NoSlot]
      /\ UNCHANGED <<tracked, lockVars, holds, abortReason>>
  BY <1>1 DEF EndInError, stopVars, groupVars
<1>3. phase \notin Working \cup {"free"} /\ phase \in Phases /\ status # "running"
  BY DEF Working, Phases
<1>4. MoveRun(o, k, phase) \in RunMap
  BY <1>3, MoveRunType DEF Typed
<1>5. runs'[o][k].phase = phase
  BY <1>2, <1>4, SetRun, MovedRun DEF Typed
<1>6. /\ operationStatus'[o] # "running"
      /\ \A p \in Ops \ {o} : /\ operationStatus'[p] = operationStatus[p]
                              /\ opState'[p] = opState[p]
                              /\ abortControllerMap'[p] = abortControllerMap[p]
  BY <1>2, <1>3, ReportsOfOne DEF Typed, SlotMap
<1>7. Moved(o, k, runs')
  BY EndInErrorKeeps DEF AtWork, Working
<1>8. runs'[o][k].phase # "free" /\ runs'[o][k].phase \notin Working /\ ~AtWork(runs'[o][k])
  BY <1>3, <1>5 DEF AtWork
<1> HIDE DEF phase, status, state
<1> QED BY <1>2, <1>6, <1>7, <1>8, RunGoesOn

LEMMA StartupSuccessOrdered ==
    ASSUME ReleasedOnce, Typed, OpsInOrder, Ordered, NEW o \in Ops, NEW k \in Slots,
           StartupSuccess(o, k)
    PROVE  Ordered' /\ Stands
<1> DEFINE L  == Released(o, k)
           rs == MoveRun(o, k, "up")
<1>1. PICK bad : Launch(L, bad, TRUE, operationStatus, opState, rs, abortControllerMap, tracked)
  BY DEF StartupSuccess
<1>2. /\ runs[o][k].phase \in {"started", "up"}
      /\ runs[o][k].phase = "up" => o \in Probed
      /\ UNCHANGED <<lockedOperations, finaliser, holds, abortReason>>
  BY DEF StartupSuccess, InPhase, stopVars, lockVars, groupVars
<1>3. Moved(o, k, rs)
  BY <1>2, MoveIsMoved DEF OpsInOrder, Typed, Phases, Early
<1>4. /\ rs \in RunMap /\ OneTracked(rs, tracked)
      /\ \A p \in Ops : Idle(p, runs) => Idle(p, rs)
  BY <1>3, MovedKeeps DEF OpsInOrder
<1>5. /\ rs[o][k].phase = "up" /\ rs[o][k].abort = runs[o][k].abort
      /\ \A p \in Ops \ {o}, j \in Slots : rs[p][j] = runs[p][j]
  BY MovedRun DEF Typed
<1>6. L \in SUBSET Ops /\ \A p \in L : ~opState[p].started /\ Idle(p, rs)
  <2>1. \A p \in L : p \in Ops /\ operationStatus[p] \in Unqueued /\ Idle(p, runs)
    BY <1>2, ReleasedIsIdle
  <2> HIDE DEF L, rs
  <2> QED BY <1>4, <2>1 DEF OpsInOrder, Queued
<1> HIDE DEF L, rs
<1>7. /\ tracked \in SlotMap
      /\ Led(runs, opState, abortControllerMap, tracked)
      /\ Locks(runs, tracked, lockedOperations, finaliser)
      /\ AtWork(runs[o][k]) /\ runs[o][k].phase \in Working
  BY <1>2 DEF Ordered, Typed, AtWork, Working
<1>8. /\ Led(rs, opState, abortControllerMap, tracked)
      /\ Locks(rs, tracked, lockedOperations, finaliser)
  <2>1. opState[o].started /\ ~opState[o].ended
    BY <1>7 DEF Led, Open
  <2> QED BY <1>4, <1>5, <1>7, <2>1, RunLed, RunLocks
<1>9. Running(operationStatus, rs)
  <2>1. \A p \in Ops, j \in Slots : runs[p][j].phase \in Working => rs[p][j].phase \in Working
    BY <1>3, <1>5 DEF Moved, Working
  <2> QED BY <2>1, RunningKept DEF Ordered
<1>10. /\ Led(runs', opState', abortControllerMap', tracked')
       /\ Running(operationStatus', runs')
  BY <1>1, <1>4, <1>6, <1>7, <1>8, <1>9, LaunchLed
<1>11. Locks(runs', tracked', lockedOperations, finaliser)
  BY <1>1, <1>6, <1>7, <1>8, LaunchLocks DEF Led
<1>12. \A p \in Ops \ L : opState'[p] = opState[p]
  BY <1>1 DEF Launch, LaunchedState
<1> QED BY <1>2, <1>6, <1>10, <1>11, <1>12 DEF Ordered, Stands, Rewritten

LEMMA VolumeDoneOrdered ==
    ASSUME ReleasedOnce, Typed, OpsInOrder, Ordered, NEW o \in Ops, NEW k \in Slots,
           VolumeDone(o, k)
    PROVE  Ordered' /\ Stands
<1> DEFINE L   == Released(o, k)
           rs  == MoveRun(o, k, "resolved")
           st  == [operationStatus EXCEPT ![o] = "finished"]
           os  == [opState EXCEPT ![o] = OpState(Outcome(runs[o][k].abort, "success"), TRUE)]
           ctl == [abortControllerMap EXCEPT ![o] = NoSlot]
<1>1. PICK bad : Launch(L, bad, TRUE, st, os, rs, ctl, tracked)
  BY DEF VolumeDone
<1>2. /\ runs[o][k].phase = "creating"
      /\ UNCHANGED <<lockedOperations, finaliser, holds, abortReason>>
  BY DEF VolumeDone, InPhase, stopVars, lockVars, groupVars
<1>3. Moved(o, k, rs)
  BY <1>2, MoveIsMoved DEF OpsInOrder, Typed, Phases, Early
<1>4. /\ rs \in RunMap /\ OneTracked(rs, tracked)
      /\ \A p \in Ops : Idle(p, runs) => Idle(p, rs)
  BY <1>3, MovedKeeps DEF OpsInOrder
<1>5. /\ rs[o][k].phase = "resolved"
      /\ \A p \in Ops \ {o}, j \in Slots : rs[p][j] = runs[p][j]
  BY MovedRun DEF Typed
<1>6. L \in SUBSET Ops /\ \A p \in L : ~opState[p].started /\ Idle(p, rs) /\ p # o
  <2>1. \A p \in L : p \in Ops /\ operationStatus[p] \in Unqueued /\ Idle(p, runs) /\ p # o
    BY <1>2, ReleasedIsIdle
  <2> HIDE DEF L, rs
  <2> QED BY <1>4, <2>1 DEF OpsInOrder, Queued
<1>7. \A p \in Ops \ {o} : os[p] = opState[p] /\ ctl[p] = abortControllerMap[p]
  BY DEF Typed, StateMap, SlotMap
<1>8. st[o] # "running" /\ \A p \in Ops \ {o} : st[p] = operationStatus[p]
  BY DEF Typed, StatusMap
<1> HIDE DEF L, rs, st, os, ctl
<1>9. /\ tracked \in SlotMap
      /\ Led(runs, opState, abortControllerMap, tracked)
      /\ Locks(runs, tracked, lockedOperations, finaliser)
  BY DEF Ordered, Typed
<1>10. Led(rs, os, ctl, tracked) /\ Locks(rs, tracked, lockedOperations, finaliser)
  <2>1. rs[o][k].phase # "free" /\ rs[o][k].phase \notin Working /\ ~AtWork(rs[o][k])
    BY <1>5 DEF AtWork, Working
  <2>2. \A p \in Ops \ {o} : /\ os[p] = opState[p] /\ ctl[p] = abortControllerMap[p]
                             /\ \A j \in Slots : rs[p][j] = runs[p][j]
    BY <1>5, <1>7
  <2>3. Led(rs, os, ctl, tracked)
    BY <1>4, <1>9, <2>1, <2>2, RunLed
  <2>4. Locks(rs, tracked, lockedOperations, finaliser)
    BY <1>4, <1>5, <1>9, <2>1, RunLocks
  <2> QED BY <2>3, <2>4
<1>11. Running(st, rs)
  BY <1>5, <1>8, RunningKept DEF Ordered
<1>12. /\ Led(runs', opState', abortControllerMap', tracked')
       /\ Running(operationStatus', runs')
  BY <1>1, <1>4, <1>6, <1>9, <1>10, <1>11, LaunchLed
<1>13. Locks(runs', tracked', lockedOperations, finaliser)
  BY <1>1, <1>6, <1>9, <1>10, LaunchLocks DEF Led
<1>14. \A p \in Ops \ L : opState'[p] = os[p]
  BY <1>1 DEF Launch, LaunchedState
<1>15. Stands
  <2>1. ~opState[o].ended
    BY <1>2, <1>9 DEF Led, Open, AtWork, Working
  <2> QED BY <1>6, <1>7, <1>14, <2>1 DEF Stands, Rewritten
<1> QED BY <1>2, <1>12, <1>13, <1>15 DEF Ordered

\* The promise of a run settles: its lock is released, the servers of the op are told to
\* stop, and the op is launched again if a restart waited for it.
LEMMA SettleOrdered ==
    ASSUME Typed, OpsInOrder, Ordered, NEW o \in Ops, NEW k \in Slots, Settle(o, k)
    PROVE  Ordered' /\ RewritesToRestart
<1> DEFINE mine     == finaliser[o] = k
           restarts == IF mine /\ lockedOperations[o] = "RESTARTING" THEN {o} ELSE {}
           stops    == IF mine /\ lockedOperations[o] = "STOPPING" THEN {o} ELSE {}
           tr       == [tracked EXCEPT ![o] = NoSlot]
           T        == StoppedServers(o)
           st       == StopStatus(T \cup stops, tr, operationStatus)
           os       == StopState(T \cup stops, tr, opState)
           aborted  == AbortedRuns(T, runs, "stopped")
           rs       == [aborted EXCEPT ![o][k] = NoRun]
           others   == T \ {o}
           told     == AbortedRuns(others, runs, "stopped")
           lock     == Locked(others, tracked, lockedOperations, "STOPPING")
           fin      == Finalisers(others, tracked, finaliser)
<1>1. PICK bad : Launch(restarts, bad, FALSE, st, os, rs, abortControllerMap, tr)
  BY DEF Settle
<1>2. /\ runs[o][k].phase # "free" /\ abortReason' = abortReason /\ holds' = holds \ restarts
      /\ lockedOperations' = [Locked(T, tr, lockedOperations, "STOPPING") EXCEPT
                                ![o] = IF mine THEN "none" ELSE @]
      /\ finaliser' = [Finalisers(T, tr, finaliser) EXCEPT ![o] = IF mine THEN NoSlot ELSE @]
  BY DEF Settle, Settled, stopVars
<1>3. /\ tracked[o] = k /\ tracked \in SlotMap /\ runs \in RunMap /\ opState \in StateMap
      /\ Led(runs, opState, abortControllerMap, tracked)
      /\ Locks(runs, tracked, lockedOperations, finaliser)
  BY <1>2 DEF OpsInOrder, OneTracked, Typed, Ordered
<1>4. ~mine => finaliser[o] = NoSlot /\ lockedOperations[o] = "none"
  BY <1>3 DEF Locks, Ending
<1>5. T \subseteq Ops /\ \A p \in T : lockedOperations[p] = "none"
  BY KindAssumption DEF StoppedServers, StoppableIn
<1>6. aborted \in RunMap /\ OneTracked(aborted, tracked)
  BY <1>3, AbortedRunsType, AbortedKeeps DEF OpsInOrder, Reasons
<1>7. /\ \A p \in Ops, j \in Slots : rs[p][j] = IF p = o /\ j = k THEN NoRun ELSE aborted[p][j]
      /\ rs \in RunMap
  <2> HIDE DEF aborted
  <2>1. NoRun \in Run
    BY DEF NoRun, Run, Phases, Reasons
  <2> QED BY <1>6, <2>1 DEF RunMap
<1>8. Idle(o, rs)
  <2> HIDE DEF aborted, rs
  <2> QED BY <1>3, <1>6, <1>7 DEF OneTracked, Idle, NoRun
<1>9. tr \in SlotMap /\ tr[o] = NoSlot /\ \A p \in Ops \ {o} : tr[p] = tracked[p]
  BY <1>3 DEF SlotMap
<1>10. OneTracked(rs, tr)
  <2> HIDE DEF aborted, rs, tr
  <2> QED BY <1>6, <1>7, <1>8, <1>9 DEF OneTracked, Idle
<1>11. \A p \in Ops \ {o}, j \in Slots : rs[p][j] = told[p][j]
  <2>1. \A p \in Ops \ {o}, j \in Slots : aborted[p][j] = told[p][j]
    BY DEF AbortedRuns
  <2> HIDE DEF aborted, rs, told
  <2> QED BY <1>7, <2>1
<1>12. \A p \in Ops \ {o} : /\ lockedOperations'[p] = lock[p]
                            /\ finaliser'[p] = fin[p]
  BY <1>2, <1>9 DEF Locked, Finalisers
<1>13. lockedOperations'[o] = "none" /\ finaliser'[o] = NoSlot
  BY <1>2, <1>4, <1>9 DEF Locked, Finalisers
<1>14. Led(told, opState, abortControllerMap, tracked) /\ Locks(told, tracked, lock, fin)
  <2>1. others \in SUBSET Ops /\ \A p \in others : lockedOperations[p] = "none"
    BY <1>5
  <2> HIDE DEF others
  <2> QED BY <1>3, <2>1, LockLed DEF Reasons
<1>15. holds' = holds \ restarts /\ restarts \in SUBSET Ops /\ \A p \in restarts : p = o
  BY <1>2
<1>16. abortReason = "none" => (o \in holds => o \in restarts)
  BY <1>4 DEF Ordered, Blocks
<1>17. \A p \in Ops \ {o} : lock[p] = "RESTARTING" <=> lockedOperations[p] = "RESTARTING"
  BY <1>5 DEF Locked
<1>18. \A p \in restarts : lockedOperations[p] = "RESTARTING"
  OBVIOUS
<1> Running(st, rs)
  <2>1. \A p \in Ops : st[p] = "running" => operationStatus[p] = "running"
    BY DEF StopStatus
  <2>2. \A p \in Ops, j \in Slots : aborted[p][j].phase = runs[p][j].phase
    BY <1>3, AbortedPhases
  <2>3. runs[o][k].phase \notin Working
    BY DEF Settle, Settled, Working
  <2> HIDE DEF st, aborted, rs
  <2> QED BY <1>7, <2>1, <2>2, <2>3, RunningKept DEF Ordered
<1> HIDE DEF told, lock, fin, others, aborted, rs, tr, restarts, st, T, mine
<1>19. /\ Led(rs, opState, abortControllerMap, tr)
       /\ Locks(rs, tr, lockedOperations', finaliser')
  BY <1>3, <1>8, <1>9, <1>11, <1>12, <1>13, <1>14, DropLed
<1>20. /\ Led(rs, os, abortControllerMap, tr)
       /\ \A p \in Ops : opState[p].ended => os[p] = opState[p]
  BY <1>3, <1>10, <1>19, StopStateLed
<1> HIDE DEF os
<1>21. \A p \in restarts : Idle(p, rs)
  BY <1>8, <1>15
<1>22. Led(runs', opState', abortControllerMap', tracked') /\ Running(operationStatus', runs')
  BY <1>1, <1>3, <1>7, <1>9, <1>15, <1>20, <1>21, LaunchLed
<1>23. Locks(runs', tracked', lockedOperations', finaliser')
  BY <1>1, <1>9, <1>15, <1>19, <1>21, LaunchLocks DEF Led
<1>24. Blocks(holds', lockedOperations', abortReason')
  BY <1>2, <1>12, <1>13, <1>15, <1>16, <1>17 DEF Ordered, Blocks
<1>25. \A p \in Ops \ restarts : opState'[p] = os[p]
  BY <1>1 DEF Launch, LaunchedState
<1> QED BY <1>18, <1>20, <1>22, <1>23, <1>24, <1>25 DEF Ordered, RewritesToRestart, Rewritten

LEMMA TimeoutOrdered ==
    ASSUME Typed, Ordered, NEW o \in Ops, NEW k \in Slots, Timeout(o, k)
    PROVE  Ordered' /\ Stands
<1>1. ASSUME NEW p \in Ops, NEW j \in Slots
      PROVE  /\ runs'[p][j].phase = runs[p][j].phase /\ runs'[p][j].retried = runs[p][j].retried
             /\ runs[p][j].abort # "none" => runs'[p][j].abort # "none"
  <2>1. runs[o][k] \in Run /\ AbortRun(runs[o][k], "expired") \in Run
    BY AbortRunType DEF Typed, RunMap, Reasons
  <2>2. /\ AbortRun(runs[o][k], "expired").phase = runs[o][k].phase
        /\ AbortRun(runs[o][k], "expired").retried = runs[o][k].retried
        /\ runs[o][k].abort # "none" => AbortRun(runs[o][k], "expired").abort # "none"
    BY <2>1, AbortRunTells DEF Reasons
  <2>3. runs'[p][j] = IF p = o /\ j = k
                      THEN [AbortRun(runs[o][k], "expired") EXCEPT !.armed = FALSE]
                      ELSE runs[p][j]
    BY DEF Timeout, Typed, RunMap
  <2> QED BY <2>1, <2>2, <2>3 DEF Run
<1>2. UNCHANGED <<opState, abortControllerMap, tracked, lockedOperations, finaliser, holds,
                  abortReason>>
  BY DEF Timeout, stopVars, lockVars, groupVars
<1>3. /\ tracked \in SlotMap
      /\ Led(runs, opState, abortControllerMap, tracked)
      /\ Locks(runs, tracked, lockedOperations, finaliser)
  BY DEF Ordered, Typed
<1>4. /\ Led(runs', opState, abortControllerMap, tracked)
      /\ Locks(runs', tracked, lockedOperations, finaliser)
  BY <1>1, <1>3, ToldLed
<1>5. Running(operationStatus', runs')
  <2>1. \A p \in Ops : operationStatus'[p] = "running" => operationStatus[p] = "running"
    BY DEF Timeout, Typed, StatusMap
  <2> QED BY <1>1, <2>1, RunningKept DEF Ordered
<1> QED BY <1>2, <1>4, <1>5 DEF Ordered, Stands, Rewritten

LEMMA RunStepOrdered ==
    ASSUME ~TeardownMayFail, ReleasedOnce, Typed, OpsInOrder, Ordered,
           NEW o \in Ops, NEW k \in Slots, RunStep(o, k)
    PROVE  Ordered' /\ RewritesToRestart
<1>1. runs \in RunMap /\ RunsCalm(runs)
  BY DEF Typed, OpsInOrder
<1>2. CASE ContainerStarted(o, k)
  <2>1. /\ runs[o][k].phase = "creating"
        /\ runs' = [MoveRun(o, k, "started") EXCEPT ![o][k].armed = o \in Timed]
        /\ UNCHANGED <<operationStatus, opState, abortControllerMap, tracked, lockVars, holds,
                       abortReason>>
    BY <1>2 DEF ContainerStarted, InPhase, stopVars, groupVars
  <2>2. MoveRun(o, k, "started") \in RunMap
    BY <1>1, MoveRunType DEF Phases
  <2>3. Moved(o, k, runs')
    <3>1. Moved(o, k, MoveRun(o, k, "started"))
      BY <1>1, <2>1, MoveIsMoved DEF Phases, Early
    <3>2. (o \in Timed) \in BOOLEAN
      OBVIOUS
    <3> QED BY <2>1, <3>1, <3>2, SetIsMoved, Zenon
  <2>4. runs'[o][k].phase = "started" /\ runs'[o][k].abort = runs[o][k].abort
    BY <1>1, <2>1, <2>2, SetRun, MovedRun
  <2>5. runs[o][k].phase \in Working /\ AtWork(runs[o][k]) /\ runs'[o][k].phase \in Working
    BY <2>1, <2>4 DEF AtWork, Working
  <2>6. Ordered' /\ Stands
    BY <2>1, <2>3, <2>4, <2>5, RunGoesOn
  <2> QED BY <2>6 DEF Stands, RewritesToRestart
<1>3. CASE StartupSuccess(o, k)
  BY <1>3, StartupSuccessOrdered DEF Stands, RewritesToRestart
<1>4. ASSUME NEW status \in {"success", "failed"}, Exit(o, k, status)
      PROVE  Ordered' /\ Stands
  <2>1. /\ runs[o][k].phase \in Working \ {"ready"}
        /\ runs' = [MoveRun(o, k, "teardown") EXCEPT ![o][k].armed = FALSE]
        /\ Reports(o, k, "finished", OpState(status, TRUE))
        /\ abortControllerMap' = [abortControllerMap EXCEPT ![o] = NoSlot]
        /\ UNCHANGED <<tracked, lockVars, holds, abortReason>>
    BY <1>4 DEF Exit, InPhase, stopVars, groupVars, Working
  <2>2. MoveRun(o, k, "teardown") \in RunMap
    BY <1>1, MoveRunType DEF Phases
  <2>3. Moved(o, k, runs')
    BY <1>1, <2>1, MoveIsMoved, SetIsMoved DEF Phases, Early, Working
  <2>4. runs'[o][k].phase = "teardown"
    BY <1>1, <2>1, <2>2, SetRun, MovedRun
  <2>5. /\ operationStatus'[o] # "running"
        /\ \A p \in Ops \ {o} : /\ operationStatus'[p] = operationStatus[p]
                                /\ opState'[p] = opState[p]
                                /\ abortControllerMap'[p] = abortControllerMap[p]
    <3>1. /\ operationStatus'[o] = "finished"
          /\ \A p \in Ops \ {o} : /\ operationStatus'[p] = operationStatus[p]
                                  /\ opState'[p] = opState[p]
      BY <2>1, ReportsOfOne
    <3>2. \A p \in Ops \ {o} : abortControllerMap'[p] = abortControllerMap[p]
      BY <2>1 DEF Typed, SlotMap
    <3> QED BY <3>1, <3>2
  <2>6. /\ runs'[o][k].phase \notin Working \cup {"free"} /\ ~AtWork(runs'[o][k])
        /\ AtWork(runs[o][k])
    BY <2>1, <2>4 DEF AtWork, Working
  <2> QED BY <2>1, <2>3, <2>5, <2>6, RunGoesOn
<1>5. CASE Fail(o, k) \/ LoseExit(o, k)
  <2>1. AtWork(runs[o][k]) /\ \E reason : EndInError(o, k, reason)
    BY <1>5 DEF Fail, LoseExit, InPhase, AtWork, Working
  <2> QED BY <2>1, EndInErrorOrdered DEF Stands, RewritesToRestart
<1>6. CASE VolumeDone(o, k)
  BY <1>6, VolumeDoneOrdered DEF Stands, RewritesToRestart
<1>7. CASE Timeout(o, k)
  BY <1>7, TimeoutOrdered DEF Stands, RewritesToRestart
<1>8. CASE TeardownDone(o, k)
  <2>1. /\ runs' = MoveRun(o, k, "resolved") /\ runs[o][k].phase = "teardown"
        /\ UNCHANGED <<operationStatus, opState, abortControllerMap, tracked, lockVars, holds,
                       abortReason>>
    BY <1>1, <1>8 DEF TeardownDone, InPhase, RunsCalm, CalmRun, stopVars, groupVars
  <2>2. Moved(o, k, runs')
    BY <1>1, <2>1, MoveIsMoved DEF Phases, Early
  <2>3. runs'[o][k].phase = "resolved"
    BY <1>1, <2>1, MovedRun
  <2>4. /\ runs'[o][k].phase \notin Working \cup {"free"} /\ ~AtWork(runs'[o][k])
        /\ runs[o][k].phase \notin Working
    BY <2>1, <2>3 DEF AtWork, Working
  <2>5. Ordered' /\ Stands
    BY <2>1, <2>2, <2>4, RunGoesOn
  <2> QED BY <2>5 DEF Stands, RewritesToRestart
<1>9. CASE Settle(o, k)
  BY <1>9, SettleOrdered
<1> QED
  BY <1>2, <1>3, <1>4, <1>5, <1>6, <1>7, <1>8, <1>9 DEF RunStep, Stands, RewritesToRestart

\* A run that meets podman stale is held for its retry, and every op that runs is told to end:
\* each has a run, so none is launched at once.
LEMMA RuntimeStaleOrdered ==
    ASSUME Typed, FlowInOrder, OpsInOrder, Ordered, NEW o \in Ops, NEW k \in Slots,
           RuntimeStale(o, k)
    PROVE  Ordered' /\ Stands
<1> DEFINE held  == [MoveRun(o, k, "ready") EXCEPT ![o][k].retried = TRUE]
           again == [MoveRun(o, k, "creating") EXCEPT ![o][k].retried = TRUE]
           T     == {p \in Ops : /\ GroupOf[p] = currentGroup
                                 /\ operationStatus[p] = "running"
                                 /\ lockedOperations[p] = "none"}
<1>1. /\ GpuRuntime /\ runs[o][k].phase \in {"creating", "started"}
      /\ runs \in RunMap /\ RunsCalm(runs) /\ OneTracked(runs, tracked)
  BY DEF RuntimeStale, InPhase, Typed, OpsInOrder
<1>2. AtWork(runs[o][k]) /\ runs[o][k].phase \in Working
  BY <1>1 DEF AtWork, Working
<1>3. MoveRun(o, k, "ready") \in RunMap /\ MoveRun(o, k, "creating") \in RunMap
  BY <1>1, MoveRunType DEF Phases
<1>4. Moved(o, k, held) /\ Moved(o, k, again)
  BY <1>1, MoveIsMoved, SetIsMoved DEF Phases, Early
<1>5. /\ held[o][k].phase = "ready" /\ held[o][k].abort = runs[o][k].abort
      /\ again[o][k].phase = "creating" /\ again[o][k].abort = runs[o][k].abort
      /\ \A p \in Ops \ {o}, j \in Slots : held[p][j] = runs[p][j]
  BY <1>1, <1>3, SetRun, MovedRun
<1> HIDE DEF held, again, T
<1>6. CASE /\ runs' = held
           /\ UNCHANGED <<flowVars, stopVars, operationStatus, opState, abortControllerMap,
                          tracked, leaked, lockVars, groupVars, runtime>>
  <2>1. UNCHANGED <<operationStatus, opState, abortControllerMap, tracked, lockVars, holds,
                    abortReason>>
    BY <1>6 DEF stopVars, groupVars
  <2> QED BY <1>2, <1>4, <1>5, <1>6, <2>1, RunGoesOn DEF Working
<1>7. CASE /\ runs' = again
           /\ Reports(o, k, "running", OpState("running", FALSE))
           /\ UNCHANGED <<flowVars, stopVars, abortControllerMap, tracked, leaked, lockVars,
                          groupVars, runtime>>
  <2>1. /\ UNCHANGED <<abortControllerMap, tracked, lockVars, holds, abortReason>>
        /\ opState'[o].started /\ ~opState'[o].ended
        /\ \A p \in Ops \ {o} : /\ operationStatus'[p] = operationStatus[p]
                                /\ opState'[p] = opState[p]
    BY <1>7, ReportsOfOne DEF stopVars, groupVars, OpState
  <2> QED BY <1>2, <1>4, <1>5, <1>7, <2>1, RunGoesOn DEF Working
<1>8. CASE Restart(T, held)
  <2>1. /\ held \in RunMap /\ OneTracked(held, tracked) /\ RunsCalm(held)
        /\ tracked \in SlotMap
        /\ Led(runs, opState, abortControllerMap, tracked)
        /\ Locks(runs, tracked, lockedOperations, finaliser)
        /\ Blocks(holds, lockedOperations, abortReason)
    BY <1>1, <1>4, MovedKeeps DEF Ordered, Typed
  <2>2. \A p \in Ops, j \in Slots : runs[p][j].phase \in Working => held[p][j].phase \in Working
    BY <1>4, <1>5 DEF Moved, Working
  <2>3. Running(operationStatus, held)
    BY <2>2, RunningKept DEF Ordered
  <2>4. opState[o].started /\ ~opState[o].ended
    BY <1>2, <2>1 DEF Led, Open
  <2>5. /\ Led(held, opState, abortControllerMap, tracked)
        /\ Locks(held, tracked, lockedOperations, finaliser)
    BY <1>2, <1>5, <2>1, <2>4, RunLed, RunLocks
  <2>6. \A p \in T : p \in Ops /\ lockedOperations[p] = "none" /\ tracked[p] # NoSlot
    <3> SUFFICES ASSUME NEW p \in T, p \in Ops PROVE tracked[p] # NoSlot
      BY DEF T
    <3>1. operationStatus[p] = "running"
      BY DEF T
    <3> QED BY <1>1, <3>1, PlanAssumption DEF Ordered, Running, OneTracked, Working, Slots, NoSlot
  <2>7. Ordered' /\ \A p \in Ops : opState'[p] = opState[p]
    BY <1>8, <2>1, <2>3, <2>5, <2>6, RestartOrdered
  <2> QED BY <2>7 DEF Stands, Rewritten
<1> QED BY <1>6, <1>7, <1>8 DEF RuntimeStale, held, again, T

\* What podman lets go on is a run that is to be retried, or a new one.
LEMMA RuntimeStepOrdered ==
    ASSUME Typed, FlowInOrder, OpsInOrder, Ordered, NEW o \in Ops, NEW k \in Slots,
           RuntimeStep(o, k)
    PROVE  Ordered' /\ \A p \in Ops : Rewritten(p) => NewRunHeld(p)
<1>1. CASE RuntimeReady(o, k)
  <2>1. /\ runs[o][k].phase = "ready"
        /\ runs' = MoveRun(o, k, "creating")
        /\ Reports(o, k, "running", OpState("running", FALSE))
        /\ UNCHANGED <<abortControllerMap, tracked, lockVars, holds, abortReason>>
    BY <1>1 DEF RuntimeReady, Resumes, stopVars, groupVars
  <2>2. Moved(o, k, runs')
    BY <2>1, MoveIsMoved DEF OpsInOrder, Typed, Phases, Early
  <2>3. runs'[o][k].phase = "creating" /\ runs'[o][k].abort = runs[o][k].abort
    BY <2>1, MovedRun DEF Typed
  <2>4. /\ opState'[o].started /\ ~opState'[o].ended
        /\ \A p \in Ops \ {o} : /\ operationStatus'[p] = operationStatus[p]
                                /\ opState'[p] = opState[p]
    BY <2>1, ReportsOfOne DEF OpState
  <2>5. runs[o][k].phase \in Working /\ runs'[o][k].phase \in Working \ {"free"}
    BY <2>1, <2>3 DEF Working
  <2>6. /\ Ordered'
        /\ \A p \in Ops \ {o} : ~Rewritten(p)
        /\ AtWork(runs[o][k]) => Stands
    BY <2>1, <2>2, <2>3, <2>4, <2>5, RunGoesOn
  <2>7. AtWork(runs[o][k]) \/ NewRunHeld(o)
    BY <2>1, <2>5 DEF AtWork, NewRunHeld
  <2> QED BY <2>6, <2>7 DEF Stands
<1>2. CASE RetryFails(o, k)
  <2>1. AtWork(runs[o][k]) /\ EndInError(o, k, runs[o][k].abort)
    BY <1>2 DEF RetryFails, Resumes, AtWork, Working
  <2> QED BY <2>1, EndInErrorOrdered DEF Stands
<1>3. CASE RuntimeFails(o, k)
  BY <1>3 DEF RuntimeFails, FlowInOrder
<1>4. CASE RuntimeStale(o, k)
  BY <1>4, RuntimeStaleOrdered DEF Stands
<1> QED BY <1>1, <1>2, <1>3, <1>4 DEF RuntimeStep

LEMMA RequestOrdered ==
    ASSUME Typed, InOrder, Ordered, Request
    PROVE  /\ Ordered'
           /\ \A o \in Ops : Rewritten(o) => RestartOperation(o) \/ RestartGroup
<1>1. ASSUME NEW o \in Ops, StopOperation(o)
      PROVE  Ordered' /\ Stands
  <2>1. Stop({o}, operationStatus) /\ lockedOperations[o] = "none"
    BY <1>1 DEF StopOperation, StoppableIn
  <2> QED BY <2>1, StopOrdered DEF Ordered
<1>2. CASE StopGroup
  <2>1. PICK T, st : /\ Stop(T, st) /\ T \in SUBSET Ops
                     /\ \A o \in T : lockedOperations[o] = "none"
                     /\ \A o \in Ops : st[o] = "running" => operationStatus[o] = "running"
    BY <1>2 DEF StopGroup, StoppableIn
  <2>2. Running(st, runs)
    BY <2>1, RunningKept DEF Ordered
  <2> QED BY <2>1, <2>2, StopOrdered DEF Stands, Rewritten
<1>3. ASSUME NEW o \in Ops, RestartOperation(o)
      PROVE  Ordered' /\ \A p \in Ops \ {o} : opState'[p] = opState[p]
  <2>1. Restart({o}, runs) /\ lockedOperations[o] = "none"
    BY <1>3 DEF RestartOperation
  <2> QED BY <2>1, RestartOrdered DEF InOrder, OpsInOrder, Typed, Ordered
<1>4. CASE RestartGroup
  <2>1. PICK T \in SUBSET Ops : Restart(T, runs) /\ \A o \in T : lockedOperations[o] = "none"
    BY <1>4 DEF RestartGroup
  <2>2. Ordered'
    BY <2>1, RestartOrdered DEF InOrder, OpsInOrder, Typed, Ordered
  <2> QED BY <1>4, <2>2
<1>5. ASSUME NEW reason \in JobStops, JobStop(reason)
      PROVE  Ordered' /\ Stands
  BY <1>5, JobStopOrdered
<1> QED BY <1>1, <1>2, <1>3, <1>4, <1>5 DEF Request, Stands, Rewritten

LEMMA OrderedNext ==
    ASSUME ~TeardownMayFail, GpuRuntime => ~RuntimeMayFail, ReleasedOnce,
           Invariant, Ordered, [Next]_vars
    PROVE  /\ Ordered'
           /\ \A o \in Ops : Rewritten(o) => \/ RestartOperation(o) \/ RestartGroup
                                            \/ lockedOperations[o] = "RESTARTING"
                                            \/ NewRunHeld(o)
<1>1. CASE Start
  <2> DEFINE st == [o \in Ops |-> "pending"]
  <2>1. Advance(st) /\ pc = "bootstrapped" /\ UNCHANGED <<stopVars, lockVars, holds>>
    BY <1>1 DEF Start
  <2>2. Queued(st, opState, runs, abortReason) /\ \A o \in Ops : Idle(o, runs)
    BY <2>1 DEF Invariant, InOrder, OpsInOrder, FlowInOrder, Queued, Idle, Unqueued, Unstarted
  <2>3. Running(st, runs)
    BY DEF Running
  <2> HIDE DEF st
  <2> QED BY <2>1, <2>2, <2>3, AdvanceOrdered DEF Invariant, Stands, Rewritten
<1>2. CASE GroupEnd
  <2>1. \A o \in Ops : Idle(o, runs)
    BY <1>2, UntrackedIsIdle DEF GroupEnd, NothingTracked, Invariant, InOrder, OpsInOrder
  <2>2. Advance(operationStatus) /\ UNCHANGED <<stopVars, lockVars, holds>>
    BY <1>2 DEF GroupEnd
  <2> QED
    BY <2>1, <2>2, AdvanceOrdered DEF Invariant, InOrder, OpsInOrder, Ordered, Stands, Rewritten
<1>3. CASE Request
  BY <1>3, RequestOrdered DEF Invariant
<1>4. CASE FailFlow
  BY <1>4 DEF FailFlow, Invariant, InOrder, FlowInOrder
<1>5. CASE AwaitAgain \/ CleanUp \/ StopReturns \/ RecreateEnds \/ UNCHANGED vars
  <2>1. UNCHANGED <<opVars, lockVars, holds, abortReason>>
    BY <1>5 DEF AwaitAgain, CleanUp, StopReturns, RecreateEnds, vars, groupVars, stopVars
  <2> QED BY <2>1 DEF Ordered, Rewritten, opVars, lockVars
<1>6. ASSUME NEW o \in Ops, NEW k \in Slots, RunStep(o, k)
      PROVE  Ordered' /\ RewritesToRestart
  <2>1. Typed /\ OpsInOrder
    BY DEF Invariant, InOrder
  <2> QED BY <1>6, <2>1, RunStepOrdered
<1>7. ASSUME NEW o \in Ops, NEW k \in Slots, RuntimeStep(o, k)
      PROVE  Ordered' /\ \A p \in Ops : Rewritten(p) => NewRunHeld(p)
  BY <1>7, RuntimeStepOrdered DEF Invariant, InOrder
<1> QED BY <1>1, <1>2, <1>3, <1>4, <1>5, <1>6, <1>7 DEF Next, RewritesToRestart

LEMMA OrderedInit == Init => Ordered
<1> SUFFICES ASSUME Init PROVE Ordered
  OBVIOUS
<1>1. /\ \A o \in Ops, k \in Slots : runs[o][k].phase = "free"
      /\ \A o \in Ops : tracked[o] = NoSlot /\ finaliser[o] = NoSlot
      /\ \A o \in Ops : lockedOperations[o] = "none" /\ o \notin holds
  BY DEF Init, NoRun
<1> QED BY <1>1 
    DEF Ordered, Led, Tracks, Controls, Open, AtWork, Working, Locks, Ending, Blocks, Running, Init

LEMMA OrderedAlways ==
    ASSUME ~TeardownMayFail, GpuRuntime => ~RuntimeMayFail, ReleasedOnce
    PROVE  Spec => [](Invariant /\ Ordered)
<1>1. Init => Ordered
  BY OrderedInit
<1>2. Invariant /\ Ordered /\ [Next]_vars => Ordered'
  BY OrderedNext
<1> QED BY <1>1, <1>2, InvariantAlways, PTL DEF Spec

\* A locked op is one whose run has been told to end, and which something waits for, so that
\* the lock of a stop or restart is released; a group is held exactly while an op of it is
\* between two runs, unless the job was stopped meanwhile.
THEOREM LockedRunIsEndingAlways ==
    ASSUME ~TeardownMayFail, GpuRuntime => ~RuntimeMayFail, ReleasedOnce
    PROVE  Spec => []LockedRunIsEnding
<1>1. Invariant /\ Ordered => LockedRunIsEnding
  <2> SUFFICES ASSUME Invariant, Ordered PROVE LockedRunIsEnding
    OBVIOUS
  <2>1. ASSUME NEW o \in Ops, lockedOperations[o] # "none"
        PROVE  /\ finaliser[o] # NoSlot
               /\ runs[o][finaliser[o]].phase # "free"
               /\ runs[o][finaliser[o]].phase \in Working => runs[o][finaliser[o]].abort # "none"
    BY <2>1 DEF Ordered, Locks, Ending, Led, Tracks
  <2> QED BY <2>1 DEF Ordered, Blocks, LockedRunIsEnding
<1> QED BY <1>1, OrderedAlways, PTL

\* What a run recorded of its op stays recorded, whatever stop, cascade, abort or release
\* comes late: only the new run of a restart records something else, at once or when podman,
\* recreated meanwhile, lets it go on.
THEOREM OutcomeIsFinalAlways ==
    ASSUME ~TeardownMayFail, GpuRuntime => ~RuntimeMayFail, ReleasedOnce
    PROVE  Spec => OutcomeIsFinal
<1> DEFINE Rewrites == \A o \in Ops :
              opState[o].started /\ opState[o].ended /\ opState'[o] # opState[o]
                 => \/ RestartOperation(o) \/ RestartGroup
                    \/ lockedOperations[o] = "RESTARTING"
                    \/ NewRunHeld(o)
<1>1. Invariant /\ Ordered /\ [Next]_vars => [Rewrites]_vars
  BY OrderedNext DEF Rewritten
<1> QED BY <1>1, OrderedAlways, PTL DEF Spec, OutcomeIsFinal

-------------------------------------------------------------------------------
(* The order ops start in, when none is restarted.                            *)

\* A run in one of these phases has not shown that its op is up.
Behind == {"free", "ready", "creating", "started"}

\* What an op that waits for d alone has waited for.
Beyond(d, st, os, rs) ==
    os[d].ended \/ st[d] = "stopped" \/ \E k \in Slots : rs[d][k].phase \notin Behind

\* d has come up or is through, which releases what waits for it.
Shown(d, st, rs) == st[d] = "finished" \/ \E k \in Slots : rs[d][k].phase = "up"

\* The status of an op, what is recorded of it and its run agree.
Kept(st, os, rs) ==
    \A o \in Ops :
        /\ st[o] \in Unqueued => ~os[o].ended
        /\ st[o] = "finished" => os[o].ended
        /\ \A k \in Slots :
              /\ rs[o][k].phase \in Working => st[o] # "stopped" /\ os[o].started
              /\ rs[o][k].phase \notin Working \cup {"free"} => os[o].ended
              /\ rs[o][k].phase = "free" => ~rs[o][k].armed
              /\ rs[o][k].phase # "free" => rs[o][k].notifies

\* An op that waits for one other does not start before that one is beyond its start.
AfterDependencies(st, os, rs) ==
    \A o, d \in Ops : Dependencies[o] = {d} /\ os[o].started => Beyond(d, st, os, rs)

\* No release is lost: what waits for d is launched when d shows itself, or is about to be, in L.
Releases(L, st, rs) ==
    \A d \in Ops \ Exposed : Shown(d, st, rs) => \A o \in Dependents(d) \ L : st[o] \notin Unqueued

\* The loop leaves an op waiting only if the op depends on another.
Waits(st) == \A o \in Ops : st[o] = "waiting" => Dependencies[o] # {}

Sequenced(L, st, os, rs) ==
    /\ Kept(st, os, rs) /\ AfterDependencies(st, os, rs) /\ Releases(L, st, rs) /\ Waits(st)

\* GroupsInOrder, of the runs rs.
Grouped(current, os, rs) ==
    \A o \in Ops : ~Idle(o, rs) =>
        \/ GroupOf[o] = current
        \/ /\ 0 < current
           /\ DependenciesFirst => current < GroupOf[o]
           /\ \E d \in Dependencies[o] : os[d].started

InSequence ==
    /\ abortReason = "none" => Sequenced({}, operationStatus, opState, runs)
    /\ Grouped(currentGroup, opState, runs)
    /\ \A o \in Ops : lockedOperations[o] # "RESTARTING"

-------------------------------------------------------------------------------
(* What the helpers keep.                                                     *)

\* o has been launched, on a job that goes on.
Begun(o, st, os, rs) ==
    /\ st[o] \in {"stopping", "running"}
    /\ os[o].started
    /\ \A k \in Slots :
          /\ rs[o][k].phase \in {"free", "creating", "resolved"}
          /\ rs[o][k].phase = "resolved" => os[o].ended
          /\ rs[o][k].phase = "free" => ~rs[o][k].armed
          /\ rs[o][k].phase # "free" => rs[o][k].notifies

\* No op of L has a run or a timer.
Unarmed(L, rs) == \A o \in L, k \in Slots : rs[o][k].phase = "free" /\ ~rs[o][k].armed

\* What a launch makes of an op without a run, on a job that is not being stopped.
LEMMA LaunchedOp ==
    ASSUME runtime # "recreating", abortReason = "none",
           NEW L \in SUBSET Ops, NEW bad, NEW notifies, notifies = TRUE,
           NEW st, NEW os, NEW rs \in RunMap, NEW ctl, NEW tr,
           Launch(L, bad, notifies, st, os, rs, ctl, tr),
           Unarmed(L, rs)
    PROVE  \A o \in L : Begun(o, operationStatus', opState', runs')
<1> TAKE o \in L
<1>1. LaunchPhase(o, bad) = IF o \in bad THEN "resolved" ELSE "creating"
  BY DEF LaunchPhase
<1>2. operationStatus'[o] = IF o \in bad THEN "stopping" ELSE "running"
  BY <1>1 DEF Launch, LaunchedStatus
<1>3. opState'[o] = IF o \in bad THEN OpState("failed", TRUE) ELSE OpState("running", FALSE)
  BY <1>1 DEF Launch, LaunchedState
<1>4. /\ opState'[o].started
      /\ o \in bad => opState'[o].ended
  BY <1>3 DEF OpState
<1>5. ASSUME NEW k \in Slots
      PROVE  /\ runs'[o][k].phase \in {"free", "creating", "resolved"}
             /\ runs'[o][k].phase = "resolved" => o \in bad
             /\ runs'[o][k].phase = "free" => ~runs'[o][k].armed
             /\ runs'[o][k].phase # "free" => runs'[o][k].notifies
  <2>1. runs'[o][k] = IF k = FreeSlot(o, rs) THEN NewRun(LaunchPhase(o, bad), notifies)
                      ELSE [rs[o][k] EXCEPT !.muted = rs[o][k].phase # "free"]
    BY DEF Launch, LaunchedRuns
  <2>2. /\ NewRun(LaunchPhase(o, bad), notifies).phase = LaunchPhase(o, bad)
        /\ NewRun(LaunchPhase(o, bad), notifies).notifies = notifies
        /\ NewRun(LaunchPhase(o, bad), notifies).armed = FALSE
    BY DEF NewRun, NoRun
  <2>3. /\ [rs[o][k] EXCEPT !.muted = rs[o][k].phase # "free"].phase = rs[o][k].phase
        /\ [rs[o][k] EXCEPT !.muted = rs[o][k].phase # "free"].armed = rs[o][k].armed
    BY DEF RunMap, Run
  <2> QED BY <1>1, <2>1, <2>2, <2>3 DEF Unarmed
<1> QED BY <1>2, <1>4, <1>5 DEF Begun

\* Ops are launched that nothing has kept from it.
LEMMA LaunchSequenced ==
    ASSUME runtime # "recreating", abortReason = "none",
           NEW L \in SUBSET Ops, NEW bad, NEW notifies, notifies = TRUE,
           NEW st, NEW os, NEW rs \in RunMap, NEW ctl, NEW tr,
           Launch(L, bad, notifies, st, os, rs, ctl, tr),
           Sequenced(L, st, os, rs),
           \A o \in L : Idle(o, rs) /\ ~os[o].ended /\ st[o] # "stopped",
           \A o \in L, d \in Ops : Dependencies[o] = {d} => Beyond(d, st, os, rs)
    PROVE  Sequenced({}, operationStatus', opState', runs')
<1>1. ASSUME NEW o \in Ops \ L
      PROVE  /\ operationStatus'[o] = st[o] /\ opState'[o] = os[o]
             /\ \A k \in Slots : runs'[o][k] = rs[o][k]
  BY DEF Launch, LaunchedStatus, LaunchedState, LaunchedRuns
<1>2. \A o \in L : Begun(o, operationStatus', opState', runs')
  <2>1. Unarmed(L, rs)
    BY DEF Sequenced, Kept, Idle, Unarmed
  <2> QED BY <2>1, LaunchedOp
<1>3. Kept(operationStatus', opState', runs')
  <2> SUFFICES ASSUME NEW o \in Ops
               PROVE  /\ operationStatus'[o] \in Unqueued => ~opState'[o].ended
                      /\ operationStatus'[o] = "finished" => opState'[o].ended
                      /\ \A k \in Slots :
                            /\ runs'[o][k].phase \in Working
                                 => operationStatus'[o] # "stopped" /\ opState'[o].started
                            /\ runs'[o][k].phase \notin Working \cup {"free"}
                                 => opState'[o].ended
                            /\ runs'[o][k].phase = "free" => ~runs'[o][k].armed
                            /\ runs'[o][k].phase # "free" => runs'[o][k].notifies
    BY DEF Kept
  <2>1. CASE o \in L
    BY <1>2, <2>1 DEF Begun, Unqueued, Working
  <2>2. CASE o \notin L
    BY <1>1, <2>2 DEF Sequenced, Kept
  <2> QED BY <2>1, <2>2
<1>4. AfterDependencies(operationStatus', opState', runs')
  <2> SUFFICES ASSUME NEW o \in Ops, NEW d \in Ops, Dependencies[o] = {d}, opState'[o].started
               PROVE  Beyond(d, operationStatus', opState', runs')
    BY DEF AfterDependencies
  <2>1. Beyond(d, st, os, rs)
    BY <1>1 DEF Sequenced, AfterDependencies
  <2>2. d \notin L
    BY <2>1 DEF Beyond, Idle, Behind
  <2> QED BY <1>1, <2>1, <2>2 DEF Beyond
<1>5. Releases({}, operationStatus', runs')
  <2> SUFFICES ASSUME NEW d \in Ops \ Exposed, Shown(d, operationStatus', runs'),
                      NEW o \in Dependents(d)
               PROVE  operationStatus'[o] \notin Unqueued
    BY DEF Releases
  <2>1. d \notin L
    BY <1>2 DEF Begun, Shown
  <2>2. Shown(d, st, rs)
    BY <1>1, <2>1 DEF Shown
  <2>3. o \in Ops
    BY DEF Dependents
  <2>4. CASE o \in L
    BY <1>2, <2>4 DEF Begun, Unqueued
  <2>5. CASE o \notin L
    BY <1>1, <2>2, <2>3, <2>5 DEF Sequenced, Releases
  <2> QED BY <2>4, <2>5
<1>6. Waits(operationStatus')
  <2> SUFFICES ASSUME NEW o \in Ops, operationStatus'[o] = "waiting" PROVE Dependencies[o] # {}
    BY DEF Waits
  <2> QED BY <1>1, <1>2 DEF Begun, Sequenced, Waits
<1> QED BY <1>3, <1>4, <1>5, <1>6 DEF Sequenced

\* A launch of no op is none.
LEMMA LaunchNone ==
    ASSUME NEW bad, NEW notifies, NEW st \in StatusMap, NEW os \in StateMap, NEW rs \in RunMap,
           NEW ctl, NEW tr, Launch({}, bad, notifies, st, os, rs, ctl, tr)
    PROVE  operationStatus' = st /\ opState' = os /\ runs' = rs
BY DEF Launch, LaunchedStatus, LaunchedState, LaunchedRuns, StatusMap, StateMap, RunMap

\* Ops are stopped or told to end, and no run ends by it.
LEMMA HaltSequenced ==
    ASSUME NEW st, NEW os, NEW rs, Sequenced({}, st, os, rs), NEW st2, NEW os2, NEW rs2,
           \A p \in Ops :
              /\ \/ st2[p] = st[p]
                 \/ st2[p] = "stopping" /\ (st[p] = "stopped" => ~Idle(p, rs))
                 \/ st2[p] = "stopped" /\ Idle(p, rs)
              /\ \/ os2[p] = os[p]
                 \/ st2[p] = "stopped" /\ os2[p].ended /\ os2[p].started = os[p].started
              /\ \A k \in Slots : /\ rs2[p][k].phase = rs[p][k].phase
                                  /\ rs2[p][k].notifies = rs[p][k].notifies
                                  /\ rs[p][k].phase = "free" => ~rs2[p][k].armed
    PROVE  Sequenced({}, st2, os2, rs2)
<1>1. Kept(st2, os2, rs2)
  <2> SUFFICES ASSUME NEW o \in Ops
               PROVE  /\ st2[o] \in Unqueued => ~os2[o].ended
                      /\ st2[o] = "finished" => os2[o].ended
                      /\ \A k \in Slots :
                            /\ rs2[o][k].phase \in Working => st2[o] # "stopped" /\ os2[o].started
                            /\ rs2[o][k].phase \notin Working \cup {"free"} => os2[o].ended
                            /\ rs2[o][k].phase = "free" => ~rs2[o][k].armed
                            /\ rs2[o][k].phase # "free" => rs2[o][k].notifies
    BY DEF Kept
  <2> QED BY DEF Sequenced, Kept, Unqueued, Working, Idle
<1>2. AfterDependencies(st2, os2, rs2)
  <2> SUFFICES ASSUME NEW o \in Ops, NEW d \in Ops, Dependencies[o] = {d}, os2[o].started
               PROVE  Beyond(d, st2, os2, rs2)
    BY DEF AfterDependencies
  <2>1. Beyond(d, st, os, rs)
    BY DEF Sequenced, AfterDependencies
  <2>2. CASE os[d].ended
    BY <2>2 DEF Beyond
  <2>3. CASE st[d] = "stopped"
    <3>1. CASE st2[d] = "stopped"
      BY <3>1 DEF Beyond
    <3>2. CASE st2[d] # "stopped"
      <4>1. PICK k \in Slots : rs[d][k].phase # "free"
        BY <2>3, <3>2 DEF Idle
      <4>2. rs[d][k].phase \notin Working \cup {"free"}
        BY <2>3, <4>1 DEF Sequenced, Kept
      <4> QED BY <4>2 DEF Beyond, Behind, Working
    <3> QED BY <3>1, <3>2
  <2>4. CASE \E k \in Slots : rs[d][k].phase \notin Behind
    BY <2>4 DEF Beyond
  <2> QED BY <2>1, <2>2, <2>3, <2>4 DEF Beyond
<1>3. Releases({}, st2, rs2)
  <2> SUFFICES ASSUME NEW d \in Ops \ Exposed, Shown(d, st2, rs2), NEW o \in Dependents(d)
               PROVE  st2[o] \notin Unqueued
    BY DEF Releases
  <2>1. Shown(d, st, rs)
    BY DEF Shown
  <2>2. o \in Ops /\ st[o] \notin Unqueued
    BY <2>1 DEF Sequenced, Releases, Dependents
  <2> QED BY <2>2 DEF Unqueued
<1>4. Waits(st2)
  BY DEF Sequenced, Waits
<1> QED BY <1>1, <1>2, <1>3, <1>4 DEF Sequenced

\* A run of o goes on without a word, or what it came to is recorded.
GoesOn(L, o, st, os, rs, st2, os2, rs2) ==
    /\ \A p \in Ops \ {o} : /\ st2[p] = st[p] /\ os2[p] = os[p]
                            /\ \A k \in Slots : rs2[p][k] = rs[p][k]
    /\ \A k \in Slots : /\ rs2[o][k].phase = "free" => ~rs2[o][k].armed
                        /\ rs2[o][k].phase # "free" => rs2[o][k].notifies
                        /\ rs2[o][k].phase \notin Working \cup {"free"} => os2[o].ended
                        /\ rs2[o][k].phase \in Working => rs[o][k].phase \in Working
    /\ \/ /\ st2[o] = st[o] /\ os2[o] = os[o]
          /\ \/ os[o].ended
             \/ \A k \in Slots : rs[o][k].phase \notin Behind => rs2[o][k].phase \notin Behind
       \/ /\ st2[o] \in {"finished", "failed", "stopped"}
          /\ os2[o].ended /\ os[o].started
          /\ \A k \in Slots : rs2[o][k].phase \notin Working
    /\ \/ o \in Exposed \/ ~Shown(o, st2, rs2) \/ Shown(o, st, rs)
       \/ \A p \in Dependents(o) \ L : st[p] \notin Unqueued

LEMMA RunSequenced ==
    ASSUME NEW L, NEW st, NEW os, NEW rs, Sequenced({}, st, os, rs), NEW o \in Ops,
           NEW st2, NEW os2, NEW rs2, GoesOn(L, o, st, os, rs, st2, os2, rs2)
    PROVE  Sequenced(L, st2, os2, rs2)
<1>1. Kept(st2, os2, rs2)
  <2> SUFFICES ASSUME NEW p \in Ops
               PROVE  /\ st2[p] \in Unqueued => ~os2[p].ended
                      /\ st2[p] = "finished" => os2[p].ended
                      /\ \A k \in Slots :
                            /\ rs2[p][k].phase \in Working => st2[p] # "stopped" /\ os2[p].started
                            /\ rs2[p][k].phase \notin Working \cup {"free"} => os2[p].ended
                            /\ rs2[p][k].phase = "free" => ~rs2[p][k].armed
                            /\ rs2[p][k].phase # "free" => rs2[p][k].notifies
    BY DEF Kept
  <2>1. CASE p = o
    BY <2>1 DEF GoesOn, Sequenced, Kept, Unqueued
  <2>2. CASE p # o
    BY <2>2 DEF GoesOn, Sequenced, Kept
  <2> QED BY <2>1, <2>2
<1>2. AfterDependencies(st2, os2, rs2)
  <2> SUFFICES ASSUME NEW p \in Ops, NEW d \in Ops, Dependencies[p] = {d}, os2[p].started
               PROVE  Beyond(d, st2, os2, rs2)
    BY DEF AfterDependencies
  <2>1. os[p].started
    BY DEF GoesOn
  <2>2. Beyond(d, st, os, rs)
    BY <2>1 DEF Sequenced, AfterDependencies
  <2>3. CASE d = o
    BY <2>2, <2>3 DEF GoesOn, Beyond
  <2>4. CASE d # o
    BY <2>2, <2>4 DEF GoesOn, Beyond
  <2> QED BY <2>3, <2>4
<1>3. Releases(L, st2, rs2)
  <2> SUFFICES ASSUME NEW d \in Ops \ Exposed, Shown(d, st2, rs2), NEW p \in Dependents(d) \ L
               PROVE  st2[p] \notin Unqueued
    BY DEF Releases
  <2>1. p \in Ops
    BY DEF Dependents
  <2>2. CASE Shown(d, st, rs)
    <3>1. st[p] \notin Unqueued
      BY <2>2 DEF Sequenced, Releases
    <3> QED BY <2>1, <3>1 DEF GoesOn, Unqueued
  <2>3. CASE ~Shown(d, st, rs)
    <3>1. d = o
      BY <2>3 DEF GoesOn, Shown
    <3>2. st[p] \notin Unqueued
      BY <2>3, <3>1 DEF GoesOn
    <3> QED BY <2>1, <3>2 DEF GoesOn, Unqueued
  <2> QED BY <2>2, <2>3
<1>4. Waits(st2)
  BY DEF GoesOn, Sequenced, Waits
<1> QED BY <1>1, <1>2, <1>3, <1>4 DEF Sequenced

\* The loop queues groups in which nothing can start.
LEMMA QueuedSequenced ==
    ASSUME NEW st \in StatusMap, NEW os, NEW rs, Sequenced({}, st, os, rs),
           NEW g \in Nat, NEW h \in Nat, \A i \in (g + 1)..(h - 1) : Startable(i, st) = {}
    PROVE  Sequenced({}, QueuedStatus(g, h, st), os, rs)
<1> DEFINE queued == QueuedStatus(g, h, st)
<1>1. ASSUME NEW o \in Ops
      PROVE  \/ queued[o] = st[o]
             \/ st[o] = "pending" /\ queued[o] = "starting"
             \/ st[o] = "pending" /\ queued[o] = "waiting" /\ Dependencies[o] # {}
  <2>1. queued[o] = IF st[o] # "pending" \/ GroupOf[o] \notin (g + 1)..h THEN st[o]
                    ELSE IF o \in Startable(h, st) THEN "starting" ELSE "waiting"
    BY DEF QueuedStatus
  <2>2. ASSUME st[o] = "pending", GroupOf[o] \in (g + 1)..h, o \notin Startable(h, st)
        PROVE  Dependencies[o] # {}
    <3>1. o \notin Startable(GroupOf[o], st)
      <4>1. GroupOf[o] = h \/ GroupOf[o] \in (g + 1)..(h - 1)
        BY <2>2
      <4> QED BY <2>2, <4>1
    <3> QED BY <2>2, <3>1 DEF Startable
  <2> QED BY <2>1, <2>2
<1> HIDE DEF queued
<1>2. Kept(queued, os, rs)
  <2> SUFFICES ASSUME NEW o \in Ops
               PROVE  /\ queued[o] \in Unqueued => ~os[o].ended
                      /\ queued[o] = "finished" => os[o].ended
                      /\ \A k \in Slots :
                            /\ rs[o][k].phase \in Working => queued[o] # "stopped" /\ os[o].started
                            /\ rs[o][k].phase \notin Working \cup {"free"} => os[o].ended
                            /\ rs[o][k].phase = "free" => ~rs[o][k].armed
                            /\ rs[o][k].phase # "free" => rs[o][k].notifies
    BY DEF Kept
  <2> QED BY <1>1 DEF Sequenced, Kept, Unqueued
<1>3. AfterDependencies(queued, os, rs)
  <2> SUFFICES ASSUME NEW o \in Ops, NEW d \in Ops, Dependencies[o] = {d}, os[o].started
               PROVE  Beyond(d, queued, os, rs)
    BY DEF AfterDependencies
  <2>1. Beyond(d, st, os, rs)
    BY DEF Sequenced, AfterDependencies
  <2> QED BY <1>1, <2>1 DEF Beyond
<1>4. Releases({}, queued, rs)
  <2> SUFFICES ASSUME NEW d \in Ops \ Exposed, Shown(d, queued, rs), NEW o \in Dependents(d)
               PROVE  queued[o] \notin Unqueued
    BY DEF Releases
  <2>1. Shown(d, st, rs) /\ o \in Ops
    BY <1>1 DEF Shown, Dependents
  <2>2. st[o] \notin Unqueued
    BY <2>1 DEF Sequenced, Releases
  <2> QED BY <1>1, <2>1, <2>2 DEF Unqueued
<1>5. Waits(queued)
  BY <1>1 DEF Sequenced, Waits
<1> QED BY <1>2, <1>3, <1>4, <1>5 DEF Sequenced, queued

\* Without a launch no op joins those that run, and none is forgotten to have run.
LEMMA GroupedSame ==
    ASSUME NEW os, NEW rs, Grouped(currentGroup, os, rs), NEW os2, NEW rs2,
           \A o \in Ops : /\ Idle(o, rs) => Idle(o, rs2)
                          /\ os[o].started => os2[o].started
    PROVE  Grouped(currentGroup, os2, rs2)
BY PlanAssumption DEF Grouped

\* Ops are launched whose turn it is, or that were released.
LEMMA GroupedLaunch ==
    ASSUME NEW current, NEW L \in SUBSET Ops, NEW bad, NEW notifies, NEW st, NEW os,
           NEW rs \in RunMap, NEW ctl, NEW tr, Launch(L, bad, notifies, st, os, rs, ctl, tr),
           Grouped(current, os, rs),
           \A o \in L : \/ GroupOf[o] = current
                        \/ /\ 0 < current
                           /\ DependenciesFirst => current < GroupOf[o]
                           /\ \E d \in Dependencies[o] : os[d].started
    PROVE  Grouped(current, opState', runs')
<1>1. ASSUME NEW o \in Ops, os[o].started PROVE opState'[o].started
  BY <1>1 DEF Launch, LaunchedState, OpState
<1>2. ASSUME NEW o \in Ops, ~Idle(o, runs')
      PROVE  \/ GroupOf[o] = current
             \/ /\ 0 < current
                /\ DependenciesFirst => current < GroupOf[o]
                /\ \E d \in Dependencies[o] : os[d].started
  <2>1. CASE o \in L
    BY <2>1
  <2>2. CASE o \notin L
    <3>1. ~Idle(o, rs)
      BY <1>2, <2>2, LaunchIdle
    <3> QED BY <3>1 DEF Grouped
  <2> QED BY <2>1, <2>2
<1> QED BY <1>1, <1>2, PlanAssumption DEF Grouped

\* An op released by one that runs is of the active group or ahead of its turn.
LEMMA ReleasedGroup ==
    ASSUME Typed, Grouped(currentGroup, opState, runs), NEW o \in Ops, ~Idle(o, runs),
           opState[o].started, NEW p \in Dependents(o), NEW os, os[o].started
    PROVE  \/ GroupOf[p] = currentGroup
           \/ /\ 0 < currentGroup
              /\ DependenciesFirst => currentGroup < GroupOf[p]
              /\ \E d \in Dependencies[p] : os[d].started
<1>1. p \in Ops /\ o \in Dependencies[p]
  BY DEF Dependents
<1>2. /\ GroupOf[o] \in Nat \ {0} /\ GroupOf[p] \in Nat \ {0} /\ currentGroup \in Nat
  BY <1>1, PlanAssumption DEF Typed
<1>3. 0 < currentGroup /\ (DependenciesFirst => currentGroup <= GroupOf[o])
  BY <1>2 DEF Grouped
<1>4. DependenciesFirst => GroupOf[o] <= GroupOf[p]
  BY <1>1 DEF DependenciesFirst
<1> QED BY <1>1, <1>2, <1>3, <1>4

-------------------------------------------------------------------------------
(* The actions.                                                               *)

\* The loop goes on to another group or to the end.
LEMMA AdvanceSequence ==
    ASSUME Typed, runtime # "recreating", \A o \in Ops : Idle(o, runs),
           NEW st \in StatusMap, Advance(st), Queued(st, opState, runs, abortReason),
           UNCHANGED <<abortReason, lockVars>>,
           InSequence, abortReason = "none" => Sequenced({}, st, opState, runs)
    PROVE  InSequence'
<1>1. UNCHANGED <<abortReason, lockedOperations>>
  BY DEF lockVars
<1>2. currentGroup \in Nat /\ NGroups \in Nat
  BY PlanAssumption DEF Typed
<1>3. CASE /\ \A g \in (currentGroup + 1)..NGroups : Startable(g, st) = {}
           /\ FinishFlow(st)
  <2>1. /\ operationStatus' = QueuedStatus(currentGroup, NGroups, st)
        /\ opState' = opState /\ runs' = runs
    BY <1>3 DEF FinishFlow
  <2>2. \A g \in (currentGroup + 1)..(NGroups - 1) : Startable(g, st) = {}
    BY <1>2, <1>3
  <2>3. abortReason = "none" => Sequenced({}, operationStatus', opState', runs')
    BY <1>2, <2>1, <2>2, QueuedSequenced
  <2>4. Grouped(currentGroup', opState', runs')
    BY <2>1 DEF Grouped
  <2> QED BY <1>1, <2>3, <2>4 DEF InSequence
<1>4. ASSUME NEW h \in (currentGroup + 1)..NGroups, NEW bad, EnterGroup(h, st, bad),
             \A g \in (currentGroup + 1)..(h - 1) : Startable(g, st) = {}
      PROVE  InSequence'
  <2> DEFINE L == Startable(h, st)
             queued == QueuedStatus(currentGroup, h, st)
  <2>1. /\ Launch(L, bad, TRUE, queued, opState, runs, abortControllerMap, tracked)
        /\ currentGroup' = h
    BY <1>4 DEF EnterGroup
  <2>2. /\ L \in SUBSET Ops /\ runs \in RunMap /\ h \in Nat
        /\ \A o \in L : GroupOf[o] = h /\ st[o] = "pending"
        /\ \A o \in L, d \in Ops : Dependencies[o] = {d} => st[d] \in {"finished", "stopped"}
    BY <1>2 DEF Startable, Typed
  <2>3. \A o \in Ops : st[o] # "pending" => queued[o] = st[o]
    BY DEF QueuedStatus
  <2>4. \A o \in Ops : st[o] = "pending" => queued[o] \in {"pending", "starting", "waiting"}
    BY DEF QueuedStatus
  <2>5. abortReason = "none" => Sequenced({}, queued, opState, runs)
    BY <1>2, <1>4, <2>2, QueuedSequenced
  <2> HIDE DEF L, queued
  <2>6. Grouped(currentGroup', opState', runs')
    <3>1. Grouped(h, opState, runs)
      BY DEF Grouped
    <3> QED BY <2>1, <2>2, <3>1, GroupedLaunch
  <2>7. ASSUME abortReason = "none"
        PROVE  Sequenced({}, operationStatus', opState', runs')
    <3>1. Sequenced(L, queued, opState, runs)
      BY <2>5, <2>7 DEF Sequenced, Releases
    <3>2. \A o \in L : Idle(o, runs) /\ ~opState[o].ended /\ queued[o] # "stopped"
      BY <2>2, <2>4, <2>7 DEF Sequenced, Kept, Unqueued
    <3>3. \A o \in L, d \in Ops : Dependencies[o] = {d} => Beyond(d, queued, opState, runs)
      BY <2>2, <2>3, <2>7 DEF Sequenced, Kept, Beyond
    <3> QED BY <2>1, <2>2, <2>7, <3>1, <3>2, <3>3, LaunchSequenced
  <2> QED BY <1>1, <2>6, <2>7 DEF InSequence
<1> QED BY <1>3, <1>4 DEF Advance

LEMMA StopSequence ==
    ASSUME Typed, InOrder, Ordered, InSequence, NEW T \in SUBSET Ops, NEW st, Stop(T, st),
           \A o \in Ops : \/ st[o] = operationStatus[o]
                          \/ st[o] = "stopping" /\ (o \in T \/ tracked[o] # NoSlot)
    PROVE  InSequence'
<1>1. /\ operationStatus' = StopStatus(T, tracked, st)
      /\ opState' = StopState(T, tracked, opState)
      /\ runs' = AbortedRuns(T, runs, "stopped")
      /\ lockedOperations' = Locked(T, tracked, lockedOperations, "STOPPING")
      /\ UNCHANGED <<abortReason, currentGroup>>
  BY DEF Stop, stopVars, flowVars
<1>2. ASSUME NEW o \in Ops
      PROVE  Idle(o, runs) <=> tracked[o] = NoSlot
  BY UntrackedIsIdle DEF InOrder, OpsInOrder, Ordered, Led, Tracks, Typed, SlotMap, Idle
<1>3. ASSUME NEW o \in Ops, NEW k \in Slots
      PROVE  /\ runs'[o][k].phase = runs[o][k].phase
             /\ runs'[o][k].notifies = runs[o][k].notifies
             /\ runs'[o][k].armed = runs[o][k].armed
  BY <1>1 DEF AbortedRuns, AbortRun, Typed, RunMap, Run
<1>4. ASSUME NEW o \in Ops
      PROVE  /\ \/ operationStatus'[o] = operationStatus[o]
                \/ operationStatus'[o] = "stopping"
                     /\ (operationStatus[o] = "stopped" => ~Idle(o, runs))
                \/ operationStatus'[o] = "stopped" /\ Idle(o, runs)
             /\ \/ opState'[o] = opState[o]
                \/ /\ operationStatus'[o] = "stopped" /\ opState'[o].ended
                   /\ opState'[o].started = opState[o].started
  <2>1. operationStatus'[o] = IF o \notin T THEN st[o]
                              ELSE IF tracked[o] = NoSlot THEN "stopped" ELSE "stopping"
    BY <1>1 DEF StopStatus
  <2>2. opState'[o] = IF o \in T /\ tracked[o] = NoSlot THEN EndedAsStopped(opState[o])
                      ELSE opState[o]
    BY <1>1 DEF StopState
  <2>3. \/ EndedAsStopped(opState[o]) = opState[o]
        \/ EndedAsStopped(opState[o]).ended
             /\ EndedAsStopped(opState[o]).started = opState[o].started
    BY DEF EndedAsStopped, Typed, StateMap, OpStates
  <2> QED BY <1>2, <2>1, <2>2, <2>3
<1>5. ASSUME abortReason = "none"
      PROVE  Sequenced({}, operationStatus', opState', runs')
  <2>1. Sequenced({}, operationStatus, opState, runs)
    BY <1>5 DEF InSequence
  <2>2. \A o \in Ops, k \in Slots : runs[o][k].phase = "free" => ~runs'[o][k].armed
    BY <1>3, <2>1 DEF Sequenced, Kept
  <2> QED BY <1>3, <1>4, <2>1, <2>2, HaltSequenced
<1>6. Grouped(currentGroup', opState', runs')
  <2>1. \A o \in Ops : /\ Idle(o, runs) => Idle(o, runs')
                       /\ opState[o].started => opState'[o].started
    BY <1>3, <1>4 DEF Idle
  <2> QED BY <1>1, <2>1, GroupedSame DEF InSequence
<1>7. \A o \in Ops : lockedOperations'[o] # "RESTARTING"
  BY <1>1 DEF Locked, InSequence
<1> QED BY <1>1, <1>5, <1>6, <1>7 DEF InSequence

LEMMA JobStopSequence ==
    ASSUME Typed, InSequence, NEW reason \in JobStops, JobStop(reason)
    PROVE  InSequence'
<1>1. abortReason' # "none" /\ UNCHANGED <<currentGroup, lockedOperations>>
  BY KindAssumption DEF JobStop, flowVars, lockVars
<1>2. \A o \in Ops : Idle(o, runs) => Idle(o, runs')
  BY AbortRunKeeps DEF JobStop, Idle, Typed, RunMap
<1>3. \A o \in Ops : opState[o].started => opState'[o].started
  BY DEF JobStop
<1> QED BY <1>1, <1>2, <1>3, GroupedSame DEF InSequence

\* In rs run k of op o is in this phase, and the other runs are what they were.
MovedTo(o, k, phase, rs) ==
    /\ rs[o][k].phase = phase /\ rs[o][k].notifies = runs[o][k].notifies
    /\ \A p \in Ops, j \in Slots : p # o \/ j # k => rs[p][j] = runs[p][j]

LEMMA MoveMoves ==
    ASSUME runs \in RunMap, NEW o \in Ops, NEW k \in Slots, NEW phase \in Phases, NEW b
    PROVE  /\ MovedTo(o, k, phase, MoveRun(o, k, phase))
           /\ MovedTo(o, k, phase, [MoveRun(o, k, phase) EXCEPT ![o][k].armed = b])
<1>1. MovedTo(o, k, phase, MoveRun(o, k, phase))
  BY DEF MovedTo, MoveRun, RunMap, Run
<1>2. MoveRun(o, k, phase) \in RunMap
  BY MoveRunType
<1>3. MovedTo(o, k, phase, [MoveRun(o, k, phase) EXCEPT ![o][k].armed = b])
  BY <1>1, <1>2 DEF MovedTo, RunMap, Run
<1> QED BY <1>1, <1>3

LEMMA MovedIdle ==
    ASSUME NEW o \in Ops, NEW k \in Slots, runs[o][k].phase # "free", NEW phase, NEW rs,
           MovedTo(o, k, phase, rs), NEW p \in Ops, Idle(p, runs)
    PROVE  Idle(p, rs)
BY DEF MovedTo, Idle

\* One run moves on, and its op may record its end.
LEMMA MovedSequenced ==
    ASSUME Sequenced({}, operationStatus, opState, runs), OneTracked(runs, tracked),
           NEW L, NEW o \in Ops, NEW k \in Slots, runs[o][k].phase # "free",
           NEW phase, phase # "free", NEW st, NEW os, NEW rs, MovedTo(o, k, phase, rs),
           \A p \in Ops \ {o} : st[p] = operationStatus[p] /\ os[p] = opState[p],
           phase \in Working => runs[o][k].phase \in Working,
           phase \notin Working => os[o].ended,
           \/ /\ st[o] = operationStatus[o] /\ os[o] = opState[o]
              /\ runs[o][k].phase \notin Behind => phase \notin Behind
           \/ /\ st[o] \in {"finished", "failed", "stopped"} /\ os[o].ended
              /\ runs[o][k].phase \in Working /\ phase \notin Working,
           \/ o \in Exposed \/ Shown(o, operationStatus, runs)
           \/ st[o] # "finished" /\ phase # "up"
           \/ \A p \in Dependents(o) \ L : operationStatus[p] \notin Unqueued
    PROVE  Sequenced(L, st, os, rs)
<1>1. \A j \in Slots : runs[o][j].phase # "free" => j = k
  BY DEF OneTracked
<1>2. \A p \in Ops \ {o} : /\ st[p] = operationStatus[p] /\ os[p] = opState[p]
                           /\ \A j \in Slots : rs[p][j] = runs[p][j]
  BY DEF MovedTo
<1>3. \A j \in Slots : j # k => rs[o][j] = runs[o][j] /\ runs[o][j].phase = "free"
  BY <1>1 DEF MovedTo
<1>4. rs[o][k].phase = phase /\ rs[o][k].notifies = runs[o][k].notifies
  BY DEF MovedTo
<1>5. \A j \in Slots : /\ rs[o][j].phase = "free" => ~rs[o][j].armed
                       /\ rs[o][j].phase # "free" => rs[o][j].notifies
                       /\ rs[o][j].phase \notin Working \cup {"free"} => os[o].ended
                       /\ rs[o][j].phase \in Working => runs[o][j].phase \in Working
  BY <1>3, <1>4 DEF Sequenced, Kept
<1>6. \/ /\ st[o] = operationStatus[o] /\ os[o] = opState[o]
         /\ \/ opState[o].ended
            \/ \A j \in Slots : runs[o][j].phase \notin Behind => rs[o][j].phase \notin Behind
      \/ /\ st[o] \in {"finished", "failed", "stopped"}
         /\ os[o].ended /\ opState[o].started
         /\ \A j \in Slots : rs[o][j].phase \notin Working
  BY <1>3, <1>4 DEF Sequenced, Kept, Behind, Working
<1>7. \/ o \in Exposed \/ ~Shown(o, st, rs) \/ Shown(o, operationStatus, runs)
      \/ \A p \in Dependents(o) \ L : operationStatus[p] \notin Unqueued
  <2>1. ASSUME st[o] # "finished", phase # "up" PROVE ~Shown(o, st, rs)
    BY <1>3, <1>4, <2>1 DEF Shown
  <2> QED BY <2>1
<1>8. GoesOn(L, o, operationStatus, opState, runs, st, os, rs)
  BY <1>2, <1>5, <1>6, <1>7 DEF GoesOn
<1> QED BY <1>8, RunSequenced

\* A step of a run in which nothing is launched.
LEMMA RunSequence ==
    ASSUME Typed, OpsInOrder, InSequence, NEW o \in Ops, NEW k \in Slots,
           runs[o][k].phase # "free", NEW phase \in Phases, phase # "free",
           MovedTo(o, k, phase, runs'), UNCHANGED <<currentGroup, abortReason, lockVars>>,
           \A p \in Ops \ {o} : /\ operationStatus'[p] = operationStatus[p]
                                /\ opState'[p] = opState[p],
           phase \in Working => runs[o][k].phase \in Working,
           opState[o].started => opState'[o].started,
           \/ /\ operationStatus'[o] = operationStatus[o] /\ opState'[o] = opState[o]
              /\ runs[o][k].phase \notin Behind => phase \notin Behind
              /\ phase \notin Working => runs[o][k].phase \notin Working
              /\ phase = "up" => runs[o][k].phase = "up"
           \/ /\ operationStatus'[o] \in {"finished", "failed", "stopped"} /\ opState'[o].ended
              /\ runs[o][k].phase \in Working /\ phase \notin Working
              /\ operationStatus'[o] = "finished" => o \in Exposed \/ runs[o][k].phase = "up"
    PROVE  InSequence'
<1>1. UNCHANGED <<currentGroup, abortReason, lockedOperations>>
  BY DEF lockVars
<1>2. Grouped(currentGroup', opState', runs')
  <2>1. \A p \in Ops : /\ Idle(p, runs) => Idle(p, runs')
                       /\ opState[p].started => opState'[p].started
    BY MovedIdle
  <2> QED BY <1>1, <2>1, GroupedSame DEF InSequence
<1>3. ASSUME abortReason = "none"
      PROVE  Sequenced({}, operationStatus', opState', runs')
  <2>1. Sequenced({}, operationStatus, opState, runs) /\ OneTracked(runs, tracked)
    BY <1>3 DEF InSequence, OpsInOrder
  <2>2. phase \notin Working => opState'[o].ended
    BY <2>1 DEF Sequenced, Kept
  <2>3. \/ o \in Exposed \/ Shown(o, operationStatus, runs)
        \/ operationStatus'[o] # "finished" /\ phase # "up"
    BY DEF Shown, Working
  <2>4. \/ /\ operationStatus'[o] = operationStatus[o] /\ opState'[o] = opState[o]
           /\ runs[o][k].phase \notin Behind => phase \notin Behind
        \/ /\ operationStatus'[o] \in {"finished", "failed", "stopped"} /\ opState'[o].ended
           /\ runs[o][k].phase \in Working /\ phase \notin Working
    OBVIOUS
  <2>5. \/ o \in Exposed \/ Shown(o, operationStatus, runs)
        \/ operationStatus'[o] # "finished" /\ phase # "up"
        \/ \A p \in Dependents(o) \ {} : operationStatus[p] \notin Unqueued
    BY <2>3
  <2> QED BY <2>1, <2>2, <2>4, <2>5, MovedSequenced
<1> QED BY <1>1, <1>2, <1>3 DEF InSequence

LEMMA EndInErrorSequence ==
    ASSUME Typed, OpsInOrder, InSequence, NEW o \in Ops, NEW k \in Slots,
           runs[o][k].phase \in Working, NEW reason, EndInError(o, k, reason)
    PROVE  InSequence'
<1> DEFINE phase == IF o \in Volumes THEN "resolved" ELSE "teardown"
           state == OpState(Outcome(reason, "failed"), TRUE)
<1>1. /\ runs' = [MoveRun(o, k, phase) EXCEPT ![o][k].armed = FALSE]
      /\ operationStatus' = [operationStatus EXCEPT
                               ![o] = IF reason = "none" THEN "failed" ELSE "stopped"]
      /\ opState' = [opState EXCEPT ![o] = state]
      /\ UNCHANGED <<currentGroup, abortReason, lockVars>>
  BY DEF EndInError, Reports, OpsInOrder, RunsCalm, CalmRun, flowVars, stopVars
<1>2. state.started /\ state.ended
  BY DEF OpState
<1>3. /\ phase \in Phases /\ phase # "free" /\ phase \notin Working
      /\ runs[o][k].phase # "free"
  BY DEF Phases, Working
<1> HIDE DEF phase, state
<1>4. MovedTo(o, k, phase, runs')
  BY <1>1, <1>3, MoveMoves DEF Typed
<1>5. /\ operationStatus'[o] \in {"failed", "stopped"} /\ opState'[o] = state
      /\ \A p \in Ops \ {o} : operationStatus'[p] = operationStatus[p] /\ opState'[p] = opState[p]
  BY <1>1 DEF Typed, StatusMap, StateMap
<1> QED BY <1>1, <1>2, <1>3, <1>4, <1>5, RunSequence

\* A run releases the ops that wait for it, when it has come up or is over.
LEMMA ReleaseSequence ==
    ASSUME ~GpuRuntime, Typed, runtime # "recreating", OpsInOrder, InSequence,
           NEW o \in Ops, NEW k \in Slots,
           runs[o][k].phase \in Working, NEW phase, phase \notin Behind,
           NEW st \in StatusMap, NEW os \in StateMap, NEW rs \in RunMap, MovedTo(o, k, phase, rs),
           \A p \in Ops \ {o} : st[p] = operationStatus[p] /\ os[p] = opState[p],
           os[o].started,
           \/ phase = "up" /\ st[o] = operationStatus[o] /\ os[o] = opState[o]
           \/ phase \notin Working /\ st[o] = "finished" /\ os[o].ended,
           NEW bad, NEW ctl, Launch(Released(o, k), bad, TRUE, st, os, rs, ctl, tracked),
           UNCHANGED <<currentGroup, abortReason, lockVars>>
    PROVE  InSequence'
<1> DEFINE L == Released(o, k)
<1>1. UNCHANGED <<currentGroup, abortReason, lockedOperations>>
  BY DEF lockVars
<1>2. /\ L \in SUBSET Ops /\ o \notin L /\ L \subseteq Dependents(o)
      /\ \A p \in L : operationStatus[p] \in Unqueued
  BY PlanAssumption DEF Released, Dependents, Unqueued
<1>3. runs[o][k].phase # "free" /\ ~Idle(o, runs)
  BY DEF Working, Idle
<1>4. \A p \in L : Idle(p, runs) /\ abortReason = "none"
  BY <1>2 DEF OpsInOrder, Queued, RunsCalm, CalmRun, Idle
<1>5. \A p \in Ops : Idle(p, runs) => Idle(p, rs)
  BY <1>3, MovedIdle
<1>6. Grouped(currentGroup, os, rs)
  <2>1. \A p \in Ops : opState[p].started => os[p].started
    OBVIOUS
  <2> QED BY <1>5, <2>1, GroupedSame DEF InSequence
<1>7. ASSUME abortReason = "none"
      PROVE  /\ Sequenced({}, operationStatus, opState, runs) /\ OneTracked(runs, tracked)
             /\ opState[o].started /\ runs[o][k].notifies
  <2>1. Sequenced({}, operationStatus, opState, runs) /\ OneTracked(runs, tracked)
    BY <1>7 DEF InSequence, OpsInOrder
  <2> QED BY <1>3, <2>1 DEF Sequenced, Kept
<1>8. ASSUME abortReason = "none"
      PROVE  Sequenced(L, st, os, rs)
  <2>1. \A p \in Dependents(o) \ L : operationStatus[p] \notin Unqueued
    BY <1>7, <1>8 DEF Released, Unqueued, OpsInOrder, RunsCalm, CalmRun
  <2>2. /\ phase # "free" /\ (phase \in Working => runs[o][k].phase \in Working)
        /\ phase \notin Working => os[o].ended
    BY DEF Behind, Working
  <2>3. \/ /\ st[o] = operationStatus[o] /\ os[o] = opState[o]
           /\ runs[o][k].phase \notin Behind => phase \notin Behind
        \/ /\ st[o] \in {"finished", "failed", "stopped"} /\ os[o].ended
           /\ runs[o][k].phase \in Working /\ phase \notin Working
    OBVIOUS
  <2> HIDE DEF L
  <2> QED BY <1>3, <1>7, <1>8, <2>1, <2>2, <2>3, MovedSequenced
<1>9. Beyond(o, st, os, rs)
  BY DEF Beyond, MovedTo
<1>10. \A p \in L : \/ GroupOf[p] = currentGroup
                    \/ /\ 0 < currentGroup
                       /\ DependenciesFirst => currentGroup < GroupOf[p]
                       /\ \E d \in Dependencies[p] : os[d].started
  BY <1>2, <1>3, <1>4, <1>7, ReleasedGroup DEF InSequence
<1>11. \A p \in L : Idle(p, rs)
  BY <1>2, <1>4, <1>5
<1>12. ASSUME abortReason = "none"
       PROVE  \A p \in L : ~os[p].ended /\ st[p] # "stopped"
  BY <1>2, <1>7, <1>12 DEF Sequenced, Kept, Unqueued
<1>13. \A p \in L, d \in Ops : Dependencies[p] = {d} => Beyond(d, st, os, rs)
  BY <1>2, <1>9 DEF Dependents
<1> HIDE DEF L
<1>14. Grouped(currentGroup, opState', runs')
  BY <1>2, <1>6, <1>10, GroupedLaunch DEF L
<1>15. ASSUME abortReason = "none"
       PROVE  Sequenced({}, operationStatus', opState', runs')
  <2>1. Launch(L, bad, TRUE, st, os, rs, ctl, tracked)
    BY DEF L
  <2>2. \A p \in L : Idle(p, rs) /\ ~os[p].ended /\ st[p] # "stopped"
    BY <1>11, <1>12, <1>15
  <2> QED BY <1>2, <1>8, <1>13, <1>15, <2>1, <2>2, LaunchSequenced
<1> QED BY <1>1, <1>14, <1>15 DEF InSequence

LEMMA StartupSuccessSequence ==
    ASSUME ~GpuRuntime, Typed, runtime # "recreating", OpsInOrder, Ordered, InSequence,
           NEW o \in Ops, NEW k \in Slots,
           StartupSuccess(o, k)
    PROVE  InSequence'
<1> DEFINE rs == MoveRun(o, k, "up")
<1>1. PICK bad : Launch(Released(o, k), bad, TRUE, operationStatus, opState, rs,
                        abortControllerMap, tracked)
  BY DEF StartupSuccess
<1>2. runs[o][k].phase \in Working /\ UNCHANGED <<currentGroup, abortReason, lockVars>>
  BY DEF StartupSuccess, InPhase, Working, flowVars, stopVars
<1>3. opState[o].started
  BY DEF StartupSuccess, InPhase, AtWork, Working, Ordered, Led, Open
<1>4. rs \in RunMap /\ MovedTo(o, k, "up", rs)
  BY MoveMoves, MoveRunType DEF Phases, Typed
<1>5. operationStatus \in StatusMap /\ opState \in StateMap /\ "up" \notin Behind
  BY DEF Typed, Behind
<1> HIDE DEF rs
<1> QED BY <1>1, <1>2, <1>3, <1>4, <1>5, ReleaseSequence

LEMMA VolumeDoneSequence ==
    ASSUME ~GpuRuntime, Typed, runtime # "recreating", OpsInOrder, InSequence,
           NEW o \in Ops, NEW k \in Slots,
           VolumeDone(o, k)
    PROVE  InSequence'
<1> DEFINE rs  == MoveRun(o, k, "resolved")
           st  == [operationStatus EXCEPT ![o] = "finished"]
           os  == [opState EXCEPT ![o] = OpState(Outcome(runs[o][k].abort, "success"), TRUE)]
           ctl == [abortControllerMap EXCEPT ![o] = NoSlot]
<1>1. PICK bad : Launch(Released(o, k), bad, TRUE, st, os, rs, ctl, tracked)
  BY DEF VolumeDone
<1>2. runs[o][k].phase \in Working /\ UNCHANGED <<currentGroup, abortReason, lockVars>>
  BY DEF VolumeDone, InPhase, Working, flowVars, stopVars
<1>3. rs \in RunMap /\ MovedTo(o, k, "resolved", rs)
  BY MoveMoves, MoveRunType DEF Phases, Typed
<1>4. /\ st \in StatusMap /\ st[o] = "finished"
      /\ \A p \in Ops \ {o} : st[p] = operationStatus[p]
  BY DEF Typed, StatusMap, Progress
<1>5. os \in StateMap /\ os[o].started /\ os[o].ended /\ \A p \in Ops \ {o} : os[p] = opState[p]
  <2>1. OpState(Outcome(runs[o][k].abort, "success"), TRUE) \in OpStates
    BY StatusOfReason, OpStateType DEF Outcome, OpStatuses
  <2>2. /\ OpState(Outcome(runs[o][k].abort, "success"), TRUE).started
        /\ OpState(Outcome(runs[o][k].abort, "success"), TRUE).ended
    BY DEF OpState
  <2> QED BY <2>1, <2>2 DEF Typed, StateMap
<1>6. "resolved" \notin Behind /\ "resolved" \notin Working
  BY DEF Behind, Working
<1> HIDE DEF rs, st, os, ctl
<1> QED BY <1>1, <1>2, <1>3, <1>4, <1>5, <1>6, ReleaseSequence

\* The timer of a run tells it to end.
LEMMA TimeoutSequence ==
    ASSUME Typed, OpsInOrder, InSequence, NEW o \in Ops, NEW k \in Slots, Timeout(o, k)
    PROVE  InSequence'
<1>1. UNCHANGED <<currentGroup, abortReason, lockedOperations, opState>>
  BY DEF Timeout, flowVars, stopVars, lockVars
<1>2. \A p \in Ops : Idle(p, runs) => Idle(p, runs')
  BY TimeoutKeeps
<1>3. Grouped(currentGroup', opState', runs')
  BY <1>1, <1>2, GroupedSame DEF InSequence
<1>4. ASSUME NEW p \in Ops, NEW j \in Slots
      PROVE  /\ runs'[p][j].phase = runs[p][j].phase
             /\ runs'[p][j].notifies = runs[p][j].notifies
             /\ ~runs[p][j].armed => ~runs'[p][j].armed
  <2>1. AbortRun(runs[o][k], "expired") \in Run /\ runs[o][k] \in Run
    BY AbortRunType DEF Typed, RunMap, Reasons
  <2>2. /\ AbortRun(runs[o][k], "expired").phase = runs[o][k].phase
        /\ AbortRun(runs[o][k], "expired").notifies = runs[o][k].notifies
    BY <2>1 DEF AbortRun, Run
  <2>3. runs'[p][j] = IF p = o /\ j = k
                      THEN [AbortRun(runs[o][k], "expired") EXCEPT !.armed = FALSE]
                      ELSE runs[p][j]
    BY DEF Timeout, Typed, RunMap
  <2> QED BY <2>1, <2>2, <2>3 DEF Run
<1>5. ASSUME abortReason = "none"
      PROVE  Sequenced({}, operationStatus', opState', runs')
  <2>1. Sequenced({}, operationStatus, opState, runs)
    BY <1>5 DEF InSequence
  <2>2. runs[o][k].armed
    BY DEF Timeout
  <2>3. ~Idle(o, runs)
    BY <2>1, <2>2 DEF Sequenced, Kept, Idle
  <2>4. /\ operationStatus'[o] = "stopping"
        /\ \A p \in Ops \ {o} : operationStatus'[p] = operationStatus[p]
    BY DEF Timeout, Typed, StatusMap
  <2>5. \A p \in Ops, j \in Slots : runs[p][j].phase = "free" => ~runs'[p][j].armed
    BY <1>4, <2>1 DEF Sequenced, Kept
  <2> QED BY <1>1, <1>4, <2>1, <2>3, <2>4, <2>5, HaltSequenced
<1> QED BY <1>1, <1>3, <1>5 DEF InSequence

\* The promise of a run settles.  Without restarts nothing is launched by it.
LEMMA SettleSequence ==
    ASSUME Typed, OpsInOrder, InSequence, NEW o \in Ops, NEW k \in Slots, Settle(o, k)
    PROVE  InSequence'
<1> DEFINE stops   == IF finaliser[o] = k /\ lockedOperations[o] = "STOPPING" THEN {o} ELSE {}
           tr      == [tracked EXCEPT ![o] = NoSlot]
           T       == StoppedServers(o)
           st      == StopStatus(T \cup stops, tr, operationStatus)
           os      == StopState(T \cup stops, tr, opState)
           aborted == AbortedRuns(T, runs, "stopped")
           rs      == [aborted EXCEPT ![o][k] = NoRun]
           gone    == [runs EXCEPT ![o][k] = NoRun]
<1>1. PICK bad : Launch({}, bad, FALSE, st, os, rs, abortControllerMap, tr)
  BY DEF Settle, InSequence
<1>2. /\ UNCHANGED <<currentGroup, abortReason>>
      /\ runs[o][k].phase # "free" /\ runs[o][k].phase \notin Working
      /\ lockedOperations' = [Locked(T, tr, lockedOperations, "STOPPING") EXCEPT
                                ![o] = IF finaliser[o] = k THEN "none" ELSE @]
  BY DEF Settle, Settled, flowVars, stopVars, Working
<1>3. /\ runs \in RunMap /\ opState \in StateMap /\ operationStatus \in StatusMap
      /\ tracked \in SlotMap /\ tracked[o] = k /\ OneTracked(runs, tracked)
  BY <1>2 DEF Typed, OpsInOrder, OneTracked
<1>4. /\ T \in SUBSET Ops /\ stops \subseteq {o}
      /\ \A p \in T : operationStatus[p] # "stopped"
  BY KindAssumption DEF StoppedServers, StoppableIn
<1>5. aborted \in RunMap /\ NoRun \in Run
  BY <1>3, AbortedRunsType DEF Reasons, NoRun, Run, Phases
<1>6. /\ st \in StatusMap /\ os \in StateMap
  BY <1>3, StopStatusType, StopStateType
<1>7. ASSUME NEW p \in Ops, NEW j \in Slots
      PROVE  /\ aborted[p][j].phase = runs[p][j].phase
             /\ aborted[p][j].notifies = runs[p][j].notifies
             /\ aborted[p][j].armed = runs[p][j].armed
  BY <1>3 DEF AbortedRuns, AbortRun, RunMap, Run
<1>8. tr[o] = NoSlot /\ \A p \in Ops \ {o} : tr[p] = tracked[p]
  BY <1>3 DEF SlotMap
<1>9. ASSUME NEW p \in Ops
      PROVE  /\ st[p] = IF p \notin T \cup stops THEN operationStatus[p]
                        ELSE IF tr[p] = NoSlot THEN "stopped" ELSE "stopping"
             /\ os[p] = IF p \in T \cup stops /\ tr[p] = NoSlot
                        THEN EndedAsStopped(opState[p]) ELSE opState[p]
  BY DEF StopStatus, StopState
<1>10. \A p \in Ops : lockedOperations'[p] # "RESTARTING"
  BY <1>2 DEF InSequence, Locked
<1> HIDE DEF stops, tr, T, st, os, aborted
<1>11. /\ rs \in RunMap
       /\ \A p \in Ops, j \in Slots : rs[p][j] = IF p = o /\ j = k THEN NoRun ELSE aborted[p][j]
       /\ \A p \in Ops, j \in Slots : gone[p][j] = IF p = o /\ j = k THEN NoRun ELSE runs[p][j]
  BY <1>3, <1>5 DEF RunMap
<1> HIDE DEF rs, gone
<1>12. operationStatus' = st /\ opState' = os /\ runs' = rs
  BY <1>1, <1>6, <1>11, LaunchNone
<1>13. ASSUME NEW p \in Ops
       PROVE  /\ os[p].started = opState[p].started
              /\ os[p] # opState[p] => st[p] = "stopped" /\ os[p].ended
  <2>1. /\ EndedAsStopped(opState[p]).started = opState[p].started
        /\ EndedAsStopped(opState[p]) # opState[p] => EndedAsStopped(opState[p]).ended
    BY <1>3 DEF EndedAsStopped, StateMap, OpStates
  <2> QED BY <1>9, <2>1
<1>14. Grouped(currentGroup', opState', runs')
  <2>1. \A p \in Ops : Idle(p, runs) => Idle(p, runs')
    BY SettleIdle
  <2> QED BY <1>2, <1>12, <1>13, <2>1, GroupedSame DEF InSequence
<1>15. ASSUME abortReason = "none"
       PROVE  Sequenced({}, st, os, rs)
  <2>1. Sequenced({}, operationStatus, opState, runs)
    BY <1>15 DEF InSequence
  <2>2. NoRun.phase = "free" /\ ~NoRun.armed
    BY DEF NoRun
  <2>3. GoesOn({}, o, operationStatus, opState, runs, operationStatus, opState, gone)
    <3>1. opState[o].ended
      BY <1>2, <2>1 DEF Sequenced, Kept
    <3>2. \A j \in Slots : /\ gone[o][j].phase = "free" => ~gone[o][j].armed
                           /\ gone[o][j].phase # "free" => gone[o][j] = runs[o][j]
      BY <1>11, <2>1, <2>2 DEF Sequenced, Kept
    <3>3. ~Shown(o, operationStatus, gone) \/ Shown(o, operationStatus, runs)
      BY <3>2 DEF Shown
    <3>4. \A j \in Slots : /\ gone[o][j].phase = "free" => ~gone[o][j].armed
                           /\ gone[o][j].phase # "free" => gone[o][j].notifies
                           /\ gone[o][j].phase \in Working => runs[o][j].phase \in Working
      BY <2>1, <3>2 DEF Sequenced, Kept, Working
    <3> QED BY <1>11, <3>1, <3>3, <3>4 DEF GoesOn
  <2>4. Sequenced({}, operationStatus, opState, gone)
    BY <2>1, <2>3, RunSequenced
  <2>5. ASSUME NEW p \in Ops, tr[p] = NoSlot
        PROVE  Idle(p, gone)
    <3>1. CASE p = o
      BY <1>3, <1>11, <2>2, <3>1 DEF OneTracked, Idle
    <3>2. CASE p # o
      BY <1>3, <1>8, <1>11, <2>5, <3>2, UntrackedIsIdle DEF Idle
    <3> QED BY <3>1, <3>2
  <2>6. ASSUME NEW p \in Ops
        PROVE  /\ \/ st[p] = operationStatus[p]
                  \/ st[p] = "stopping" /\ operationStatus[p] # "stopped"
                  \/ st[p] = "stopped" /\ Idle(p, gone)
               /\ \/ os[p] = opState[p]
                  \/ st[p] = "stopped" /\ os[p].ended /\ os[p].started = opState[p].started
    <3>1. p \in stops => tr[p] = NoSlot
      BY <1>4, <1>8
    <3> QED BY <1>4, <1>9, <1>13, <2>5, <3>1
  <2>7. \A p \in Ops, j \in Slots : /\ rs[p][j].phase = gone[p][j].phase
                                    /\ rs[p][j].notifies = gone[p][j].notifies
                                    /\ gone[p][j].phase = "free" => ~rs[p][j].armed
    <3>1. \A p \in Ops, j \in Slots : runs[p][j].phase = "free" => ~runs[p][j].armed
      BY <2>1 DEF Sequenced, Kept
    <3> QED BY <1>7, <1>11, <2>2, <3>1
  <2> QED BY <2>4, <2>6, <2>7, HaltSequenced
<1> QED BY <1>2, <1>10, <1>12, <1>14, <1>15 DEF InSequence

LEMMA RunStepSequence ==
    ASSUME ~TeardownMayFail, ~GpuRuntime, Typed, InOrder, Ordered, InSequence,
           NEW o \in Ops, NEW k \in Slots, RunStep(o, k)
    PROVE  InSequence'
<1>1. OpsInOrder /\ runtime # "recreating" /\ runs \in RunMap
  BY DEF InOrder, FlowInOrder, Typed
<1>2. CASE ContainerStarted(o, k)
  <2>1. /\ runs[o][k].phase = "creating"
        /\ runs' = [MoveRun(o, k, "started") EXCEPT ![o][k].armed = o \in Timed]
        /\ UNCHANGED <<operationStatus, opState, currentGroup, abortReason, lockVars>>
    BY <1>2 DEF ContainerStarted, InPhase, flowVars, stopVars
  <2>2. "started" \in Phases /\ {"creating", "started"} \subseteq Working \cap Behind
    BY DEF Phases, Working, Behind
  <2>3. MovedTo(o, k, "started", runs')
    BY <1>1, <2>1, <2>2, MoveMoves
  <2> QED BY <1>1, <2>1, <2>2, <2>3, RunSequence
<1>3. CASE StartupSuccess(o, k)
  BY <1>1, <1>3, StartupSuccessSequence
<1>4. ASSUME NEW status \in {"success", "failed"}, Exit(o, k, status)
      PROVE  InSequence'
  <2> DEFINE state == OpState(status, TRUE)
  <2>1. /\ runs[o][k].phase \in Working /\ (o \in Exposed \/ runs[o][k].phase = "up")
        /\ runs' = [MoveRun(o, k, "teardown") EXCEPT ![o][k].armed = FALSE]
        /\ operationStatus' = [operationStatus EXCEPT ![o] = "finished"]
        /\ opState' = [opState EXCEPT ![o] = state]
        /\ UNCHANGED <<currentGroup, abortReason, lockVars>>
    BY <1>1, <1>4
    DEF Exit, InPhase, Reports, OpsInOrder, RunsCalm, CalmRun, flowVars, stopVars, Working
  <2>2. state.started /\ state.ended
    BY DEF OpState
  <2> HIDE DEF state
  <2>3. "teardown" \in Phases \ (Working \cup {"free"}) /\ runs[o][k].phase # "free"
    BY <2>1 DEF Phases, Working
  <2>4. MovedTo(o, k, "teardown", runs')
    BY <1>1, <2>1, <2>3, MoveMoves
  <2>5. /\ operationStatus'[o] = "finished" /\ opState'[o] = state
        /\ \A p \in Ops \ {o} : operationStatus'[p] = operationStatus[p] /\ opState'[p] = opState[p]
    BY <2>1 DEF Typed, StatusMap, StateMap
  <2> QED BY <1>1, <2>1, <2>2, <2>3, <2>4, <2>5, RunSequence
<1>5. CASE Fail(o, k) \/ LoseExit(o, k)
  <2>1. runs[o][k].phase \in Working /\ \E reason : EndInError(o, k, reason)
    BY <1>5 DEF Fail, LoseExit, InPhase, Working
  <2> QED BY <1>1, <2>1, EndInErrorSequence
<1>6. CASE VolumeDone(o, k)
  BY <1>1, <1>6, VolumeDoneSequence
<1>7. CASE Timeout(o, k)
  BY <1>1, <1>7, TimeoutSequence
<1>8. CASE TeardownDone(o, k)
  <2>1. /\ runs[o][k].phase = "teardown" /\ runs' = MoveRun(o, k, "resolved")
        /\ UNCHANGED <<operationStatus, opState, currentGroup, abortReason, lockVars>>
    BY <1>1, <1>8 DEF TeardownDone, InPhase, OpsInOrder, RunsCalm, CalmRun, flowVars, stopVars
  <2>2. /\ "resolved" \in Phases \ {"free"} /\ "up" \notin {"teardown", "resolved"}
        /\ "resolved" \notin Working \cup Behind /\ "teardown" \notin Working \cup Behind
    BY DEF Phases, Working, Behind
  <2>3. MovedTo(o, k, "resolved", runs')
    BY <1>1, <2>1, <2>2, MoveMoves
  <2> QED BY <1>1, <2>1, <2>2, <2>3, RunSequence
<1>9. CASE Settle(o, k)
  BY <1>1, <1>9, SettleSequence
<1> QED BY <1>2, <1>3, <1>4, <1>5, <1>6, <1>7, <1>8, <1>9 DEF RunStep

LEMMA RequestSequence ==
    ASSUME Requests \cap {"restartOp", "restartGroup"} = {},
           Typed, InOrder, Ordered, InSequence, Request
    PROVE  InSequence'
<1>1. ASSUME NEW o \in Ops, StopOperation(o)
      PROVE  InSequence'
  <2>1. Stop({o}, operationStatus)
    BY <1>1 DEF StopOperation
  <2> QED BY <2>1, StopSequence
<1>2. CASE StopGroup
  <2> DEFINE members == {o \in Ops : GroupOf[o] = currentGroup}
             st == [o \in Ops |-> IF o \in members THEN "stopping" ELSE operationStatus[o]]
             T  == StoppableIn(members, st)
  <2>1. Stop(T, st) /\ T \in SUBSET Ops
    BY <1>2 DEF StopGroup, StoppableIn
  <2>2. ASSUME NEW o \in Ops
        PROVE  \/ st[o] = operationStatus[o]
               \/ st[o] = "stopping" /\ (o \in T \/ tracked[o] # NoSlot)
    <3>1. CASE o \in members /\ lockedOperations[o] # "none"
      BY <3>1 DEF Ordered, Locks, Ending
    <3>2. CASE o \in members /\ lockedOperations[o] = "none"
      BY <3>2 DEF StoppableIn
    <3> QED BY <3>1, <3>2
  <2> HIDE DEF members, st, T
  <2> QED BY <2>1, <2>2, StopSequence
<1>3. ASSUME NEW o \in Ops, RestartOperation(o)
      PROVE  FALSE
  BY <1>3 DEF RestartOperation
<1>4. CASE RestartGroup
  BY <1>4 DEF RestartGroup
<1>5. ASSUME NEW reason \in JobStops, JobStop(reason)
      PROVE  InSequence'
  BY <1>5, JobStopSequence
<1> QED BY <1>1, <1>2, <1>3, <1>4, <1>5 DEF Request

LEMMA StartSequence ==
    ASSUME ~GpuRuntime, Invariant, InSequence, Start
    PROVE  InSequence'
<1> DEFINE st == [o \in Ops |-> "pending"]
<1>1. Advance(st) /\ pc = "bootstrapped" /\ UNCHANGED <<abortReason, lockVars>>
  BY DEF Start, stopVars
<1>2. Queued(st, opState, runs, abortReason) /\ \A o \in Ops : Idle(o, runs)
  BY <1>1 DEF Invariant, InOrder, OpsInOrder, FlowInOrder, Queued, Idle, Unqueued, Unstarted
<1>3. \A o \in Ops : st[o] = "pending" /\ operationStatus[o] = "init"
  BY <1>1 DEF Invariant, Unstarted
<1>4. st \in StatusMap
  BY DEF StatusMap, Progress
<1> HIDE DEF st
<1>5. ASSUME abortReason = "none"
      PROVE  Sequenced({}, st, opState, runs)
  <2>1. Sequenced({}, operationStatus, opState, runs)
    BY <1>5 DEF InSequence
  <2>2. Kept(st, opState, runs)
    BY <1>2, <1>3, <2>1 DEF Sequenced, Kept, Unqueued, Idle, Working
  <2>3. AfterDependencies(st, opState, runs)
    BY <1>2, <1>3 DEF AfterDependencies, Queued, Unqueued
  <2>4. Releases({}, st, runs) /\ Waits(st)
    BY <1>2, <1>3 DEF Releases, Shown, Waits, Idle
  <2> QED BY <2>2, <2>3, <2>4 DEF Sequenced
<1> QED BY <1>1, <1>2, <1>4, <1>5, AdvanceSequence DEF Invariant, InOrder, FlowInOrder

LEMMA SequenceNext ==
    ASSUME ~TeardownMayFail, ~GpuRuntime, Requests \cap {"restartOp", "restartGroup"} = {},
           Invariant, Ordered, InSequence, [Next]_vars
    PROVE  InSequence'
<1>1. Typed /\ InOrder
  BY DEF Invariant
<1>2. CASE Start
  BY <1>2, StartSequence
<1>3. CASE GroupEnd
  <2>1. \A o \in Ops : Idle(o, runs)
    BY <1>1, <1>3, UntrackedIsIdle DEF GroupEnd, NothingTracked, InOrder, OpsInOrder
  <2>2. Advance(operationStatus) /\ UNCHANGED <<abortReason, lockVars>>
    BY <1>3 DEF GroupEnd, stopVars
  <2>3. operationStatus \in StatusMap /\ runtime # "recreating"
    BY <1>1 DEF Typed, InOrder, FlowInOrder
  <2>4. Queued(operationStatus, opState, runs, abortReason)
    BY <1>1 DEF InOrder, OpsInOrder
  <2>5. abortReason = "none" => Sequenced({}, operationStatus, opState, runs)
    BY DEF InSequence
  <2> QED BY <1>1, <2>1, <2>2, <2>3, <2>4, <2>5, AdvanceSequence
<1>4. CASE Request
  BY <1>1, <1>4, RequestSequence
<1>5. CASE FailFlow \/ RecreateEnds
  BY <1>1, <1>5 DEF FailFlow, RecreateEnds, InOrder, FlowInOrder
<1>6. CASE AwaitAgain \/ CleanUp \/ StopReturns \/ UNCHANGED vars
  <2>1. UNCHANGED <<currentGroup, opVars, lockVars, abortReason>>
    BY <1>6 DEF AwaitAgain, CleanUp, StopReturns, vars, flowVars, stopVars
  <2> QED BY <2>1 DEF InSequence, opVars, lockVars
<1>7. ASSUME NEW o \in Ops, NEW k \in Slots, RunStep(o, k)
      PROVE  InSequence'
  BY <1>1, <1>7, RunStepSequence
<1>8. ASSUME NEW o \in Ops, NEW k \in Slots, RuntimeStep(o, k)
      PROVE  FALSE
  BY <1>1, <1>8, NoRuntimeStep DEF InOrder, FlowInOrder, OpsInOrder
<1> QED BY <1>2, <1>3, <1>4, <1>5, <1>6, <1>7, <1>8 DEF Next

LEMMA SequenceInit == Init => InSequence
<1> SUFFICES ASSUME Init PROVE InSequence
  OBVIOUS
<1>1. ASSUME NEW o \in Ops
      PROVE  /\ \A k \in Slots : runs[o][k].phase = "free" /\ ~runs[o][k].armed
             /\ operationStatus[o] = "init" /\ lockedOperations[o] = "none"
             /\ ~opState[o].started /\ ~opState[o].ended
  BY DEF Init, NoRun
<1>2. Kept(operationStatus, opState, runs)
  BY <1>1 DEF Kept, Working
<1>3. AfterDependencies(operationStatus, opState, runs)
  BY <1>1 DEF AfterDependencies
<1>4. Releases({}, operationStatus, runs) /\ Waits(operationStatus)
  BY <1>1 DEF Releases, Shown, Waits
<1>5. Grouped(currentGroup, opState, runs)
  BY <1>1 DEF Grouped, Idle
<1> QED BY <1>1, <1>2, <1>3, <1>4, <1>5 DEF InSequence, Sequenced

LEMMA SequenceAlways ==
    ASSUME ~TeardownMayFail, ~GpuRuntime, Requests \cap {"restartOp", "restartGroup"} = {}
    PROVE  Spec => [](Invariant /\ Ordered /\ InSequence)
<1>1. Init => InSequence
  BY SequenceInit
<1>2. Invariant /\ Ordered /\ InSequence /\ [Next]_vars => InSequence'
  BY SequenceNext
<1>3. Spec => [](Invariant /\ Ordered)
  BY OrderedAlways DEF ReleasedOnce
<1> QED BY <1>1, <1>2, <1>3, PTL DEF Spec

\* An op that waits for a single other one starts after that one reported itself up or was
\* stopped, and what runs is of the active group, or was released by an op that has run.
THEOREM StartsInOrderAlways ==
    ASSUME ~TeardownMayFail, ~GpuRuntime, Requests \cap {"restartOp", "restartGroup"} = {}
    PROVE  Spec => []StartsInOrder
<1>1. InSequence => StartsInOrder
  <2> SUFFICES ASSUME InSequence PROVE StartsInOrder
    OBVIOUS
  <2>1. StartsAfterDependency
    <3> SUFFICES ASSUME abortReason = "none", NEW o \in Ops, NEW d \in Ops,
                        Dependencies[o] = {d}, opState[o].started
                 PROVE  \/ opState[d].ended \/ operationStatus[d] = "stopped"
                        \/ \E k \in Live(d) :
                              runs[d][k].phase \notin {"ready", "creating", "started"}
      BY DEF StartsAfterDependency
    <3>1. Beyond(d, operationStatus, opState, runs)
      BY DEF InSequence, Sequenced, AfterDependencies
    <3> QED BY <3>1 DEF Beyond, Behind, Live
  <2>2. GroupsInOrder
    BY IdleIsNotLive DEF InSequence, Grouped, GroupsInOrder
  <2> QED BY <2>1, <2>2 DEF StartsInOrder
<1> QED BY <1>1, SequenceAlways, PTL

\* An op is left waiting when the flow ends only if an op it depends on did not finish, or
\* exposes a port and ended before it was healthy: no release is lost.
THEOREM OnlyBlockedOpsWaitAlways ==
    ASSUME ~TeardownMayFail, ~GpuRuntime, Requests \cap {"restartOp", "restartGroup"} = {}
    PROVE  Spec => []OnlyBlockedOpsWait
<1>1. InSequence => OnlyBlockedOpsWait
  <2> SUFFICES ASSUME InSequence, abortReason = "none", NEW o \in Ops,
                      operationStatus[o] = "waiting"
               PROVE  \E d \in Dependencies[o] : d \in Exposed \/ operationStatus[d] # "finished"
    BY DEF OnlyBlockedOpsWait
  <2>1. PICK d \in Dependencies[o] : TRUE
    BY DEF InSequence, Sequenced, Waits
  <2>2. d \in Ops /\ o \in Dependents(d)
    BY <2>1, PlanAssumption DEF Dependents
  <2>3. d \in Exposed \/ operationStatus[d] # "finished"
    BY <2>2 DEF InSequence, Sequenced, Releases, Shown, Unqueued
  <2> QED BY <2>1, <2>3
<1> QED BY <1>1, SequenceAlways, PTL
=============================================================================
