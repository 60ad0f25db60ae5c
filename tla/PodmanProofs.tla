----------------------------- MODULE PodmanProofs -----------------------------
(***************************************************************************)
(* Theorems about PodmanRuntime, for any operations, any replacements of   *)
(* the driver, and any failures of docker and deaths of the process.       *)
(***************************************************************************)
EXTENDS PodmanRuntime, TLAPS

RunMap  == [Ops -> Run]
StepMap == [Calls -> Steps]
Nodes   == [phase : {"booting", "down", "looping", "health", "queue", "job"},
            await : {"none", "pending", "ok", "failed"}, stopped : BOOLEAN]
Hosts   == [driver : 0..MaxDriver, broken : BOOLEAN, faults : 0..MaxFaults, crashes : 0..MaxCrashes]
Podmen  == [state : {"absent", "created", "running"}, driver : 0..MaxDriver, used : BOOLEAN]
Logs    == [writes : 0..MaxLog, first : {"none", "noted", "skipped"}]
Readers == [drained : 0..MaxLog, head : {"none", "this", "other"}, watching : BOOLEAN]

-------------------------------------------------------------------------------
(* What the helpers return.                                                   *)

LEMMA Bounds ==
    /\ MaxDriver \in Nat /\ MaxLog \in Nat /\ MaxCatchUp \in Nat
    /\ MaxFaults \in Nat /\ MaxCrashes \in Nat
BY PodmanAssumption

LEMMA OpsTyped == ASSUME TypeOK PROVE op \in RunMap
BY DEF TypeOK, RunMap

LEMMA IdleType == Idle \in Run /\ [Idle EXCEPT !.phase = "ended"] \in Run
BY DEF Idle, Run

LEMMA EndedType == ASSUME NEW run \in Run PROVE Ended(run) \in Run
BY IdleType DEF Ended

LEMMA EntersReadyType ==
    ASSUME NEW run \in Run, NEW retried \in BOOLEAN
    PROVE  EntersReady(run, retried) \in Run
BY DEF EntersReady, Run

\* A run that meets recreate(): it is repairing, and waits or goes on.
LEMMA RepairingType ==
    ASSUME NEW runs \in RunMap, NEW o \in Ops, NEW await \in {"none", "pending", "ok", "failed"}
    PROVE  /\ [runs EXCEPT ![o].phase = "repairing", ![o].await = await] \in RunMap
           /\ [runs EXCEPT ![o].phase = "repairing", ![o].await = await][o]
                = [runs[o] EXCEPT !.phase = "repairing", !.await = await]
<1> DEFINE one == [runs EXCEPT ![o].phase = "repairing"]
           two == [one EXCEPT ![o].await = await]
<1>1. one \in RunMap /\ one[o] = [runs[o] EXCEPT !.phase = "repairing"]
  BY DEF RunMap, Run
<1>2. two \in RunMap /\ two[o] = [one[o] EXCEPT !.await = await]
  <2> HIDE DEF one
  <2> QED BY <1>1 DEF RunMap, Run
<1> QED BY <1>1, <1>2

\* A repair that ends without another attempt.
LEMMA AbortedType ==
    ASSUME NEW runs \in RunMap, NEW o \in Ops
    PROVE  /\ [runs EXCEPT ![o].phase = "starting", ![o].await = "none", ![o].aborted = TRUE]
                \in RunMap
           /\ [runs EXCEPT ![o].phase = "starting", ![o].await = "none", ![o].aborted = TRUE][o]
                = [runs[o] EXCEPT !.phase = "starting", !.await = "none", !.aborted = TRUE]
<1> DEFINE one   == [runs EXCEPT ![o].phase = "starting"]
           two   == [one EXCEPT ![o].await = "none"]
           three == [two EXCEPT ![o].aborted = TRUE]
<1>1. one \in RunMap /\ one[o] = [runs[o] EXCEPT !.phase = "starting"]
  BY DEF RunMap, Run
<1>2. two \in RunMap /\ two[o] = [one[o] EXCEPT !.await = "none"]
  <2> HIDE DEF one
  <2> QED BY <1>1 DEF RunMap, Run
<1>3. three \in RunMap /\ three[o] = [two[o] EXCEPT !.aborted = TRUE]
  <2> HIDE DEF two
  <2> QED BY <1>2 DEF RunMap, Run
<1> QED BY <1>1, <1>2, <1>3

LEMMA RestartedType == ASSUME NEW runs \in RunMap PROVE Restarted(runs) \in RunMap
BY DEF Restarted, RunMap, Run

LEMMA WokenType ==
    ASSUME op \in RunMap, node \in Nodes, NEW outcome \in {"ok", "failed"}, Woken(outcome)
    PROVE  op' \in RunMap /\ node' \in Nodes
BY DEF Woken, RunMap, Run, Nodes

LEMMA CallEndsType ==
    ASSUME TypeOK, NEW c \in Calls, NEW outcome \in {"ok", "failed"}, CallEnds(c, outcome)
    PROVE  step' \in StepMap /\ op' \in RunMap /\ node' \in Nodes
<1>1. step' \in StepMap
  BY DEF CallEnds, TypeOK, StepMap, Steps
<1>2. CASE c = "recreate"
  BY <1>1, <1>2, WokenType DEF CallEnds, TypeOK, RunMap, Nodes
<1>3. CASE c # "recreate"
  BY <1>1, <1>3 DEF CallEnds, TypeOK, RunMap, Nodes
<1> QED BY <1>2, <1>3

LEMMA BeginRecreateType ==
    ASSUME TypeOK, BeginRecreate
    PROVE  step' \in StepMap /\ stale' \in BOOLEAN /\ fresh' \in BOOLEAN /\ prepared' \in BOOLEAN
BY DEF BeginRecreate, TypeOK, StepMap, Steps, Calls

LEMMA RepairType ==
    ASSUME TypeOK, NEW o \in Ops, Repair(o)
    PROVE  /\ op' \in RunMap /\ step' \in StepMap
           /\ stale' \in BOOLEAN /\ fresh' \in BOOLEAN /\ prepared' \in BOOLEAN
<1> DEFINE held == [op EXCEPT ![o].phase = "repairing", ![o].await = "pending"]
           goes == [op EXCEPT ![o].phase = "repairing", ![o].await = "ok"]
<1>1. held \in RunMap /\ goes \in RunMap
  BY RepairingType DEF TypeOK, RunMap
<1>2. Restarted(held) \in RunMap
  BY <1>1, RestartedType
<1>3. op' \in {held, goes, Restarted(held)}
  BY DEF Repair
<1>4. BeginRecreate \/ UNCHANGED <<step, manager>>
  BY DEF Repair
<1> HIDE DEF held, goes
<1> QED BY <1>1, <1>2, <1>3, <1>4, BeginRecreateType DEF TypeOK, StepMap, manager

-------------------------------------------------------------------------------
(* TypeOK                                                                     *)

LEMMA TypeInit == Init => TypeOK
<1> SUFFICES ASSUME Init PROVE TypeOK
  OBVIOUS
<1>1. host \in Hosts /\ log \in Logs /\ reader \in Readers /\ node \in Nodes
  BY Bounds DEF Init, Hosts, Logs, Readers, Nodes
<1>2. podman \in Podmen
  BY Bounds DEF Init, Podmen
<1>3. op \in RunMap /\ step \in StepMap
  BY IdleType DEF Init, RunMap, StepMap, Steps
<1> QED
  BY <1>1, <1>2, <1>3 DEF Init, TypeOK, Hosts, Logs, Readers, Nodes, Podmen, RunMap, StepMap

LEMMA TypeCallStep == ASSUME TypeOK, NEW c \in Calls, CallStep(c) PROVE TypeOK'
<1>1. ASSUME NEW from, NEW to \in Steps, Moves(c, from, to)
      PROVE  step' \in StepMap /\ UNCHANGED <<host, op, node>>
  BY <1>1 DEF Moves, TypeOK, StepMap
<1>2. CASE RemoveContainer(c)
  BY <1>1, <1>2 DEF RemoveContainer, TypeOK, StepMap, Steps, manager, events
<1>3. CASE InspectContainer(c)
  BY <1>1, <1>3 DEF InspectContainer, TypeOK, StepMap, Steps, manager, events
<1>4. CASE Prepare(c)
  BY <1>1, <1>4 DEF Prepare, TypeOK, StepMap, Steps, events
<1>5. CASE CreateContainer(c)
  BY <1>1, <1>5 DEF CreateContainer, TypeOK, StepMap, Steps, manager, events
<1>6. CASE BootContainer(c)
  BY <1>1, <1>6, Bounds DEF BootContainer, TypeOK, StepMap, Steps
<1>7. CASE StartContainer(c)
  BY <1>1, <1>7 DEF StartContainer, TypeOK, StepMap, Steps, manager, events
<1>8. CASE SocketAnswers(c)
  BY <1>8, CallEndsType DEF SocketAnswers, TypeOK, StepMap, RunMap, Nodes, manager, events
<1> QED BY <1>2, <1>3, <1>4, <1>5, <1>6, <1>7, <1>8 DEF CallStep

LEMMA TypeCallFails == ASSUME TypeOK, NEW c \in Calls, CallFails(c) PROVE TypeOK'
<1>1. host' \in Hosts
  BY Bounds DEF CallFails, TypeOK, Hosts
<1>2. step' \in StepMap /\ op' \in RunMap /\ node' \in Nodes
  BY CallEndsType DEF CallFails
<1>3. prepared' \in BOOLEAN /\ UNCHANGED <<podman, stale, fresh, events>>
  BY DEF CallFails
<1> QED BY <1>1, <1>2, <1>3 DEF TypeOK, Hosts, StepMap, RunMap, Nodes, events

LEMMA TypeNodeStep ==
    ASSUME TypeOK, NodeStep \/ TakeJob \/ StopJob
    PROVE  TypeOK'
<1>1. CASE Healthcheck
  <2>1. node' \in Nodes /\ UNCHANGED <<host, podman, events>>
    BY <1>1 DEF Healthcheck, TypeOK, Nodes
  <2>2. op' \in RunMap
    BY <1>1, RestartedType DEF Healthcheck, TypeOK, RunMap
  <2>3. step' \in StepMap /\ stale' \in BOOLEAN /\ fresh' \in BOOLEAN /\ prepared' \in BOOLEAN
    BY <1>1, BeginRecreateType DEF Healthcheck, TypeOK, StepMap, manager
  <2> QED BY <2>1, <2>2, <2>3 DEF TypeOK, Nodes, RunMap, StepMap, events
<1>2. CASE EnterQueue \/ HealthcheckThrows \/ LeaveQueue \/ JobOver
  BY <1>2 DEF EnterQueue, HealthcheckThrows, LeaveQueue, JobOver, TypeOK, manager, events
<1>3. CASE TakeJob
  BY <1>3, IdleType DEF TakeJob, TypeOK, manager, events
<1>4. CASE StopJob
  <2>1. op' \in RunMap
    BY <1>4, IdleType DEF StopJob, TypeOK, RunMap, Run
  <2> QED BY <1>4, <2>1 DEF StopJob, TypeOK, RunMap, manager, events
<1> QED BY <1>1, <1>2, <1>3, <1>4 DEF NodeStep

LEMMA TypeOpStep ==
    ASSUME TypeOK, NEW o \in Ops,
           OpStep(o) \/ ContainerExits(o) \/ StartFails(o, FALSE)
    PROVE  TypeOK'
<1>1. op[o] \in Run
  BY DEF TypeOK
<1>2. CASE Launch(o)
  <2>1. EntersReady(op[o], FALSE) \in Run
    BY <1>1, EntersReadyType
  <2>2. op' \in RunMap /\ fresh' \in BOOLEAN
    BY <1>2, <2>1, OpsTyped DEF Launch, RunMap
  <2>3. UNCHANGED <<host, podman, stale, prepared, step, node, log, reader>>
    BY <1>2 DEF Launch, events
  <2> QED BY <2>2, <2>3 DEF TypeOK, RunMap
<1>3. CASE ReadySettles(o)
  <2>1. Ended(op[o]) \in Run /\ [op[o] EXCEPT !.phase = "starting", !.await = "none"] \in Run
    BY <1>1, EndedType DEF Run
  <2> QED BY <1>3, <2>1 DEF ReadySettles, TypeOK, manager, events
<1>4. CASE ContainerStarts(o)
  <2>1. [op[o] EXCEPT !.phase = "working"] \in Run
    BY <1>1 DEF Run
  <2>2. op' \in RunMap /\ podman' \in Podmen
    BY <1>4, <2>1 DEF ContainerStarts, TypeOK, RunMap, Podmen
  <2> QED BY <1>4, <2>2 DEF ContainerStarts, TypeOK, RunMap, Podmen, manager, events
<1>5. ASSUME NEW onGpu \in BOOLEAN, StartFails(o, onGpu)
      PROVE  TypeOK'
  <2>1. host' \in Hosts
    BY <1>5, Bounds DEF StartFails, TypeOK, Hosts
  <2>2. /\ op' \in RunMap /\ step' \in StepMap
        /\ stale' \in BOOLEAN /\ fresh' \in BOOLEAN /\ prepared' \in BOOLEAN
    <3>1. CASE Repair(o)
      BY <3>1, RepairType
    <3>2. CASE op' = [op EXCEPT ![o] = Ended(@)] /\ UNCHANGED <<step, manager>>
      BY <1>1, <3>2, EndedType DEF TypeOK, RunMap, StepMap, manager
    <3> QED BY <1>5, <3>1, <3>2 DEF StartFails
  <2>3. UNCHANGED <<podman, node, events>>
    BY <1>5 DEF StartFails
  <2> QED BY <2>1, <2>2, <2>3 DEF TypeOK, Hosts, RunMap, StepMap, events
<1>6. CASE RepairSettles(o)
  <2>1. op' \in RunMap /\ fresh' \in BOOLEAN
    <3>1. EntersReady(op[o], TRUE) \in Run
      BY <1>1, EntersReadyType
    <3>2. [op EXCEPT ![o].phase = "starting", ![o].await = "none", ![o].aborted = TRUE] \in RunMap
      BY OpsTyped, AbortedType
    <3>3. [op EXCEPT ![o] = EntersReady(op[o], TRUE)] \in RunMap
      BY <3>1, OpsTyped DEF RunMap
    <3> QED BY <1>6, <3>2, <3>3 DEF RepairSettles, TypeOK
  <2> QED BY <1>6, <2>1 DEF RepairSettles, TypeOK, RunMap, events
<1>7. CASE TornDown(o) \/ ContainerExits(o)
  BY <1>1, <1>7, EndedType DEF TornDown, ContainerExits, TypeOK, manager, events
<1> QED BY <1>2, <1>3, <1>4, <1>5, <1>6, <1>7 DEF OpStep

LEMMA TypeWorld ==
    ASSUME TypeOK, ReplaceDriver \/ WriteEvent \/ Drain \/ WatchBreaks \/ NextProcess
    PROVE  TypeOK'
<1>1. CASE ReplaceDriver
  <2>1. host' \in Hosts
    <3>1. PICK b \in {FALSE, KernelBreaks} : host' = [host EXCEPT !.driver = @ + 1, !.broken = b]
      BY <1>1 DEF ReplaceDriver
    <3>2. b \in BOOLEAN
      BY PodmanAssumption
    <3>3. host.driver + 1 \in 0..MaxDriver
      BY <1>1, Bounds DEF ReplaceDriver, TypeOK
    <3> QED BY <3>1, <3>2, <3>3 DEF TypeOK, Hosts
  <2> QED BY <1>1, <2>1 DEF ReplaceDriver, TypeOK, Hosts, manager, events
<1>2. CASE WriteEvent
  BY <1>2, Bounds DEF WriteEvent, TypeOK, manager
<1>3. CASE Drain
  <2>1. stale' \in BOOLEAN
    BY <1>3 DEF Drain, TypeOK
  <2>2. log' \in Logs /\ reader' \in Readers
    BY <1>3 DEF Drain, TypeOK, Logs, Readers
  <2> QED BY <1>3, <2>1, <2>2 DEF Drain, TypeOK, Logs, Readers
<1>4. CASE WatchBreaks
  <2>1. host' \in Hosts
    BY <1>4, Bounds DEF WatchBreaks, TypeOK, Hosts
  <2>2. reader' \in Readers
    BY <1>4 DEF WatchBreaks, TypeOK, Readers
  <2> QED BY <1>4, <2>1, <2>2 DEF WatchBreaks, TypeOK, Hosts, Readers, manager
<1>5. CASE NextProcess
  <2>1. host' \in Hosts
    BY <1>5, Bounds DEF NextProcess, TypeOK, Hosts
  <2>2. log' \in Logs /\ reader' \in Readers /\ stale' \in BOOLEAN
    BY <1>5 DEF NextProcess, TypeOK, Logs, Readers
  <2>3. op' \in RunMap /\ step' \in StepMap /\ node' \in Nodes
    BY <1>5, IdleType DEF NextProcess, RunMap, StepMap, Steps, Nodes
  <2> QED
    BY <1>5, <2>1, <2>2, <2>3
    DEF NextProcess, TypeOK, Hosts, Logs, Readers, RunMap, StepMap, Nodes
<1> QED BY <1>1, <1>2, <1>3, <1>4, <1>5

LEMMA TypeNext == TypeOK /\ [Next]_vars => TypeOK'
<1> SUFFICES ASSUME TypeOK, [Next]_vars PROVE TypeOK'
  OBVIOUS
<1>1. CASE UNCHANGED vars
  BY <1>1 DEF vars, manager, events, TypeOK
<1> QED
  BY <1>1, TypeCallStep, TypeCallFails, TypeNodeStep, TypeOpStep, TypeWorld DEF Next

\* Every variable keeps its type, whatever the host, docker and the jobs do.
THEOREM PodmanTypeCorrect == Spec => []TypeOK
BY TypeInit, TypeNext, PTL DEF Spec

-------------------------------------------------------------------------------
(* HeldWhileDown                                                              *)

\* No run has an answer from a recreate that is still under way.
NoEarlyAnswer == Recreating => \A o \in Ops : op[o].await # "ok"

Held == HeldWhileDown /\ NoEarlyAnswer

LEMMA RestartedHeld ==
    ASSUME NEW runs \in RunMap, NEW o \in Ops
    PROVE  /\ Restarted(runs)[o].phase \in {"starting", "working"} => Restarted(runs)[o].aborted
           /\ Restarted(runs)[o].await = runs[o].await
BY DEF Restarted, RunMap, Run

LEMMA HeldNext == TypeOK /\ Held /\ [Next]_vars => Held'
<1> SUFFICES ASSUME TypeOK, Held, [Next]_vars, Recreating', NEW o \in Ops
             PROVE  /\ op'[o].phase \in {"starting", "working"} => op'[o].aborted
                    /\ op'[o].await # "ok"
  BY DEF Held, HeldWhileDown, NoEarlyAnswer
<1>1. ASSUME NEW c \in Calls, CallStep(c) \/ CallFails(c)
      PROVE  Recreating /\ op' = op
  <2>1. ASSUME NEW outcome, CallEnds(c, outcome)
        PROVE  Recreating /\ op' = op
    BY <2>1 DEF CallEnds, Recreating, TypeOK, Calls
  <2>2. ASSUME NEW from, NEW to, Moves(c, from, to), from # "no"
        PROVE  Recreating /\ op' = op
    BY <2>2 DEF Moves, Recreating, TypeOK, Calls
  <2> QED
    BY <1>1, <2>1, <2>2 DEF CallStep, CallFails, RemoveContainer, InspectContainer, Prepare,
       CreateContainer, BootContainer, StartContainer, SocketAnswers
<1>2. CASE Healthcheck
  <2>1. CASE Recreating /\ op' = op
    BY <2>1 DEF Held, HeldWhileDown, NoEarlyAnswer
  <2>2. CASE ~Recreating /\ step' = step
    BY <2>2 DEF Recreating
  <2>3. CASE op' = Restarted(op)
    BY <1>2, <2>3, RestartedHeld DEF Healthcheck, TurnOver, TypeOK, RunMap
  <2> QED BY <1>2, <2>1, <2>2, <2>3 DEF Healthcheck
<1>3. CASE EnterQueue \/ HealthcheckThrows \/ LeaveQueue \/ JobOver \/ UNCHANGED vars
  BY <1>3 DEF EnterQueue, HealthcheckThrows, LeaveQueue, JobOver, vars, Recreating, Held,
     HeldWhileDown, NoEarlyAnswer
<1>4. CASE TakeJob \/ StopJob \/ NextProcess
  <2>1. CASE TakeJob
    BY <2>1 DEF TakeJob, Idle
  <2>2. CASE StopJob
    BY <2>2 DEF StopJob, Idle, TypeOK, Run, TurnOver
  <2>3. CASE NextProcess
    BY <2>3 DEF NextProcess, Idle
  <2> QED BY <1>4, <2>1, <2>2, <2>3
<1>5. CASE ReplaceDriver \/ WriteEvent \/ Drain \/ WatchBreaks
  BY <1>5 DEF ReplaceDriver, WriteEvent, Drain, WatchBreaks, Recreating, Held, HeldWhileDown,
     NoEarlyAnswer
<1>6. ASSUME NEW p \in Ops, OpStep(p) \/ ContainerExits(p) \/ StartFails(p, FALSE)
      PROVE  /\ op'[o].phase \in {"starting", "working"} => op'[o].aborted
             /\ op'[o].await # "ok"
  <2>1. CASE Launch(p) \/ RepairSettles(p)
    <3>1. step' = step /\ Recreating
      BY <2>1 DEF Launch, RepairSettles, Recreating
    <3>2. ASSUME NEW retried
          PROVE  EntersReady(op[p], retried).phase = "ready" /\ EntersReady(op[p], retried).await = "pending"
      BY <3>1 DEF EntersReady, TypeOK, Run
    <3>3. CASE \E retried : op' = [op EXCEPT ![p] = EntersReady(@, retried)]
      BY <3>1, <3>2, <3>3 DEF TypeOK, Held, HeldWhileDown, NoEarlyAnswer
    <3>4. CASE op' = [op EXCEPT ![p].phase = "starting", ![p].await = "none", ![p].aborted = TRUE]
      <4>1. op'[p] = [op[p] EXCEPT !.phase = "starting", !.await = "none", !.aborted = TRUE]
        BY <3>4, OpsTyped, AbortedType
      <4>2. ASSUME o # p PROVE op'[o] = op[o]
        BY <3>4, <4>2, OpsTyped DEF RunMap
      <4> QED BY <3>1, <4>1, <4>2 DEF TypeOK, Run, Held, HeldWhileDown, NoEarlyAnswer
    <3> QED BY <2>1, <3>3, <3>4 DEF Launch, RepairSettles
  <2>2. CASE ReadySettles(p) \/ ContainerStarts(p) \/ TornDown(p) \/ ContainerExits(p)
    BY <2>2 DEF ReadySettles, ContainerStarts, TornDown, ContainerExits, Ended, Idle, TypeOK, Run,
       Recreating, Held, HeldWhileDown, NoEarlyAnswer
  <2>3. ASSUME NEW onGpu, StartFails(p, onGpu)
        PROVE  /\ op'[o].phase \in {"starting", "working"} => op'[o].aborted
               /\ op'[o].await # "ok"
    <3> DEFINE held == [op EXCEPT ![p].phase = "repairing", ![p].await = "pending"]
    <3>1. held \in RunMap /\ held[o].await # "ok"
      <4>1. op[o].await # "ok"
        BY <2>3 DEF StartFails, TurnOver
      <4>2. /\ held \in RunMap
            /\ held[p] = [op[p] EXCEPT !.phase = "repairing", !.await = "pending"]
        BY OpsTyped, RepairingType
      <4>3. ASSUME o # p PROVE held[o] = op[o]
        BY <4>3, OpsTyped DEF RunMap
      <4> HIDE DEF held
      <4> QED BY <4>1, <4>2, <4>3 DEF TypeOK, Run
    <3>2. CASE op' = Restarted(held)
      <4> HIDE DEF held
      <4> QED BY <3>1, <3>2, RestartedHeld
    <3>3. CASE Recreating /\ op' = held
      BY <3>1, <3>3 DEF Held, HeldWhileDown, NoEarlyAnswer, TypeOK
    <3>4. CASE ~Recreating /\ step' = step
      BY <3>4 DEF Recreating
    <3>5. CASE op' = [op EXCEPT ![p] = Ended(@)] /\ step' = step
      BY <3>5 DEF Ended, Idle, TypeOK, Recreating, Held, HeldWhileDown, NoEarlyAnswer
    <3> QED BY <2>3, <3>2, <3>3, <3>4, <3>5 DEF StartFails, Repair
  <2> QED BY <1>6, <2>1, <2>2, <2>3 DEF OpStep
<1> QED
  BY <1>1, <1>2, <1>3, <1>4, <1>5, <1>6 DEF Next, NodeStep, Held, HeldWhileDown, NoEarlyAnswer

\* While podman is being replaced no operation works on it, whoever asked for it to be, however
\* many runs join, and however the recreates, the failures and the stops follow one another.
THEOREM HeldWhileDownAlways == Spec => []HeldWhileDown
<1>1. Init => TypeOK /\ Held
  BY TypeInit DEF Init, Held, HeldWhileDown, NoEarlyAnswer, Recreating, Calls
<1>2. (TypeOK /\ Held) /\ [Next]_vars => (TypeOK /\ Held)'
  BY TypeNext, HeldNext
<1>3. TypeOK /\ Held => HeldWhileDown
  BY DEF Held
<1> QED BY <1>1, <1>2, <1>3, PTL DEF Spec

-------------------------------------------------------------------------------
(* JobsGetNewPodman                                                           *)

\* ensure() is over before the loop begins; recreate() is called by a job's run or the check.
CallsApart ==
    /\ step["ensure"] # "no" => node.phase = "booting"
    /\ Recreating => \/ node.phase = "job"
                     \/ node.phase = "health" /\ node.await = "pending"

\* What recreate() waits for at its end is the container it has created.
NewContainer ==
    /\ \A c \in Calls : step[c] = "booting" => ~podman.used
    /\ step["recreate"] = "inspecting" => podman.state = "absent"
    /\ step["recreate"] = "waiting" => ~podman.used
    /\ step["recreate"] # "starting"

RunsOfTheJob ==
    \A o \in Ops :
        /\ node.phase # "job" => op[o].phase = "ended"
        /\ op[o].phase = "ended" => ~op[o].relaunch /\ op[o].await = "none"

UnusedBetweenJobs ==
    /\ \/ node.phase = "queue"
       \/ node.phase = "health" /\ node.await = "ok"
       \/ node.phase # "job" /\ fresh
       => ~podman.used \/ node.stopped
    /\ Ops = {} /\ fresh => ~podman.used

\* During a job it is a run that recreates, and unless the job is stopped it runs again after:
\* so a job does not end on a podman that is new and already used.
SomeRunRepairs ==
    node.phase = "job" /\ Recreating =>
        \E o \in Ops : /\ op[o].phase = "repairing" /\ op[o].await = "pending"
                       /\ op[o].relaunch \/ node.stopped

SomeRunFollows ==
    node.phase = "job" /\ ~node.stopped /\ fresh /\ ~Recreating =>
        Ops = {} \/ \E o \in Ops : op[o].phase = "idle" \/ op[o].relaunch

NewPodman ==
    /\ CallsApart /\ NewContainer /\ RunsOfTheJob
    /\ UnusedBetweenJobs /\ SomeRunRepairs /\ SomeRunFollows

LEMMA NewInit == Init => NewPodman
BY DEF Init, NewPodman, CallsApart, NewContainer, RunsOfTheJob, UnusedBetweenJobs, SomeRunRepairs,
   SomeRunFollows, Recreating, Calls, Idle

\* The runs that a call's end wakes keep all but their await.
LEMMA WokenKeeps ==
    ASSUME TypeOK, NEW outcome \in {"ok", "failed"}, Woken(outcome), NEW o \in Ops
    PROVE  /\ op'[o].phase = op[o].phase /\ op'[o].relaunch = op[o].relaunch
           /\ op[o].await # "pending" => op'[o].await = op[o].await
           /\ node'.phase = node.phase /\ node'.stopped = node.stopped
BY DEF Woken, TypeOK, Run

LEMMA NewCallEnds ==
    ASSUME TypeOK, NewPodman, NEW c \in Calls, NEW outcome \in {"ok", "failed"},
           CallEnds(c, outcome), step[c] # "no", UNCHANGED <<podman, fresh>>,
           outcome = "ok" => step[c] = "waiting"
    PROVE  NewPodman'
<1>1. CASE c = "ensure"
  <2>1. /\ node.phase = "booting" /\ ~Recreating
        /\ step' = [step EXCEPT !["ensure"] = "no"] /\ op' = op
        /\ node' = [node EXCEPT !.phase = IF outcome = "ok" THEN "looping" ELSE "down"]
    BY <1>1 DEF CallEnds, NewPodman, CallsApart
  <2>2. /\ step'["ensure"] = "no" /\ step'["recreate"] = "no"
        /\ node'.phase \in {"looping", "down"} /\ node'.await = node.await
        /\ node'.stopped = node.stopped
    BY <2>1 DEF TypeOK, Calls, Recreating
  <2> QED
    BY <2>1, <2>2 DEF NewPodman, CallsApart, NewContainer, RunsOfTheJob, UnusedBetweenJobs,
       SomeRunRepairs, SomeRunFollows, Recreating, Calls
<1>2. CASE c = "recreate"
  <2>1. /\ Recreating /\ Woken(outcome)
        /\ step'["recreate"] = "no" /\ step'["ensure"] = step["ensure"]
    BY <1>2 DEF CallEnds, TypeOK, Calls, Recreating
  <2>2. step["ensure"] = "no" /\ node.phase \in {"job", "health"}
    BY <2>1 DEF NewPodman, CallsApart
  <2>3. node'.phase = node.phase /\ node'.stopped = node.stopped /\ node'.await \in {node.await, outcome}
    BY <2>1 DEF Woken, TypeOK
  <2>4. CallsApart' /\ NewContainer'
    BY <2>1, <2>2 DEF CallsApart, NewContainer, Recreating, Calls
  <2>5. RunsOfTheJob'
    BY <2>1, <2>3, WokenKeeps DEF NewPodman, RunsOfTheJob
  <2>6. UnusedBetweenJobs'
    <3>1. outcome = "ok" => ~podman.used
      BY <1>2 DEF NewPodman, NewContainer
    <3>2. node.phase = "health" => node.await = "pending"
      BY <2>1 DEF NewPodman, CallsApart
    <3> QED BY <2>2, <2>3, <3>1, <3>2 DEF NewPodman, UnusedBetweenJobs
  <2>7. SomeRunRepairs'
    BY <2>1 DEF SomeRunRepairs, Recreating
  <2>8. SomeRunFollows'
    BY <2>1, <2>3, WokenKeeps DEF NewPodman, SomeRunRepairs, SomeRunFollows
  <2> QED BY <2>4, <2>5, <2>6, <2>7, <2>8 DEF NewPodman
<1> QED BY <1>1, <1>2 DEF Calls

LEMMA NewCall ==
    ASSUME TypeOK, NewPodman, NEW c \in Calls, CallStep(c) \/ CallFails(c)
    PROVE  NewPodman'
<1>1. CASE SocketAnswers(c) \/ CallFails(c)
  BY <1>1, NewCallEnds DEF SocketAnswers, CallFails, manager
<1>2. ASSUME NEW from, NEW to, Moves(c, from, to), from # "no", to # "no"
      PROVE  /\ step[c] = from /\ step'[c] = to /\ UNCHANGED <<op, node>>
             /\ \A d \in Calls : d # c => step'[d] = step[d]
             /\ CallsApart' /\ RunsOfTheJob' /\ SomeRunRepairs'
             /\ c = "ensure" => node.phase = "booting" /\ ~Recreating
             /\ SomeRunFollows'
  <2>1. /\ step[c] = from /\ step'[c] = to /\ UNCHANGED <<op, node>>
        /\ \A d \in Calls : d # c => step'[d] = step[d]
    BY <1>2 DEF Moves, TypeOK
  <2>2. c = "ensure" => node.phase = "booting" /\ ~Recreating
    BY <1>2, <2>1 DEF NewPodman, CallsApart
  <2>3. /\ Recreating' = Recreating
        /\ step["ensure"] = "no" => step'["ensure"] = "no"
        /\ c = "recreate" => Recreating
    BY <1>2, <2>1 DEF Recreating, Calls
  <2>4. CallsApart' /\ RunsOfTheJob' /\ SomeRunRepairs'
    BY <2>1, <2>3 DEF NewPodman, CallsApart, RunsOfTheJob, SomeRunRepairs, Recreating
  <2>5. SomeRunFollows'
    BY <2>1, <2>2, <2>3 DEF SomeRunFollows, Calls
  <2> QED BY <2>1, <2>2, <2>4, <2>5
<1>3. ASSUME RemoveContainer(c) \/ InspectContainer(c) \/ Prepare(c) \/ CreateContainer(c)
             \/ BootContainer(c) \/ StartContainer(c)
      PROVE  NewPodman'
  <2>1. CallsApart' /\ RunsOfTheJob' /\ SomeRunRepairs' /\ SomeRunFollows' /\ UNCHANGED <<op, node>>
    BY <1>2, <1>3 DEF RemoveContainer, InspectContainer, Prepare, CreateContainer, BootContainer,
       StartContainer
  <2>2. NewContainer'
    <3>1. c = "ensure" => ~Recreating
      BY <1>2, <1>3 DEF RemoveContainer, InspectContainer, Prepare, CreateContainer, BootContainer,
         StartContainer
    <3>2. c = "recreate" => step["ensure"] = "no"
      BY <1>3 DEF NewPodman, CallsApart, Recreating, RemoveContainer, InspectContainer, Prepare,
         CreateContainer, BootContainer, StartContainer, Moves
    <3>3. CASE RemoveContainer(c)
      BY <1>2, <3>1, <3>2, <3>3 DEF RemoveContainer, NewPodman, NewContainer, Calls, Recreating, TypeOK
    <3>4. CASE InspectContainer(c)
      BY <1>2, <3>1, <3>2, <3>4 DEF InspectContainer, NewPodman, NewContainer, Calls, Recreating, TypeOK
    <3>5. CASE Prepare(c) \/ CreateContainer(c)
      BY <1>2, <3>1, <3>2, <3>5 DEF Prepare, CreateContainer, NewPodman, NewContainer, Calls, Recreating, TypeOK
    <3>6. CASE BootContainer(c) \/ StartContainer(c)
      BY <1>2, <3>1, <3>2, <3>6 DEF BootContainer, StartContainer, NewPodman, NewContainer, Calls, Recreating, TypeOK
    <3> QED BY <1>3, <3>3, <3>4, <3>5, <3>6
  <2>3. UnusedBetweenJobs'
    <3>1. CASE BootContainer(c)
      BY <2>1, <3>1 DEF BootContainer, Moves, NewPodman, NewContainer, UnusedBetweenJobs, TypeOK
    <3>2. CASE ~BootContainer(c)
      <4>1. fresh' = fresh
        BY <1>3, <3>2 DEF RemoveContainer, InspectContainer, Prepare, CreateContainer,
           StartContainer, manager
      <4>2. podman'.used = podman.used \/ ~podman'.used
        BY <1>3, <3>2 DEF RemoveContainer, InspectContainer, Prepare, CreateContainer,
           StartContainer, TypeOK
      <4> QED BY <2>1, <4>1, <4>2 DEF NewPodman, UnusedBetweenJobs
    <3> QED BY <3>1, <3>2
  <2> QED BY <2>1, <2>2, <2>3 DEF NewPodman
<1> QED BY <1>1, <1>3 DEF CallStep

LEMMA NewNode ==
    ASSUME TypeOK, NewPodman, NodeStep \/ TakeJob \/ StopJob
    PROVE  NewPodman'
<1>1. CASE Healthcheck
  <2>1. /\ node'.phase = "health" /\ node'.stopped = node.stopped /\ UNCHANGED podman
        /\ fresh' = fresh
        /\ \/ node'.await = "ok" /\ UNCHANGED step /\ fresh /\ ~Recreating
           \/ node'.await = "pending" /\ (UNCHANGED step \/ BeginRecreate)
    BY <1>1 DEF Healthcheck, BeginRecreate, manager, UpToDate, TypeOK
  <2>2. node.phase = "looping" /\ step["ensure"] = "no" /\ ~Recreating
    BY <1>1 DEF Healthcheck, NewPodman, CallsApart
  <2>3. op' = op
    <3>1. ASSUME op' = Restarted(op) PROVE op' = op
      BY <2>2, <3>1 DEF Restarted, NewPodman, RunsOfTheJob, TypeOK
    <3> QED BY <1>1, <3>1 DEF Healthcheck
  <2>4. CallsApart' /\ NewContainer'
    BY <2>1, <2>2 DEF CallsApart, NewContainer, Recreating, BeginRecreate, Calls, TypeOK
  <2>5. RunsOfTheJob' /\ UnusedBetweenJobs'
    BY <2>1, <2>2, <2>3 DEF NewPodman, RunsOfTheJob, UnusedBetweenJobs
  <2> QED BY <2>1, <2>4, <2>5 DEF NewPodman, SomeRunRepairs, SomeRunFollows
<1>2. CASE EnterQueue \/ HealthcheckThrows \/ LeaveQueue
  <2>1. /\ UNCHANGED <<podman, fresh, step, op>> /\ node'.stopped = node.stopped
        /\ node'.phase \in {"queue", "looping"} /\ node.phase # "job"
        /\ node'.phase = "queue" => node.phase = "health" /\ node.await = "ok"
    BY <1>2 DEF EnterQueue, HealthcheckThrows, LeaveQueue, manager, TypeOK
  <2>2. step["ensure"] = "no" /\ ~Recreating
    BY <1>2 DEF EnterQueue, HealthcheckThrows, LeaveQueue, NewPodman, CallsApart
  <2> QED
    BY <2>1, <2>2 DEF NewPodman, CallsApart, NewContainer, RunsOfTheJob, UnusedBetweenJobs,
       SomeRunRepairs, SomeRunFollows, Recreating
<1>3. CASE JobOver
  <2>1. /\ UNCHANGED <<podman, fresh, step, op>> /\ node'.stopped = node.stopped
        /\ node'.phase = "looping" /\ node.phase = "job"
        /\ \A o \in Ops : op[o].phase = "ended"
    BY <1>3 DEF JobOver, manager, TypeOK
  <2>2. step["ensure"] = "no" /\ ~Recreating
    BY <2>1 DEF NewPodman, CallsApart, SomeRunRepairs
  <2>3. fresh => ~podman.used \/ node.stopped
    BY <2>1, <2>2 DEF NewPodman, SomeRunFollows, UnusedBetweenJobs, RunsOfTheJob
  <2> QED
    BY <2>1, <2>2, <2>3 DEF NewPodman, CallsApart, NewContainer, RunsOfTheJob, UnusedBetweenJobs,
       SomeRunRepairs, SomeRunFollows, Recreating
<1>4. CASE TakeJob
  <2>1. /\ UNCHANGED <<podman, fresh, step>> /\ node'.phase = "job" /\ node.phase = "queue"
        /\ op' = [o \in Ops |-> Idle]
    BY <1>4 DEF TakeJob, manager, TypeOK
  <2>2. step["ensure"] = "no" /\ ~Recreating
    BY <2>1 DEF NewPodman, CallsApart
  <2> QED
    BY <2>1, <2>2 DEF NewPodman, CallsApart, NewContainer, RunsOfTheJob, UnusedBetweenJobs,
       SomeRunRepairs, SomeRunFollows, Recreating, Idle
<1>5. CASE StopJob
  <2>1. /\ UNCHANGED <<podman, fresh, step>> /\ node.phase = "job" /\ node'.phase = "job"
        /\ node'.stopped /\ node'.await = node.await
    BY <1>5 DEF StopJob, manager, TypeOK
  <2>2. ASSUME NEW o \in Ops
        PROVE  /\ op'[o].phase = "ended" => ~op'[o].relaunch /\ op'[o].await = "none"
               /\ op[o].phase = "repairing" => op'[o].phase = op[o].phase /\ op'[o].await = op[o].await
    BY <1>5 DEF StopJob, Idle, TypeOK, Run
  <2>3. SomeRunRepairs'
    BY <2>1, <2>2 DEF NewPodman, SomeRunRepairs, Recreating
  <2> QED
    BY <2>1, <2>2, <2>3 DEF NewPodman, CallsApart, NewContainer, RunsOfTheJob, UnusedBetweenJobs,
       SomeRunFollows, Recreating
<1> QED BY <1>1, <1>2, <1>3, <1>4, <1>5 DEF NodeStep

\* What a step of a run of the job does not touch.
LEMMA NewOpStep ==
    ASSUME TypeOK, NewPodman, NEW p \in Ops, op[p].phase # "ended",
           UNCHANGED node, UNCHANGED podman \/ Answers,
           UNCHANGED step \/ step' = [step EXCEPT !["recreate"] = "removing"],
           RunsOfTheJob', SomeRunRepairs', SomeRunFollows'
    PROVE  NewPodman'
<1>1. node.phase = "job" /\ step["ensure"] = "no"
  BY DEF NewPodman, RunsOfTheJob, CallsApart
<1>2. step'["ensure"] = "no" /\ step'["recreate"] \in {step["recreate"], "removing"}
  BY <1>1 DEF TypeOK, Calls
<1>3. UNCHANGED podman \/ step["recreate"] = "no"
  BY DEF Answers, Recreating
<1> QED
  BY <1>1, <1>2, <1>3 DEF NewPodman, CallsApart, NewContainer, UnusedBetweenJobs, Calls, Recreating

\* A run that ends, or goes on under podman as it is.
LEMMA NewRun ==
    ASSUME TypeOK, NewPodman, NEW p \in Ops,
           op[p].phase \in {"ready", "starting", "working"},
           UNCHANGED <<step, node, fresh>>, UNCHANGED podman \/ Answers,
           \A o \in Ops \ {p} : op'[o] = op[o],
           \/ op'[p] = Ended(op[p])
           \/ op'[p].phase # "ended" /\ op'[p].relaunch = op[p].relaunch
    PROVE  NewPodman'
<1>1. /\ op'[p].phase = "ended" => ~op'[p].relaunch /\ op'[p].await = "none"
      /\ op[p].relaunch => op'[p].phase = "idle" \/ op'[p].relaunch
  BY DEF Ended, Idle
<1>2. RunsOfTheJob'
  BY <1>1 DEF NewPodman, RunsOfTheJob
<1>3. SomeRunRepairs'
  BY DEF NewPodman, SomeRunRepairs, Recreating
<1>4. SomeRunFollows'
  BY <1>1 DEF NewPodman, SomeRunFollows, Recreating
<1> QED BY <1>2, <1>3, <1>4, NewOpStep

LEMMA NewOps ==
    ASSUME TypeOK, NewPodman, NEW p \in Ops,
           OpStep(p) \/ ContainerExits(p) \/ StartFails(p, FALSE)
    PROVE  NewPodman'
<1>0. op[p] \in Run /\ op \in RunMap
  BY OpsTyped DEF TypeOK
<1>1. CASE Launch(p)
  <2>1. /\ op[p].phase = "idle" /\ ~fresh' /\ UNCHANGED <<podman, node, step>>
        /\ \A o \in Ops \ {p} : op'[o] = op[o]
        /\ op'[p].phase \in {"ready", "starting"}
    BY <1>1 DEF Launch, EntersReady, TypeOK, Run
  <2>2. RunsOfTheJob' /\ SomeRunRepairs' /\ SomeRunFollows'
    BY <2>1 DEF NewPodman, RunsOfTheJob, SomeRunRepairs, SomeRunFollows, Recreating
  <2> QED BY <2>1, <2>2, NewOpStep
<1>3. CASE ReadySettles(p)
  <2> DEFINE run == IF op[p].await = "ok" THEN [op[p] EXCEPT !.phase = "starting", !.await = "none"]
                                          ELSE Ended(op[p])
  <2>1. run = Ended(op[p]) \/ (run.phase # "ended" /\ run.relaunch = op[p].relaunch)
    <3>1. CASE op[p].await = "ok"
      BY <1>0, <3>1 DEF Run
    <3>2. CASE op[p].await # "ok"
      BY <3>2
    <3> QED BY <3>1, <3>2
  <2>2. /\ op'[p] = run /\ \A o \in Ops \ {p} : op'[o] = op[o]
        /\ op[p].phase = "ready" /\ UNCHANGED <<step, node, fresh, podman>>
    BY <1>3 DEF ReadySettles, manager, TypeOK
  <2> HIDE DEF run
  <2> QED BY <2>1, <2>2, NewRun
<1>4. CASE ContainerStarts(p)
  <2>1. op'[p] = [op[p] EXCEPT !.phase = "working"] /\ \A o \in Ops \ {p} : op'[o] = op[o]
    BY <1>4 DEF ContainerStarts, TypeOK
  <2>2. [op[p] EXCEPT !.phase = "working"].phase # "ended"
        /\ [op[p] EXCEPT !.phase = "working"].relaunch = op[p].relaunch
    BY <1>0 DEF Run
  <2>3. op[p].phase = "starting" /\ UNCHANGED <<step, node, fresh>> /\ Answers
    BY <1>4 DEF ContainerStarts, manager
  <2> QED BY <2>1, <2>2, <2>3, NewRun
<1>5. CASE TornDown(p) \/ ContainerExits(p)
  <2>1. /\ op'[p] = Ended(op[p]) /\ \A o \in Ops \ {p} : op'[o] = op[o]
        /\ op[p].phase \in {"starting", "working"} /\ UNCHANGED <<step, node, fresh, podman>>
    BY <1>5 DEF TornDown, ContainerExits, manager, TypeOK
  <2> QED BY <2>1, NewRun
<1>6. ASSUME NEW onGpu, StartFails(p, onGpu)
      PROVE  NewPodman'
  <2>1. /\ op[p].phase = "starting" /\ ~op[p].aborted /\ UNCHANGED <<podman, node>>
        /\ \/ Repair(p)
           \/ op' = [op EXCEPT ![p] = Ended(@)] /\ UNCHANGED <<step, manager>>
    BY <1>6 DEF StartFails
  <2>2. CASE op' = [op EXCEPT ![p] = Ended(@)] /\ UNCHANGED <<step, manager>>
    <3>1. /\ op'[p] = Ended(op[p]) /\ \A o \in Ops \ {p} : op'[o] = op[o]
          /\ UNCHANGED <<step, node, fresh, podman>>
      BY <2>1, <2>2 DEF manager, TypeOK
    <3> QED BY <2>1, <3>1, NewRun
  <2> DEFINE held == [op EXCEPT ![p].phase = "repairing", ![p].await = "pending"]
             goes == [op EXCEPT ![p].phase = "repairing", ![p].await = "ok"]
  <2>3. /\ held \in RunMap /\ held[p] = [op[p] EXCEPT !.phase = "repairing", !.await = "pending"]
        /\ goes[p] = [op[p] EXCEPT !.phase = "repairing", !.await = "ok"]
    BY <1>0, RepairingType
  <2>4. \A o \in Ops \ {p} : held[o] = op[o] /\ goes[o] = op[o]
    BY <1>0 DEF RunMap
  <2>5. CASE op' \in {held, goes} /\ UNCHANGED <<step, manager>>
    <3> HIDE DEF held, goes
    <3>1. /\ op'[p].phase = "repairing" /\ op'[p].relaunch = op[p].relaunch
          /\ \A o \in Ops \ {p} : op'[o] = op[o]
      BY <1>0, <2>3, <2>4, <2>5 DEF Run
    <3>2. RunsOfTheJob'
      BY <2>1, <3>1 DEF NewPodman, RunsOfTheJob
    <3>3. SomeRunRepairs' /\ SomeRunFollows'
      BY <2>1, <2>5, <3>1 DEF NewPodman, SomeRunRepairs, SomeRunFollows, Recreating, manager
    <3> QED BY <2>1, <2>5, <3>2, <3>3, NewOpStep
  <2>6. CASE op' = Restarted(held) /\ BeginRecreate
    <3> HIDE DEF held, goes
    <3>1. op'[p].phase = "repairing" /\ op'[p].await = "pending" /\ op'[p].relaunch
      BY <1>0, <2>1, <2>3, <2>6 DEF Restarted, Run, RunMap
    <3>2. ASSUME NEW o \in Ops \ {p}, op[o].phase = "ended" \/ op'[o].phase = "ended"
          PROVE  op'[o] = op[o]
      <4>1. held[o] = op[o] /\ op[o] \in Run
        BY <1>0, <2>4 DEF RunMap
      <4>2. CASE op[o].phase \in {"starting", "working", "repairing"} /\ ~op[o].aborted
        <5>1. op'[o] = [op[o] EXCEPT !.aborted = TRUE, !.relaunch = TRUE]
          BY <2>6, <4>1, <4>2 DEF Restarted
        <5> QED BY <3>2, <4>1, <4>2, <5>1 DEF Run
      <4>3. CASE ~(op[o].phase \in {"starting", "working", "repairing"} /\ ~op[o].aborted)
        BY <2>6, <4>1, <4>3 DEF Restarted
      <4> QED BY <4>2, <4>3
    <3>3. RunsOfTheJob'
      BY <2>1, <3>1, <3>2 DEF NewPodman, RunsOfTheJob
    <3>4. step' = [step EXCEPT !["recreate"] = "removing"] /\ Recreating'
      BY <2>6 DEF BeginRecreate, Recreating, TypeOK, Calls
    <3>5. SomeRunRepairs' /\ SomeRunFollows'
      BY <3>1, <3>4 DEF SomeRunRepairs, SomeRunFollows
    <3> QED BY <2>1, <3>3, <3>4, <3>5, NewOpStep
  <2> QED BY <2>1, <2>2, <2>5, <2>6 DEF Repair
<1>7. CASE RepairSettles(p)
  <2>1. op[p].phase = "repairing" /\ op[p].await # "pending" /\ UNCHANGED <<podman, node, step>>
    BY <1>7 DEF RepairSettles
  <2>2. CASE op' = [op EXCEPT ![p] = EntersReady(@, TRUE)] /\ ~fresh'
    <3>1. \A o \in Ops \ {p} : op'[o] = op[o]
      BY <2>2 DEF TypeOK
    <3>2. op'[p].phase \in {"ready", "starting"}
      BY <1>0, <2>2 DEF EntersReady, TypeOK, Run
    <3>3. RunsOfTheJob'
      BY <2>1, <2>2, <3>1, <3>2 DEF NewPodman, RunsOfTheJob
    <3>4. SomeRunRepairs' /\ SomeRunFollows'
      BY <2>1, <2>2, <3>1, <3>2 DEF NewPodman, SomeRunRepairs, SomeRunFollows, Recreating
    <3> QED BY <2>1, <3>3, <3>4, NewOpStep
  <2>3. CASE /\ op' = [op EXCEPT ![p].phase = "starting", ![p].await = "none", ![p].aborted = TRUE]
             /\ fresh' = fresh
    <3>1. op'[p] = [op[p] EXCEPT !.phase = "starting", !.await = "none", !.aborted = TRUE]
      BY <1>0, <2>3, AbortedType
    <3>2. \A o \in Ops \ {p} : op'[o] = op[o]
      BY <1>0, <2>3 DEF RunMap
    <3>3. op'[p].phase = "starting" /\ op'[p].relaunch = op[p].relaunch
      BY <1>0, <3>1 DEF Run
    <3>4. RunsOfTheJob'
      BY <2>1, <2>3, <3>2, <3>3 DEF NewPodman, RunsOfTheJob
    <3>5. SomeRunRepairs' /\ SomeRunFollows'
      BY <2>1, <2>3, <3>2, <3>3 DEF NewPodman, SomeRunRepairs, SomeRunFollows, Recreating
    <3> QED BY <2>1, <3>4, <3>5, NewOpStep
  <2> QED BY <1>7, <2>2, <2>3 DEF RepairSettles
<1> QED BY <1>1, <1>3, <1>4, <1>5, <1>6, <1>7 DEF OpStep

LEMMA NewWorld ==
    ASSUME NewPodman,
           ReplaceDriver \/ WriteEvent \/ Drain \/ WatchBreaks \/ NextProcess \/ UNCHANGED vars
    PROVE  NewPodman'
<1>1. CASE NextProcess
  BY <1>1 DEF NextProcess, Idle, NewPodman, CallsApart, NewContainer, RunsOfTheJob, UnusedBetweenJobs,
     SomeRunRepairs, SomeRunFollows, Recreating, Calls
<1>2. CASE ~NextProcess
  <2>1. UNCHANGED <<podman, fresh, step, op, node>>
    BY <1>2 DEF ReplaceDriver, WriteEvent, Drain, WatchBreaks, vars, manager
  <2> QED
    BY <2>1 DEF NewPodman, CallsApart, NewContainer, RunsOfTheJob, UnusedBetweenJobs,
       SomeRunRepairs, SomeRunFollows, Recreating
<1> QED BY <1>1, <1>2

LEMMA NewNext == TypeOK /\ NewPodman /\ [Next]_vars => NewPodman'
BY NewCall, NewNode, NewOps, NewWorld DEF Next

\* Only TakeJob goes from the queue to a job, and there podman is unused.
LEMMA QueueToJob ==
    ASSUME NewPodman, node.phase = "queue", node'.phase = "job"
    PROVE  ~podman.used \/ node.stopped
BY DEF NewPodman, UnusedBetweenJobs

\* Every job gets a podman that no operation has used, unless the job before it was stopped:
\* whatever joined, failed or was needless among the recreates of the jobs before it.
THEOREM JobsGetNewPodmanAlways == Spec => JobsGetNewPodman
<1>1. Init => TypeOK /\ NewPodman
  BY TypeInit, NewInit
<1>2. (TypeOK /\ NewPodman) /\ [Next]_vars => (TypeOK /\ NewPodman)'
  BY TypeNext, NewNext
<1>3. (TypeOK /\ NewPodman) /\ [Next]_vars
        => [node.phase = "queue" /\ node'.phase = "job" => ~podman.used \/ node.stopped]_vars
  BY QueueToJob DEF vars
<1> QED BY <1>1, <1>2, <1>3, PTL DEF Spec, JobsGetNewPodman
===============================================================================
