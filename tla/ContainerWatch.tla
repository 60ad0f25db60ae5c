--------------------------- MODULE ContainerWatch ---------------------------
(***************************************************************************)
(* How a running container is watched: ContainerStateManager, which tells  *)
(* its exit from a restart in place, ExposedPortHealthCheck, which probes  *)
(* its ports and restarts it when a liveness check fails, and the status   *)
(* of the endpoints that runTaskManagerOperation keeps of what they say.   *)
(*                                                                         *)
(* A question to docker is answered as things stand when it is asked, and  *)
(* the answer arrives later: what arrives may be old.  A probe is a slot   *)
(* of its port's: clearing the interval leaves the check that is under way *)
(* to arrive, and an interval no handle leads to cannot be cleared.        *)
(*                                                                         *)
(* Left out: what a check sends and compares, the times of the intervals   *)
(* (a probe has one check under way at a time), and the log and statistics *)
(* streams, which OperationLog models.                                     *)
(***************************************************************************)
EXTENDS Naturals, Sequences, FiniteSets

CONSTANTS
    Ports,        \* the exposed ports of the op
    Setups,       \* the ops: whether docker restarts the container, and the checks of each port
    MaxRestarts,  \* max_restarts of the liveness checks
    MaxProbes,    \* intervals of one port at a time, leaked ones included
    MaxInspects,  \* inspections under way at a time
    MaxFaults,    \* calls to docker that fail
    MaxChanges    \* how often a service comes up or goes down, or the container exits

Required == 3   \* EXITED_CHECKS_REQUIRED
Kinds == {"startup", "continuous", "liveness"}

\* Three wrong or late answers in a row would be taken for an exit: polls come a second apart
\* and are answered in less, so that fewer are under way or fail.
ASSUME WatchAssumption ==
    /\ \A s \in Setups : s.policy \in BOOLEAN /\ s.checks \in [Ports -> Seq(Kinds)]
    /\ {MaxRestarts, MaxProbes, MaxInspects, MaxFaults, MaxChanges} \subseteq Nat
    /\ MaxProbes > 0
    /\ MaxInspects + MaxFaults < Required

VARIABLES
    setup,    \* the op's restart policy and checks
    box,      \* the container: its state, the ports that answer
    sm,       \* ContainerStateManager
    inspects, \* its inspections under way
    restart,  \* where container.restart() is
    hc,       \* ExposedPortHealthCheck: its flags
    health,   \* healthStatus
    probes,   \* the intervals of every port
    handle,   \* intervals: the probe a port's handle leads to, 0 for none
    status,   \* the status of the port's endpoint
    op,       \* the run: on, exiting (waitForExit is over), over
    aborted,  \* why its controller was aborted
    left      \* failures and changes still to come

vars == <<setup, box, sm, inspects, restart, hc, health, probes, handle, status, op, aborted, left>>
monitor == <<sm, inspects>>
prober == <<hc, health, probes, handle>>
args == <<setup, aborted>>

Slots == 1..MaxProbes
Free == [kind |-> "none", armed |-> FALSE, check |-> "none"]
Probe == [kind : {"none", "startup", "continuous"}, armed : BOOLEAN, check : {"none", "ok", "bad", "restart", "null"}]

Members(s) == {s[i] : i \in DOMAIN s}
Checks == setup.checks
RestartsOnUnhealthy == \E p \in Ports : "liveness" \in Members(Checks[p])
Polled == setup.policy \/ RestartsOnUnhealthy
\* Mutant: an endpoint without checks is written without a status.
StatusAtFirstUnset(p) == IF Checks[p] = <<>> THEN "unset" ELSE "OFFLINE"

StatusAtFirst(p) == IF Checks[p] = <<>> THEN "UNKNOWN" ELSE "OFFLINE"

\* startServiceExposedUrlHealthCheck(): a start-up probe for every port, in its first free slot.
FreeSlot(p, all) == CHOOSE s \in Slots : all[p][s] = Free /\ \A t \in 1..(s - 1) : all[p][t] # Free
HasFree(p, all) == \E s \in Slots : all[p][s] = Free
Begin(kind) == [kind |-> kind, armed |-> TRUE, check |-> "none"]
AllStarted(all) == [p \in Ports |-> [all[p] EXCEPT ![FreeSlot(p, all)] = Begin("startup")]]
StartedHandles(all) == [p \in Ports |-> FreeSlot(p, all)]

\* A probe without an interval or a check under way is no more.
Kept(probe) == IF probe.armed \/ probe.check # "none" THEN probe ELSE Free

Init ==
    /\ setup \in Setups
    /\ box = [state |-> "up", serving |-> {}]
    /\ sm = [exited |-> FALSE, count |-> 0, polling |-> Polled, restarting |-> FALSE]
    /\ inspects = [i \in 1..MaxInspects |-> "none"]
    /\ restart = "none"
    /\ hc = [restarts |-> 0, inFlight |-> FALSE, stopped |-> FALSE]
    /\ health = [p \in Ports |-> "unset"]
    /\ probes = AllStarted([p \in Ports |-> [s \in Slots |-> Free]])
    /\ handle = [p \in Ports |-> 1]
    /\ status = [p \in Ports |-> StatusAtFirst(p)]
    /\ op = "on" /\ aborted = "no"
    /\ left = [faults |-> MaxFaults, changes |-> MaxChanges]

Fault == left.faults > 0 /\ left' = [left EXCEPT !.faults = @ - 1]
Change == left.changes > 0 /\ left' = [left EXCEPT !.changes = @ - 1]

-----------------------------------------------------------------------------
(* ContainerStateManager: the polls, or wait(), and the restart in place.      *)

\* The interval's tick: nothing is asked for an aborted op, or during a restart.
Poll ==
    /\ sm.polling
    /\ \/ aborted # "no" /\ sm' = [sm EXCEPT !.polling = FALSE] /\ UNCHANGED <<inspects, left>>
       \/ aborted = "no" /\ sm.restarting /\ sm' = [sm EXCEPT !.count = 0] /\ UNCHANGED <<inspects, left>>
       \/ /\ aborted = "no" /\ ~sm.restarting /\ sm' = sm
          /\ \E i \in 1..MaxInspects :
                /\ inspects[i] = "none"
                /\ \/ inspects' = [inspects EXCEPT ![i] = box.state] /\ UNCHANGED left
                   \/ inspects' = [inspects EXCEPT ![i] = "failed"] /\ Fault
    /\ UNCHANGED <<box, restart, prober, status, op, args>>

\* Mutant: a container that docker restarts is not alive.
InspectArrivesUpOnly(i) ==
    /\ inspects[i] # "none"
    /\ inspects' = [inspects EXCEPT ![i] = "none"]
    /\ LET told == sm.count + 1 >= Required
       IN sm' = IF inspects[i] = "up" THEN [sm EXCEPT !.count = 0, !.exited = FALSE]
                ELSE [sm EXCEPT !.count = IF told THEN Required ELSE @ + 1,
                                !.exited = @ \/ told,
                                !.polling = @ /\ ~(told /\ inspects[i] = "failed")]
    /\ UNCHANGED <<box, restart, prober, status, op, args, left>>

\* Running and restarting are alive; the third check in a row that finds neither tells the exit.
InspectArrives(i) ==
    /\ inspects[i] # "none"
    /\ inspects' = [inspects EXCEPT ![i] = "none"]
    /\ LET told == sm.count + 1 >= Required
       IN sm' = IF inspects[i] \in {"up", "restarting"} THEN [sm EXCEPT !.count = 0, !.exited = FALSE]
                ELSE [sm EXCEPT !.count = IF told THEN Required ELSE @ + 1,
                                !.exited = @ \/ told,
                                !.polling = @ /\ ~(told /\ inspects[i] = "failed")]
    /\ UNCHANGED <<box, restart, prober, status, op, args, left>>

\* wait() without a policy or a liveness check: it returns, is aborted, or loses its connection.
WaitSettles ==
    /\ ~Polled /\ ~sm.exited
    /\ \/ (box.state = "down" \/ aborted # "no") /\ UNCHANGED left
       \/ Fault
    /\ sm' = [sm EXCEPT !.exited = TRUE]
    /\ UNCHANGED <<box, inspects, restart, prober, status, op, args>>

\* container.restart(): the container stops,
RestartStops ==
    /\ restart = "stopping"
    /\ restart' = "starting"
    /\ box' = [state |-> "down", serving |-> {}]
    /\ UNCHANGED <<monitor, prober, status, op, args, left>>

\* Mutant: `restarting` is not reset.
RestartReturnsForgetful ==
    /\ restart = "starting"
    /\ restart' = "none"
    /\ box' = [box EXCEPT !.state = "up"]
    /\ sm' = [sm EXCEPT !.exited = FALSE, !.count = 0]
    /\ hc' = [hc EXCEPT !.inFlight = FALSE]
    /\ IF hc.stopped
       THEN UNCHANGED <<probes, handle>>
       ELSE /\ \A p \in Ports : HasFree(p, probes)
            /\ probes' = AllStarted(probes)
            /\ handle' = StartedHandles(probes)
    /\ UNCHANGED <<inspects, health, status, op, args, left>>

\* comes back, and with it the probes, unless they were stopped,
RestartReturns ==
    /\ restart = "starting"
    /\ restart' = "none"
    /\ box' = [box EXCEPT !.state = "up"]
    /\ sm' = [sm EXCEPT !.exited = FALSE, !.count = 0, !.restarting = FALSE]
    /\ hc' = [hc EXCEPT !.inFlight = FALSE]
    /\ IF hc.stopped
       THEN UNCHANGED <<probes, handle>>
       ELSE \* as many intervals as there may be: no restart while a port has no room for its probe
            /\ \A p \in Ports : HasFree(p, probes)
            /\ probes' = AllStarted(probes)
            /\ handle' = StartedHandles(probes)
    /\ UNCHANGED <<inspects, health, status, op, args, left>>

\* or the call fails, with the container stopped or not, and no probe is armed again.
RestartFails ==
    /\ restart # "none"
    /\ Fault
    /\ restart' = "none"
    /\ sm' = [sm EXCEPT !.count = 0, !.restarting = FALSE]
    /\ hc' = [hc EXCEPT !.inFlight = FALSE]
    /\ UNCHANGED <<box, inspects, health, probes, handle, status, op, args>>

-----------------------------------------------------------------------------
(* ExposedPortHealthCheck.                                                     *)

\* checkPortHealth(): a start-up pass runs every check; a continuous one stops at the first that
\* is not continuous, as if none had been made.
PassOf(p, initial) ==
    IF initial THEN Checks[p] ELSE SelectSeq(Checks[p], LAMBDA kind : kind # "startup")
CheckPort(p, initial) ==
    IF Checks[p] = <<>> \/ (~initial /\ Checks[p][1] = "startup") THEN "null"
    ELSE IF p \notin box.serving
    THEN IF ~initial /\ PassOf(p, initial)[1] = "liveness" THEN "restart" ELSE "bad"
    ELSE IF ~initial /\ "startup" \in Members(Checks[p]) THEN "null" ELSE "ok"

ProbeTick(p, s) ==
    /\ probes[p][s].armed /\ probes[p][s].check = "none"
    /\ probes' = [probes EXCEPT ![p][s].check = CheckPort(p, probes[p][s].kind = "startup")]
    /\ UNCHANGED <<box, monitor, restart, hc, health, handle, status, op, args, left>>

\* What is emitted after 'end' has no listener any more.
Reported(p, to) == status' = IF op = "over" THEN status ELSE [status EXCEPT ![p] = to]

Cleared(p, s) == [probes EXCEPT ![p][s] = Free]
Answered(p, s) == [probes EXCEPT ![p][s] = Kept([@ EXCEPT !.check = "none"])]

\* Mutants: the tracked state is not seeded; success is reported before any restart only.
ArrivesUp(p, s, seeded, reported) ==
    LET rest == Cleared(p, s)
    IN /\ probes[p][s].kind = "startup"
       /\ CASE probes[p][s].check = "ok" ->
                /\ health' = IF seeded THEN [health EXCEPT ![p] = "up"] ELSE health
                /\ IF reported THEN Reported(p, "ONLINE") ELSE UNCHANGED status
                /\ probes' = [rest EXCEPT ![p][FreeSlot(p, rest)] = Begin("continuous")]
                /\ handle' = [handle EXCEPT ![p] = FreeSlot(p, rest)]
            [] probes[p][s].check = "null" -> probes' = rest /\ UNCHANGED <<health, handle, status>>
            [] probes[p][s].check = "bad" -> probes' = Answered(p, s) /\ UNCHANGED <<health, handle, status>>
            [] OTHER -> FALSE
       /\ UNCHANGED <<box, monitor, restart, hc, op, args, left>>
StartupArrivesUnseeded(p, s) == ArrivesUp(p, s, FALSE, TRUE)
StartupArrivesOnce(p, s) == ArrivesUp(p, s, TRUE, hc.restarts = 0)

\* The start-up check arrives: no check, up (the continuous probe follows), or not yet.
StartupArrives(p, s) ==
    /\ probes[p][s].kind = "startup"
    /\ CASE probes[p][s].check = "null" ->
            probes' = Cleared(p, s) /\ UNCHANGED <<health, handle, status>>
         [] probes[p][s].check = "ok" ->
            LET rest == Cleared(p, s)
            IN /\ health' = [health EXCEPT ![p] = "up"]
               /\ Reported(p, "ONLINE")
               /\ probes' = [rest EXCEPT ![p][FreeSlot(p, rest)] = Begin("continuous")]
               /\ handle' = [handle EXCEPT ![p] = FreeSlot(p, rest)]
         [] probes[p][s].check = "bad" ->
            probes' = Answered(p, s) /\ UNCHANGED <<health, handle, status>>
         [] OTHER -> FALSE
    /\ UNCHANGED <<box, monitor, restart, hc, op, args, left>>

\* restartUnhealthyContainer(), up to its await: what was armed is dropped, the leaked excepted.
Dropped(all) ==
    [p \in Ports |-> [s \in Slots |-> IF s = handle[p] THEN Kept([all[p][s] EXCEPT !.armed = FALSE]) ELSE all[p][s]]]
MayRestart == RestartsOnUnhealthy /\ ~hc.inFlight /\ ~hc.stopped /\ hc.restarts < MaxRestarts

RestartUnhealthy(all) ==
    LET called == aborted = "no" /\ ~sm.exited   \* restartContainer() refuses otherwise
    IN /\ hc' = [hc EXCEPT !.restarts = @ + 1, !.inFlight = called]
       /\ health' = [p \in Ports |-> "unset"]
       /\ probes' = Dropped(all)
       /\ handle' = [p \in Ports |-> 0]
       /\ restart' = IF called THEN "stopping" ELSE restart
       /\ sm' = [sm EXCEPT !.restarting = @ \/ called]

\* The continuous check arrives: a change to unhealthy is reported, and a liveness check acts.
ContinuousArrives(p, s) ==
    /\ probes[p][s].kind = "continuous"
    /\ probes[p][s].check # "none"
    /\ LET check == probes[p][s].check
           fell == check \in {"bad", "restart"} /\ health[p] = "up"
       IN /\ IF fell THEN Reported(p, "OFFLINE") ELSE UNCHANGED status
          /\ IF check = "restart" /\ MayRestart
             THEN RestartUnhealthy(Answered(p, s))
             ELSE /\ probes' = IF check = "null" THEN Cleared(p, s) ELSE Answered(p, s)
                  /\ health' = IF check = "null" THEN health
                               ELSE [health EXCEPT ![p] = IF check = "ok" THEN "up" ELSE IF fell THEN "down" ELSE @]
                  /\ UNCHANGED <<hc, handle, restart, sm>>
    /\ UNCHANGED <<box, inspects, op, args, left>>

-----------------------------------------------------------------------------
(* The run, and what happens to its container.                                 *)

\* waitForExit() sees the exit or the abort.
WaitForExit ==
    /\ op = "on" /\ (sm.exited \/ aborted # "no")
    /\ op' = "exiting"
    /\ UNCHANGED <<box, monitor, restart, prober, status, args, left>>

\* The logs are drained and the exit code read: stopMonitoring(), stopAllHealthChecks(), 'end';
\* a stop of the op then writes its endpoints OFFLINE.
CleanUp ==
    /\ op = "exiting"
    /\ op' = "over"
    /\ sm' = [sm EXCEPT !.polling = FALSE]
    /\ hc' = [hc EXCEPT !.stopped = TRUE]
    /\ health' = [p \in Ports |-> "unset"]
    /\ probes' = Dropped(probes)
    /\ handle' = [p \in Ports |-> 0]
    /\ status' = IF aborted = "stop" THEN [p \in Ports |-> "OFFLINE"] ELSE status
    /\ UNCHANGED <<box, inspects, restart, args, left>>

Abort ==
    /\ op # "over" /\ aborted = "no"
    /\ aborted' \in {"stop", "timeout"}
    /\ UNCHANGED <<setup, box, monitor, restart, prober, status, op, left>>

Exits ==
    /\ box.state = "up" /\ restart = "none"
    /\ Change
    /\ box' = [state |-> IF setup.policy THEN "restarting" ELSE "down", serving |-> {}]
    /\ UNCHANGED <<monitor, restart, prober, status, op, args>>

PolicyRestarts ==
    /\ box.state = "restarting"
    /\ box' = [box EXCEPT !.state = "up"]
    /\ UNCHANGED <<monitor, restart, prober, status, op, args, left>>

ServiceChanges(p) ==
    /\ box.state = "up"
    /\ Change
    /\ box' = [box EXCEPT !.serving = IF p \in @ THEN @ \ {p} ELSE @ \cup {p}]
    /\ UNCHANGED <<monitor, restart, prober, status, op, args>>

CheckArrives(p, s) == StartupArrives(p, s) \/ ContinuousArrives(p, s)

Next ==
    \/ Poll \/ WaitSettles
    \/ \E i \in 1..MaxInspects : InspectArrives(i)
    \/ RestartStops \/ RestartReturns \/ RestartFails
    \/ \E p \in Ports, s \in Slots : ProbeTick(p, s) \/ CheckArrives(p, s)
    \/ WaitForExit \/ CleanUp \/ Abort
    \/ Exits \/ PolicyRestarts \/ \E p \in Ports : ServiceChanges(p)

\* Intervals tick, docker answers and what it answered arrives; nothing else is owed.
Fairness ==
    /\ WF_vars(Poll) /\ WF_vars(WaitSettles) /\ WF_vars(WaitForExit) /\ WF_vars(CleanUp)
    /\ \A i \in 1..MaxInspects : WF_vars(InspectArrives(i))
    /\ WF_vars(RestartStops) /\ WF_vars(RestartReturns)
    /\ \A p \in Ports, s \in Slots : WF_vars(ProbeTick(p, s)) /\ WF_vars(CheckArrives(p, s))

Spec == Init /\ [][Next]_vars /\ Fairness

-----------------------------------------------------------------------------
(* Properties.                                                                 *)

\* Every variable keeps its type.
TypeOK ==
    /\ setup \in Setups
    /\ box \in [state : {"up", "down", "restarting"}, serving : SUBSET Ports]
    /\ sm \in [exited : BOOLEAN, count : 0..Required, polling : BOOLEAN, restarting : BOOLEAN]
    /\ inspects \in [1..MaxInspects -> {"none", "up", "down", "restarting", "failed"}]
    /\ restart \in {"none", "stopping", "starting"}
    /\ hc \in [restarts : 0..MaxRestarts, inFlight : BOOLEAN, stopped : BOOLEAN]
    /\ health \in [Ports -> {"unset", "up", "down"}]
    /\ probes \in [Ports -> [Slots -> Probe]]
    /\ handle \in [Ports -> 0..MaxProbes]
    /\ status \in [Ports -> {"OFFLINE", "UNKNOWN", "ONLINE"}]
    /\ op \in {"on", "exiting", "over"} /\ aborted \in {"no", "stop", "timeout"}
    /\ left \in [faults : 0..MaxFaults, changes : 0..MaxChanges]

\* A run that was not aborted is over only when its container is down: neither a restart in
\* place, nor one of docker's, nor a call that fails is taken for its exit by the polls.
ExitIsReal == [][Polled /\ op = "on" /\ op' = "exiting" /\ aborted = "no" => box.state = "down"]_vars

\* A container that is down for good ends its run, while something watches it: a failed
\* inspection that tells the exit stops the polls, and a restart in place that returns before
\* waitForExit() looks takes the exit back and not the stop.
ExitIsSeen ==
    box.state = "down" /\ (Polled => sm.polling \/ sm.exited) ~> box.state # "down" \/ op # "on"

\* All its checks are continuous: one that is not ends the probe at its first pass without a failure.
Probing(p) == Checks[p] # <<>> /\ "startup" \notin Members(Checks[p])

\* A port that is probed and whose service goes down and stays down is not ONLINE for ever, before
\* there is any restart in place.
FallIsReported ==
    \A p \in Ports :
        op = "on" /\ Probing(p) /\ status[p] = "ONLINE" /\ p \notin box.serving /\ hc.restarts = 0 ~>
            op # "on" \/ status[p] # "ONLINE" \/ p \in box.serving \/ hc.restarts > 0

\* Once the container has been restarted in place, a port that answers is reported ONLINE again.
PortsComeBack ==
    \A p \in Ports :
        op = "on" /\ hc.restarts > 0 /\ handle[p] # 0 /\ probes[p][handle[p]].kind = "startup" /\ p \in box.serving ~>
            op # "on" \/ handle[p] = 0 \/ p \notin box.serving \/ status[p] = "ONLINE"
=============================================================================
