-------------------------- MODULE JobLifecycleProofs --------------------------
(***************************************************************************)
(* Theorems about JobLifecycle, for any jobs, any failures of services,    *)
(* deaths of the process and signals, however many.                        *)
(***************************************************************************)
EXTENDS JobLifecycle, FiniteSetTheorems, TLAPS

-------------------------------------------------------------------------------
(* TypeOK, one part for each group of variables.                              *)

ChainTyped ==
    /\ queued \in BOOLEAN /\ assigned \in Jobs \cup {NoJob}
    /\ onChain \in [Jobs -> {"posted", "running", "stopped", "done"}]
    /\ result \in [Jobs -> Flows \cup {"blank"}]
    /\ \A j \in Jobs : result[j] = "none" <=> onChain[j] # "done"
FlowTyped == flow \in [Jobs -> Flows]
LoopTyped ==
    /\ main \in {"init", "start", "market", "queue", "race", "clean", "delay", "errorClean",
                 "errorDelay", "leaving", "left", "down"}
    /\ exiting \in BOOLEAN /\ signalled \in BOOLEAN
    /\ inJobLoop \in BOOLEAN /\ nodeExiting \in BOOLEAN
    /\ shutdown \in {"idle", "market", "tasks", "jobs"}
RunTyped ==
    /\ run \in Jobs \cup {NoJob} /\ job \in Jobs \cup {NoJob}
    /\ runPc \in {"off", "monitoring", "unheard", "claiming", "resolving", "task", "finishing"}
    /\ runPc \in {"claiming", "resolving", "task", "finishing"} \/ task # "none" => job # NoJob
    /\ reason \in {"none", "completed", "stopped", "expired"}
    /\ task \in {"none", "working", "stopping", "quitting"}
JobTyped ==
    /\ registered \subseteq Jobs
    /\ finishing \in BOOLEAN /\ expiryArmed \in BOOLEAN /\ aborted \in BOOLEAN
    /\ listening \in {"off", "on", "due"}
BoundsTyped == failures \in 0..MaxFailures /\ crashes \in 0..MaxCrashes /\ signals \in 0..MaxSignals

Typed == ChainTyped /\ FlowTyped /\ LoopTyped /\ RunTyped /\ JobTyped /\ BoundsTyped

LEMMA TypeSplit == TypeOK <=> Typed
BY DEF TypeOK, Typed, ChainTyped, FlowTyped, LoopTyped, RunTyped, JobTyped, BoundsTyped

\* A result posted for some jobs is what their flows are, or blank, and they are done.
LEMMA PostType ==
    ASSUME Typed, NEW J \in SUBSET Jobs, Post(J)
    PROVE  queued' = queued => ChainTyped'
<1>1. \A j \in Jobs : Result(j) \in (Flows \cup {"blank"}) \ {"none"}
  BY DEF Typed, FlowTyped, Result, Flows
<1> QED BY <1>1 DEF Typed, ChainTyped, Post

\* What is lost of the results submitted at a clean up is still registered.
LEMMA SubmitAllType ==
    ASSUME Typed, SubmitAll
    PROVE  /\ queued' = queued => ChainTyped'
           /\ registered' \subseteq Jobs /\ failures' \in 0..MaxFailures
<1>1. PICK lost \in SUBSET registered :
        /\ Cardinality(lost) <= failures
        /\ failures' = failures - Cardinality(lost)
        /\ Post((registered \ lost) \cap {assigned})
        /\ registered' = lost
  BY DEF SubmitAll
<1>2. lost \subseteq Jobs /\ (registered \ lost) \cap {assigned} \in SUBSET Jobs
  BY DEF Typed, JobTyped
<1>3. Cardinality(lost) \in Nat
  BY <1>2, JobAssumption, FS_Subset, FS_CardinalityType
<1>4. failures' \in 0..MaxFailures
  BY <1>1, <1>3, BoundAssumption DEF Typed, BoundsTyped
<1> QED BY <1>1, <1>2, <1>4, PostType

LEMMA ChainTypedNext == Typed /\ [Next]_vars => ChainTyped'
<1> SUFFICES ASSUME Typed, [Next]_vars PROVE ChainTyped'
  OBVIOUS
<1> USE DEF Typed, chainVars, loopVars, exitVars, runVars, jobVars, boundVars
<1>1. CASE Clean
  BY <1>1, SubmitAllType DEF ChainTyped, Clean, Refreshed
<1>2. CASE Pending \/ Queue
  BY <1>2 DEF ChainTyped, Pending, Queue
<1>3. CASE Finish
  <2>1. {job} \in SUBSET Jobs
    BY <1>3 DEF RunTyped, Finish
  <2> QED BY <1>3, <2>1, PostType DEF Finish
<1>4. CASE LeaveMarket
  BY <1>4 DEF ChainTyped, LeaveMarket
<1>5. CASE Exits
  BY <1>5, SubmitAllType DEF ChainTyped, Exits, Down
<1>6. CASE Leaves
  BY <1>6 DEF ChainTyped, Leaves, Down
<1>7. CASE InitDone \/ ChecksPass \/ Delay \/ Unhealthy \/ NotReady \/
           MarketFails \/ MarketTimeout \/ RunFound \/ Claim \/ AwaitDefinition \/
           TaskStarts \/ Refused \/ NotValid \/ RunFails \/ FinishFails \/
           TaskEnds \/ Expires \/ AccountChanges \/ Signal \/ TasksStopped \/
           Crash \/ Spawn
  <2>1. UNCHANGED <<queued, assigned, onChain, result>>
    BY <1>7 DEF InitDone, ChecksPass, Delay, Unhealthy, NotReady, MarketFails, MarketTimeout,
       RunFound, Claim, AwaitDefinition, TaskStarts, Refused, NotValid, RunFails, FinishFails,
       TaskEnds, Expires, AccountChanges, Signal, TasksStopped, Crash, Spawn
  <2> QED BY <2>1 DEF ChainTyped
<1>8. ASSUME NEW j \in Jobs, Assign(j) \/ PosterStops(j) \/ PosterExtends(j) PROVE ChainTyped'
  BY <1>8 DEF ChainTyped, Assign, PosterStops, PosterExtends
<1>9. CASE UNCHANGED vars
  BY <1>9 DEF ChainTyped, vars
<1> QED BY <1>1, <1>2, <1>3, <1>4, <1>5, <1>6, <1>7, <1>8, <1>9
  DEF Next, MainStep, RunStep, ExitStep

LEMMA FlowTypedNext == Typed /\ [Next]_vars => FlowTyped'
<1> SUFFICES ASSUME Typed, [Next]_vars PROVE FlowTyped'
  OBVIOUS
<1> USE DEF Typed, chainVars, loopVars, exitVars, runVars, jobVars, boundVars
<1>1. CASE Claim
  BY <1>1 DEF FlowTyped, Flows, Claim, Armed, ToFinish
<1>2. CASE AwaitDefinition \/ TaskStarts
  BY <1>2 DEF FlowTyped, Flows, AwaitDefinition, TaskStarts, HasDefinition
<1>3. CASE Refused
  BY <1>3 DEF FlowTyped, Flows, Refused, HasDefinition, ToFinish
<1>4. CASE TaskEnds
  BY <1>4 DEF FlowTyped, Flows, TaskEnds, Catch, Fails, ToFinish
<1>5. CASE InitDone \/ ChecksPass \/ Delay \/ Unhealthy \/ NotReady \/
           MarketFails \/ Clean \/ Pending \/ Queue \/ MarketTimeout \/ RunFound \/
           NotValid \/ RunFails \/ FinishFails \/ Finish \/ Expires \/
           AccountChanges \/ Signal \/ TasksStopped \/ LeaveMarket \/ Exits \/
           Leaves \/ Crash \/ Spawn
  <2>1. UNCHANGED <<flow>>
    BY <1>5 DEF InitDone, ChecksPass, Delay, Unhealthy, NotReady, MarketFails, Clean, Pending,
       Queue, MarketTimeout, RunFound, NotValid, RunFails, FinishFails, Finish, Expires,
       AccountChanges, Signal, TasksStopped, LeaveMarket, Exits, Leaves, Crash, Spawn
  <2> QED BY <2>1 DEF FlowTyped, Flows
<1>6. ASSUME NEW j \in Jobs, Assign(j) \/ PosterStops(j) \/ PosterExtends(j) PROVE FlowTyped'
  BY <1>6 DEF FlowTyped, Flows, Assign, PosterStops, PosterExtends
<1>7. CASE UNCHANGED vars
  BY <1>7 DEF FlowTyped, Flows, vars
<1> QED BY <1>1, <1>2, <1>3, <1>4, <1>5, <1>6, <1>7
  DEF Next, MainStep, RunStep, ExitStep

LEMMA LoopTypedNext == Typed /\ [Next]_vars => LoopTyped'
<1> SUFFICES ASSUME Typed, [Next]_vars PROVE LoopTyped'
  OBVIOUS
<1> USE DEF Typed, chainVars, loopVars, exitVars, runVars, jobVars, boundVars
<1>1. CASE InitDone \/ ChecksPass
  BY <1>1 DEF LoopTyped, InitDone, ChecksPass
<1>2. CASE Delay
  BY <1>2 DEF LoopTyped, Delay
<1>3. CASE Unhealthy
  BY <1>3 DEF LoopTyped, Unhealthy, Restart, Fails
<1>4. CASE NotReady \/ MarketFails
  BY <1>4 DEF LoopTyped, NotReady, MarketFails, Catch, Fails
<1>5. CASE Clean
  BY <1>5 DEF LoopTyped, Clean, SubmitAll, Post, Refreshed
<1>6. CASE Pending \/ Queue
  BY <1>6 DEF LoopTyped, Pending, Queue
<1>7. CASE MarketTimeout
  BY <1>7 DEF LoopTyped, MarketTimeout, NoRunInSight, Restart
<1>8. CASE NotValid \/ RunFails \/ FinishFails
  BY <1>8 DEF LoopTyped, NotValid, RunFails, FinishFails, HasDefinition, Postable, Catch, Fails
<1>9. CASE TaskEnds
  BY <1>9 DEF LoopTyped, TaskEnds, Catch, Fails, ToFinish
<1>10. CASE Finish
  BY <1>10 DEF LoopTyped, Finish, Restart, Post, Postable
<1>11. CASE Signal \/ TasksStopped
  BY <1>11 DEF LoopTyped, Signal, TasksStopped
<1>12. CASE LeaveMarket
  BY <1>12 DEF LoopTyped, LeaveMarket
<1>13. CASE Exits
  BY <1>13 DEF LoopTyped, Exits, SubmitAll, Post, Down
<1>14. CASE Leaves
  BY <1>14 DEF LoopTyped, Leaves, Down
<1>15. CASE Crash
  BY <1>15 DEF LoopTyped, Crash, Down
<1>16. CASE Spawn
  BY <1>16 DEF LoopTyped, Spawn
<1>17. CASE RunFound \/ Claim \/ AwaitDefinition \/ TaskStarts \/ Refused \/
           Expires \/ AccountChanges
  <2>1. UNCHANGED <<main, exiting, signalled, inJobLoop, nodeExiting, shutdown>>
    BY <1>17 DEF RunFound, Claim, AwaitDefinition, TaskStarts, Refused, Expires, AccountChanges
  <2> QED BY <2>1 DEF LoopTyped
<1>18. ASSUME NEW j \in Jobs, Assign(j) \/ PosterStops(j) \/ PosterExtends(j) PROVE LoopTyped'
  BY <1>18 DEF LoopTyped, Assign, PosterStops, PosterExtends
<1>19. CASE UNCHANGED vars
  BY <1>19 DEF LoopTyped, vars
<1> QED BY <1>1, <1>2, <1>3, <1>4, <1>5, <1>6, <1>7, <1>8, <1>9, <1>10, <1>11, <1>12, <1>13,
    <1>14, <1>15, <1>16, <1>17, <1>18, <1>19
  DEF Next, MainStep, RunStep, ExitStep

LEMMA RunTypedNext == Typed /\ [Next]_vars => RunTyped'
<1> SUFFICES ASSUME Typed, [Next]_vars PROVE RunTyped'
  OBVIOUS
<1> USE DEF Typed, chainVars, loopVars, exitVars, runVars, jobVars, boundVars
<1>1. CASE Clean
  BY <1>1 DEF RunTyped, Clean, SubmitAll, Post, Refreshed
<1>2. CASE Pending \/ Queue
  BY <1>2 DEF RunTyped, ChainTyped, Pending, Queue
<1>3. CASE MarketTimeout
  BY <1>3 DEF RunTyped, MarketTimeout, NoRunInSight, Restart
<1>4. CASE RunFound
  BY <1>4 DEF RunTyped, ChainTyped, RunFound
<1>5. CASE Claim
  BY <1>5 DEF RunTyped, Claim, Armed, ToFinish
<1>6. CASE AwaitDefinition \/ TaskStarts
  BY <1>6 DEF RunTyped, AwaitDefinition, TaskStarts, HasDefinition
<1>7. CASE Refused
  BY <1>7 DEF RunTyped, Refused, HasDefinition, ToFinish
<1>8. CASE NotValid \/ RunFails \/ FinishFails
  BY <1>8 DEF RunTyped, NotValid, RunFails, FinishFails, HasDefinition, Postable, Catch, Fails
<1>9. CASE TaskEnds
  BY <1>9 DEF RunTyped, TaskEnds, Catch, Fails, ToFinish
<1>10. CASE Finish
  BY <1>10 DEF RunTyped, Finish, Restart, Post, Postable
<1>11. CASE Expires \/ AccountChanges
  BY <1>11 DEF RunTyped, Expires, AccountChanges, StopTask, ToFinish
<1>12. CASE LeaveMarket
  BY <1>12 DEF RunTyped, LeaveMarket
<1>13. CASE Exits
  BY <1>13 DEF RunTyped, Exits, SubmitAll, Post, Down
<1>14. CASE Leaves
  BY <1>14 DEF RunTyped, Leaves, Down
<1>15. CASE Crash
  BY <1>15 DEF RunTyped, Crash, Down
<1>16. CASE InitDone \/ ChecksPass \/ Delay \/ Unhealthy \/ NotReady \/
           MarketFails \/ Signal \/ TasksStopped \/ Spawn
  <2>1. UNCHANGED <<run, job, runPc, reason, task>>
    BY <1>16 DEF InitDone, ChecksPass, Delay, Unhealthy, NotReady, MarketFails, Signal,
       TasksStopped, Spawn
  <2> QED BY <2>1 DEF RunTyped
<1>17. ASSUME NEW j \in Jobs, Assign(j) \/ PosterStops(j) \/ PosterExtends(j) PROVE RunTyped'
  BY <1>17 DEF RunTyped, Assign, PosterStops, PosterExtends
<1>18. CASE UNCHANGED vars
  BY <1>18 DEF RunTyped, vars
<1> QED BY <1>1, <1>2, <1>3, <1>4, <1>5, <1>6, <1>7, <1>8, <1>9, <1>10, <1>11, <1>12, <1>13,
    <1>14, <1>15, <1>16, <1>17, <1>18
  DEF Next, MainStep, RunStep, ExitStep

LEMMA JobTypedNext == Typed /\ [Next]_vars => JobTyped'
<1> SUFFICES ASSUME Typed, [Next]_vars PROVE JobTyped'
  OBVIOUS
<1> USE DEF Typed, chainVars, loopVars, exitVars, runVars, jobVars, boundVars
<1>1. CASE Clean
  BY <1>1, SubmitAllType DEF JobTyped, Clean, Refreshed
<1>2. CASE Claim
  BY <1>2 DEF JobTyped, RunTyped, Claim, Armed, ToFinish
<1>3. CASE AwaitDefinition \/ TaskStarts
  BY <1>3 DEF JobTyped, AwaitDefinition, TaskStarts, HasDefinition
<1>4. CASE TaskEnds
  BY <1>4 DEF JobTyped, TaskEnds, Catch, Fails, ToFinish
<1>5. CASE Finish
  BY <1>5 DEF JobTyped, Finish, Restart, Post, Postable
<1>6. CASE Expires \/ AccountChanges
  BY <1>6 DEF JobTyped, Expires, AccountChanges, StopTask, ToFinish
<1>7. CASE Exits
  BY <1>7, SubmitAllType DEF JobTyped, Exits, Down
<1>8. CASE Leaves
  BY <1>8 DEF JobTyped, Leaves, Down
<1>9. CASE Crash
  BY <1>9 DEF JobTyped, Crash, Down
<1>10. CASE Spawn
  BY <1>10 DEF JobTyped, Spawn
<1>11. CASE InitDone \/ ChecksPass \/ Delay \/ Unhealthy \/ NotReady \/
           MarketFails \/ Pending \/ Queue \/ MarketTimeout \/ RunFound \/ Refused \/
           NotValid \/ RunFails \/ FinishFails \/ Signal \/ TasksStopped \/
           LeaveMarket
  <2>1. UNCHANGED <<registered, finishing, expiryArmed, aborted, listening>>
    BY <1>11 DEF InitDone, ChecksPass, Delay, Unhealthy, NotReady, MarketFails, Pending, Queue,
       MarketTimeout, RunFound, Refused, NotValid, RunFails, FinishFails, Signal, TasksStopped,
       LeaveMarket
  <2> QED BY <2>1 DEF JobTyped
<1>12. ASSUME NEW j \in Jobs, Assign(j) \/ PosterStops(j) \/ PosterExtends(j) PROVE JobTyped'
  BY <1>12 DEF JobTyped, Assign, PosterStops, PosterExtends, Notify
<1>13. CASE UNCHANGED vars
  BY <1>13 DEF JobTyped, vars
<1> QED BY <1>1, <1>2, <1>3, <1>4, <1>5, <1>6, <1>7, <1>8, <1>9, <1>10, <1>11, <1>12, <1>13
  DEF Next, MainStep, RunStep, ExitStep

LEMMA BoundsTypedNext == Typed /\ [Next]_vars => BoundsTyped'
<1> SUFFICES ASSUME Typed, [Next]_vars PROVE BoundsTyped'
  OBVIOUS
<1> USE DEF Typed, chainVars, loopVars, exitVars, runVars, jobVars, boundVars
<1>1. CASE Unhealthy
  BY <1>1, BoundAssumption DEF BoundsTyped, Unhealthy, Restart, Fails
<1>2. CASE NotReady \/ MarketFails
  BY <1>2, BoundAssumption DEF BoundsTyped, NotReady, MarketFails, Catch, Fails
<1>3. CASE Clean
  BY <1>3, SubmitAllType DEF BoundsTyped, Clean, Refreshed
<1>4. CASE NotValid \/ RunFails \/ FinishFails
  BY <1>4, BoundAssumption DEF BoundsTyped, NotValid, RunFails, FinishFails, HasDefinition,
     Postable, Catch, Fails
<1>5. CASE TaskEnds
  BY <1>5, BoundAssumption DEF BoundsTyped, TaskEnds, Catch, Fails, ToFinish
<1>6. CASE Signal \/ TasksStopped
  BY <1>6, BoundAssumption DEF BoundsTyped, Signal, TasksStopped
<1>7. CASE Exits
  BY <1>7, SubmitAllType DEF BoundsTyped, Exits, Down
<1>8. CASE Crash
  BY <1>8, BoundAssumption DEF BoundsTyped, Crash, Down
<1>9. CASE InitDone \/ ChecksPass \/ Delay \/ Pending \/ Queue \/ MarketTimeout \/
           RunFound \/ Claim \/ AwaitDefinition \/ TaskStarts \/ Refused \/ Finish \/
           Expires \/ AccountChanges \/ LeaveMarket \/ Leaves \/ Spawn
  <2>1. UNCHANGED <<failures, crashes, signals>>
    BY <1>9 DEF InitDone, ChecksPass, Delay, Pending, Queue, MarketTimeout, RunFound, Claim,
       AwaitDefinition, TaskStarts, Refused, Finish, Expires, AccountChanges, LeaveMarket, Leaves,
       Spawn
  <2> QED BY <2>1 DEF BoundsTyped
<1>10. ASSUME NEW j \in Jobs, Assign(j) \/ PosterStops(j) \/ PosterExtends(j) PROVE BoundsTyped'
  BY <1>10 DEF BoundsTyped, Assign, PosterStops, PosterExtends
<1>11. CASE UNCHANGED vars
  BY <1>11 DEF BoundsTyped, vars
<1> QED BY <1>1, <1>2, <1>3, <1>4, <1>5, <1>6, <1>7, <1>8, <1>9, <1>10, <1>11
  DEF Next, MainStep, RunStep, ExitStep

LEMMA TypeInit == Init => TypeOK
<1> SUFFICES ASSUME Init PROVE Typed
  BY TypeSplit
<1>1. ChainTyped /\ FlowTyped
  BY DEF Init, ChainTyped, FlowTyped, Flows
<1>2. LoopTyped /\ RunTyped /\ JobTyped
  BY DEF Init, LoopTyped, RunTyped, JobTyped
<1>3. BoundsTyped
  BY BoundAssumption DEF Init, BoundsTyped
<1> QED BY <1>1, <1>2, <1>3 DEF Typed

LEMMA TypeNext == TypeOK /\ [Next]_vars => TypeOK'
<1> SUFFICES ASSUME TypeOK, [Next]_vars PROVE TypeOK'
  OBVIOUS
<1>1. Typed
  BY TypeSplit
<1>2. Typed'
  BY <1>1, ChainTypedNext, FlowTypedNext, LoopTypedNext, RunTypedNext, JobTypedNext, BoundsTypedNext
     DEF Typed
<1>3. Typed' => TypeOK'
  BY DEF TypeOK, Typed, ChainTyped, FlowTyped, LoopTyped, RunTyped, JobTyped, BoundsTyped
<1> QED BY <1>2, <1>3

\* Every variable keeps its type, and what is done has a result.
THEOREM LifecycleTypeCorrect == Spec => []TypeOK
BY TypeInit, TypeNext, PTL DEF Spec

-------------------------------------------------------------------------------
(* The inductive invariant.                                                   *)

AtJob  == {"claiming", "resolving", "task", "finishing"}
Before == {"down", "init", "start", "market", "queue", "delay", "errorDelay"}

\* Where run() is says where the main line is, and a job is held while it is at work.
Placed ==
    /\ runPc # "off" => main = "race"
    /\ task # "none" => runPc = "task"
    /\ runPc \in AtJob /\ shutdown \in {"idle", "market"} => run # NoJob

\* The node is in no queue when it has a run, or knows of one.
OutOfQueue ==
    /\ queued => assigned = NoJob
    /\ main = "queue" => run = NoJob
    /\ main = "race" /\ run # NoJob => ~queued
    /\ runPc \in AtJob => ~queued

Fresh == ~aborted /\ ~finishing /\ ~expiryArmed /\ listening = "off" /\ task = "none"

\* A shutdown that got through aside, clean() runs between one job and the next.
CleanedUp ==
    /\ nodeExiting => signalled
    /\ ~nodeExiting /\ exiting => main \in {"clean", "errorClean", "leaving"}
    /\ ~nodeExiting /\ (main \in Before \/ runPc \in {"monitoring", "claiming"}) => Fresh

\* What the node takes for the end of its job is the end of this job.
EndIsTrue ==
    /\ ~nodeExiting /\ runPc \in AtJob /\ (finishing \/ reason = "stopped") => Ended(onChain[job])
    /\ CompletesStoppedJobs

\* Before any signal or death of the process only the job at work has an open flow.
OneOpenFlow ==
    /\ signals = MaxSignals => shutdown = "idle" /\ ~nodeExiting
    /\ signals = MaxSignals /\ crashes = MaxCrashes =>
         \A j \in Jobs : flow[j] = "open" => runPc = "task" /\ j = job

Inv == Placed /\ OutOfQueue /\ CleanedUp /\ EndIsTrue /\ OneOpenFlow

LEMMA InvInit == Init => Inv
BY DEF Init, Inv, Placed, OutOfQueue, CleanedUp, Fresh, EndIsTrue, CompletesStoppedJobs, OneOpenFlow, AtJob

LEMMA PlacedNext == TypeOK /\ Inv /\ [Next]_vars => Placed'
<1> SUFFICES ASSUME TypeOK, Inv, [Next]_vars PROVE Placed'
  OBVIOUS
<1> USE DEF Inv, chainVars, loopVars, exitVars, runVars, jobVars, boundVars
<1>1. CASE InitDone \/ ChecksPass
  BY <1>1 DEF Placed, AtJob, InitDone, ChecksPass
<1>2. CASE Delay
  BY <1>2 DEF Placed, AtJob, Delay
<1>3. CASE Unhealthy
  BY <1>3 DEF Placed, AtJob, Unhealthy, Restart, Fails
<1>4. CASE NotReady \/ MarketFails
  BY <1>4 DEF Placed, AtJob, NotReady, MarketFails, Catch, Fails
<1>5. CASE Clean
  BY <1>5 DEF Placed, AtJob, Clean, SubmitAll, Post, Refreshed
<1>6. CASE Pending \/ Queue
  BY <1>6 DEF Placed, AtJob, Pending, Queue
<1>7. CASE MarketTimeout
  BY <1>7 DEF Placed, AtJob, MarketTimeout, NoRunInSight, Restart
<1>8. CASE RunFound
  BY <1>8 DEF Placed, AtJob, RunFound
<1>9. CASE Claim
  BY <1>9 DEF Placed, AtJob, Claim, Armed, ToFinish
<1>10. CASE AwaitDefinition \/ TaskStarts
  BY <1>10 DEF Placed, AtJob, AwaitDefinition, TaskStarts, HasDefinition
<1>11. CASE Refused
  BY <1>11 DEF Placed, AtJob, Refused, HasDefinition, ToFinish
<1>12. CASE NotValid \/ RunFails \/ FinishFails
  BY <1>12 DEF Placed, AtJob, NotValid, RunFails, FinishFails, HasDefinition, Postable, Catch,
     Fails
<1>13. CASE TaskEnds
  BY <1>13 DEF Placed, AtJob, TaskEnds, Catch, Fails, ToFinish
<1>14. CASE Finish
  BY <1>14 DEF Placed, AtJob, Finish, Restart, Post, Postable
<1>15. CASE Expires \/ AccountChanges
  BY <1>15 DEF Placed, AtJob, Expires, AccountChanges, StopTask, ToFinish
<1>16. CASE Signal \/ TasksStopped
  BY <1>16 DEF Placed, AtJob, Signal, TasksStopped
<1>17. CASE LeaveMarket
  BY <1>17 DEF Placed, AtJob, LeaveMarket
<1>18. CASE Exits
  BY <1>18 DEF Placed, AtJob, Exits, SubmitAll, Post, Down
<1>19. CASE Leaves
  BY <1>19 DEF Placed, AtJob, Leaves, Down
<1>20. CASE Crash
  BY <1>20 DEF Placed, AtJob, Crash, Down
<1>21. CASE Spawn
  BY <1>21 DEF Placed, AtJob, Spawn
<1>22. ASSUME NEW j \in Jobs, Assign(j) \/ PosterStops(j) \/ PosterExtends(j) PROVE Placed'
  BY <1>22 DEF Placed, AtJob, Assign, PosterStops, PosterExtends
<1>23. CASE UNCHANGED vars
  BY <1>23 DEF Placed, AtJob, vars
<1> QED BY <1>1, <1>2, <1>3, <1>4, <1>5, <1>6, <1>7, <1>8, <1>9, <1>10, <1>11, <1>12, <1>13,
    <1>14, <1>15, <1>16, <1>17, <1>18, <1>19, <1>20, <1>21, <1>22, <1>23
  DEF Next, MainStep, RunStep, ExitStep

LEMMA OutOfQueueNext == TypeOK /\ Inv /\ [Next]_vars => OutOfQueue'
<1> SUFFICES ASSUME TypeOK, Inv, [Next]_vars PROVE OutOfQueue'
  OBVIOUS
<1> USE DEF Inv, chainVars, loopVars, exitVars, runVars, jobVars, boundVars
<1>1. CASE InitDone \/ ChecksPass
  BY <1>1 DEF OutOfQueue, Placed, AtJob, InitDone, ChecksPass
<1>2. CASE Delay
  BY <1>2 DEF OutOfQueue, Placed, AtJob, Delay
<1>3. CASE Unhealthy
  BY <1>3 DEF OutOfQueue, Placed, AtJob, Unhealthy, Restart, Fails
<1>4. CASE NotReady \/ MarketFails
  BY <1>4 DEF OutOfQueue, Placed, AtJob, NotReady, MarketFails, Catch, Fails
<1>5. CASE Clean
  BY <1>5 DEF OutOfQueue, Placed, AtJob, Clean, SubmitAll, Post, Refreshed
<1>6. CASE Pending \/ Queue
  BY <1>6 DEF OutOfQueue, Placed, AtJob, TypeOK, Pending, Queue
<1>7. CASE MarketTimeout
  BY <1>7 DEF OutOfQueue, Placed, AtJob, MarketTimeout, NoRunInSight, Restart
<1>8. CASE RunFound
  BY <1>8 DEF OutOfQueue, Placed, AtJob, RunFound
<1>9. CASE Claim
  BY <1>9 DEF OutOfQueue, Placed, AtJob, Claim, Armed, ToFinish
<1>10. CASE AwaitDefinition \/ TaskStarts
  BY <1>10 DEF OutOfQueue, Placed, AtJob, AwaitDefinition, TaskStarts, HasDefinition
<1>11. CASE Refused
  BY <1>11 DEF OutOfQueue, Placed, AtJob, Refused, HasDefinition, ToFinish
<1>12. CASE NotValid \/ RunFails \/ FinishFails
  BY <1>12 DEF OutOfQueue, Placed, AtJob, NotValid, RunFails, FinishFails, HasDefinition,
     Postable, Catch, Fails
<1>13. CASE TaskEnds
  BY <1>13 DEF OutOfQueue, Placed, AtJob, TaskEnds, Catch, Fails, ToFinish
<1>14. CASE Finish
  BY <1>14 DEF OutOfQueue, Placed, AtJob, Finish, Restart, Post, Postable
<1>15. CASE Expires \/ AccountChanges
  BY <1>15 DEF OutOfQueue, Placed, AtJob, Expires, AccountChanges, StopTask, ToFinish
<1>16. CASE LeaveMarket
  <2>1. queued' => queued
    BY <1>16 DEF TypeOK, LeaveMarket
  <2> QED BY <1>16, <2>1 DEF OutOfQueue, Placed, AtJob, LeaveMarket
<1>17. CASE Exits
  BY <1>17 DEF OutOfQueue, Placed, AtJob, Exits, SubmitAll, Post, Down
<1>18. CASE Leaves
  <2>1. queued' => queued
    BY <1>18 DEF TypeOK, Leaves, Down
  <2> QED BY <1>18, <2>1 DEF OutOfQueue, Placed, AtJob, Leaves, Down
<1>19. CASE Crash
  BY <1>19 DEF OutOfQueue, Placed, AtJob, Crash, Down
<1>20. CASE Spawn
  BY <1>20 DEF OutOfQueue, Placed, AtJob, Spawn
<1>21. CASE Signal \/ TasksStopped
  <2>1. UNCHANGED <<queued, assigned, main, run, runPc>>
    BY <1>21 DEF Signal, TasksStopped
  <2> QED BY <2>1 DEF OutOfQueue, AtJob
<1>22. ASSUME NEW j \in Jobs, Assign(j) \/ PosterStops(j) \/ PosterExtends(j) PROVE OutOfQueue'
  BY <1>22 DEF OutOfQueue, AtJob, Assign, PosterStops, PosterExtends
<1>23. CASE UNCHANGED vars
  BY <1>23 DEF OutOfQueue, AtJob, vars
<1> QED BY <1>1, <1>2, <1>3, <1>4, <1>5, <1>6, <1>7, <1>8, <1>9, <1>10, <1>11, <1>12, <1>13,
    <1>14, <1>15, <1>16, <1>17, <1>18, <1>19, <1>20, <1>21, <1>22, <1>23
  DEF Next, MainStep, RunStep, ExitStep

LEMMA CleanedUpNext == TypeOK /\ Inv /\ [Next]_vars => CleanedUp'
<1> SUFFICES ASSUME TypeOK, Inv, [Next]_vars PROVE CleanedUp'
  OBVIOUS
<1> USE DEF Inv, chainVars, loopVars, exitVars, runVars, jobVars, boundVars
<1>1. CASE InitDone \/ ChecksPass
  BY <1>1 DEF CleanedUp, Fresh, Before, Placed, AtJob, InitDone, ChecksPass
<1>2. CASE Delay
  BY <1>2 DEF CleanedUp, Fresh, Before, Placed, AtJob, Delay
<1>3. CASE Unhealthy
  BY <1>3 DEF CleanedUp, Fresh, Before, Placed, AtJob, Unhealthy, Restart, Fails
<1>4. CASE NotReady \/ MarketFails
  BY <1>4 DEF CleanedUp, Fresh, Before, Placed, AtJob, TypeOK, NotReady, MarketFails, Catch, Fails
<1>5. CASE Clean
  BY <1>5 DEF CleanedUp, Fresh, Before, Placed, AtJob, Clean, SubmitAll, Post, Refreshed
<1>6. CASE Pending \/ Queue
  BY <1>6 DEF CleanedUp, Fresh, Before, Placed, AtJob, Pending, Queue
<1>7. CASE MarketTimeout
  BY <1>7 DEF CleanedUp, Fresh, Before, Placed, AtJob, MarketTimeout, NoRunInSight, Restart
<1>8. CASE RunFound
  BY <1>8 DEF CleanedUp, Fresh, Before, Placed, AtJob, RunFound
<1>9. CASE Claim
  BY <1>9 DEF CleanedUp, Fresh, Before, Placed, AtJob, Claim, Armed, ToFinish
<1>10. CASE AwaitDefinition \/ TaskStarts
  BY <1>10 DEF CleanedUp, Fresh, Before, Placed, AtJob, AwaitDefinition, TaskStarts, HasDefinition
<1>11. CASE Refused
  BY <1>11 DEF CleanedUp, Fresh, Before, Placed, AtJob, Refused, HasDefinition, ToFinish
<1>12. CASE NotValid \/ RunFails \/ FinishFails
  BY <1>12 DEF CleanedUp, Fresh, Before, Placed, AtJob, TypeOK, NotValid, RunFails, FinishFails,
     HasDefinition, Postable, Catch, Fails
<1>13. CASE TaskEnds
  BY <1>13 DEF CleanedUp, Fresh, Before, Placed, AtJob, TypeOK, TaskEnds, Catch, Fails, ToFinish
<1>14. CASE Finish
  BY <1>14 DEF CleanedUp, Fresh, Before, Placed, AtJob, Finish, Restart, Post, Postable
<1>15. CASE Expires \/ AccountChanges
  BY <1>15 DEF CleanedUp, Fresh, Before, Placed, AtJob, Expires, AccountChanges, StopTask,
     ToFinish
<1>16. CASE Signal \/ TasksStopped
  BY <1>16 DEF CleanedUp, Fresh, Before, Placed, AtJob, Signal, TasksStopped
<1>17. CASE LeaveMarket
  BY <1>17 DEF CleanedUp, Fresh, Before, Placed, AtJob, LeaveMarket
<1>18. CASE Exits
  BY <1>18 DEF CleanedUp, Fresh, Before, Placed, AtJob, Exits, SubmitAll, Post, Down
<1>19. CASE Leaves
  BY <1>19 DEF CleanedUp, Fresh, Before, Placed, AtJob, Leaves, Down
<1>20. CASE Crash
  BY <1>20 DEF CleanedUp, Fresh, Before, Placed, AtJob, Crash, Down
<1>21. CASE Spawn
  BY <1>21 DEF CleanedUp, Fresh, Before, Placed, AtJob, Spawn
<1>22. ASSUME NEW j \in Jobs, Assign(j) \/ PosterStops(j) \/ PosterExtends(j) PROVE CleanedUp'
  BY <1>22 DEF CleanedUp, Fresh, Before, AtJob, Assign, PosterStops, PosterExtends, Notify
<1>23. CASE UNCHANGED vars
  BY <1>23 DEF CleanedUp, Fresh, Before, AtJob, vars
<1> QED BY <1>1, <1>2, <1>3, <1>4, <1>5, <1>6, <1>7, <1>8, <1>9, <1>10, <1>11, <1>12, <1>13,
    <1>14, <1>15, <1>16, <1>17, <1>18, <1>19, <1>20, <1>21, <1>22, <1>23
  DEF Next, MainStep, RunStep, ExitStep

LEMMA EndIsTrueNext == TypeOK /\ Inv /\ [Next]_vars => EndIsTrue'
<1> SUFFICES ASSUME TypeOK, Inv, [Next]_vars PROVE EndIsTrue'
  OBVIOUS
<1> USE DEF Inv, chainVars, loopVars, exitVars, runVars, jobVars, boundVars
<1>1. CASE Clean
  BY <1>1 DEF EndIsTrue, CompletesStoppedJobs, Ended, CleanedUp, Fresh, Placed, AtJob, Clean,
     SubmitAll, Post, Refreshed
<1>2. CASE Pending \/ Queue
  BY <1>2 DEF EndIsTrue, CompletesStoppedJobs, Ended, CleanedUp, Fresh, Placed, AtJob, Pending,
     Queue
<1>3. CASE MarketTimeout
  BY <1>3 DEF EndIsTrue, CompletesStoppedJobs, Ended, CleanedUp, Fresh, Placed, AtJob,
     MarketTimeout, NoRunInSight, Restart
<1>4. CASE RunFound
  BY <1>4 DEF EndIsTrue, CompletesStoppedJobs, Ended, CleanedUp, Fresh, Placed, AtJob, RunFound
<1>5. CASE Claim
  BY <1>5 DEF EndIsTrue, CompletesStoppedJobs, Ended, CleanedUp, Fresh, Placed, AtJob, Claim,
     Armed, ToFinish
<1>6. CASE AwaitDefinition \/ TaskStarts
  BY <1>6 DEF EndIsTrue, CompletesStoppedJobs, Ended, CleanedUp, Fresh, Placed, AtJob,
     AwaitDefinition, TaskStarts, HasDefinition
<1>7. CASE Refused
  BY <1>7 DEF EndIsTrue, CompletesStoppedJobs, Ended, CleanedUp, Fresh, Placed, AtJob, Refused,
     HasDefinition, ToFinish
<1>8. CASE NotValid \/ RunFails \/ FinishFails
  BY <1>8 DEF EndIsTrue, CompletesStoppedJobs, Ended, CleanedUp, Fresh, Placed, AtJob, NotValid,
     RunFails, FinishFails, HasDefinition, Postable, Catch, Fails
<1>9. CASE TaskEnds
  BY <1>9 DEF EndIsTrue, CompletesStoppedJobs, Ended, CleanedUp, Fresh, Placed, AtJob, TaskEnds,
     Catch, Fails, ToFinish
<1>10. CASE Finish
  BY <1>10 DEF EndIsTrue, CompletesStoppedJobs, Ended, CleanedUp, Fresh, Placed, AtJob, Finish,
     Restart, Post, Postable
<1>11. CASE Expires \/ AccountChanges
  BY <1>11 DEF EndIsTrue, CompletesStoppedJobs, Ended, CleanedUp, Fresh, Placed, AtJob, TypeOK,
     Expires, AccountChanges, StopTask, ToFinish
<1>12. CASE Signal \/ TasksStopped
  BY <1>12 DEF EndIsTrue, CompletesStoppedJobs, Ended, CleanedUp, Fresh, Placed, AtJob, Signal,
     TasksStopped
<1>13. CASE LeaveMarket
  BY <1>13 DEF EndIsTrue, CompletesStoppedJobs, Ended, CleanedUp, Fresh, Placed, AtJob,
     LeaveMarket
<1>14. CASE Exits
  BY <1>14 DEF EndIsTrue, CompletesStoppedJobs, Ended, CleanedUp, Fresh, Placed, AtJob, Exits,
     SubmitAll, Post, Down
<1>15. CASE Leaves
  BY <1>15 DEF EndIsTrue, CompletesStoppedJobs, Ended, CleanedUp, Fresh, Placed, AtJob, Leaves,
     Down
<1>16. CASE Crash
  BY <1>16 DEF EndIsTrue, CompletesStoppedJobs, Ended, CleanedUp, Fresh, Placed, AtJob, Crash,
     Down
<1>17. CASE InitDone \/ ChecksPass \/ Delay \/ Unhealthy \/ NotReady \/
           MarketFails \/ Spawn
  <2>1. UNCHANGED <<nodeExiting, runPc, finishing, reason, onChain, job>>
    BY <1>17 DEF InitDone, ChecksPass, Delay, Unhealthy, NotReady, MarketFails, Spawn
  <2> QED BY <2>1 DEF EndIsTrue, CompletesStoppedJobs, Ended, Fresh, AtJob
<1>18. ASSUME NEW j \in Jobs, Assign(j) \/ PosterStops(j) \/ PosterExtends(j) PROVE EndIsTrue'
  BY <1>18 DEF EndIsTrue, CompletesStoppedJobs, Ended, CleanedUp, Fresh, Placed, AtJob, TypeOK,
     Assign, PosterStops, PosterExtends
<1>19. CASE UNCHANGED vars
  BY <1>19 DEF EndIsTrue, CompletesStoppedJobs, Ended, Fresh, AtJob, vars
<1> QED BY <1>1, <1>2, <1>3, <1>4, <1>5, <1>6, <1>7, <1>8, <1>9, <1>10, <1>11, <1>12, <1>13,
    <1>14, <1>15, <1>16, <1>17, <1>18, <1>19
  DEF Next, MainStep, RunStep, ExitStep

LEMMA OneOpenFlowNext == TypeOK /\ Inv /\ [Next]_vars => OneOpenFlow'
<1> SUFFICES ASSUME TypeOK, Inv, [Next]_vars PROVE OneOpenFlow'
  OBVIOUS
<1> USE DEF Inv, chainVars, loopVars, exitVars, runVars, jobVars, boundVars
<1>1. CASE Pending \/ Queue
  BY <1>1 DEF OneOpenFlow, Placed, AtJob, Pending, Queue
<1>2. CASE MarketTimeout
  BY <1>2 DEF OneOpenFlow, Placed, AtJob, MarketTimeout, NoRunInSight, Restart
<1>3. CASE RunFound
  BY <1>3 DEF OneOpenFlow, Placed, AtJob, RunFound
<1>4. CASE Claim
  BY <1>4 DEF OneOpenFlow, Placed, AtJob, TypeOK, Claim, Armed, ToFinish
<1>5. CASE AwaitDefinition \/ TaskStarts
  BY <1>5 DEF OneOpenFlow, Placed, AtJob, TypeOK, AwaitDefinition, TaskStarts, HasDefinition
<1>6. CASE Refused
  BY <1>6 DEF OneOpenFlow, Placed, AtJob, Refused, HasDefinition, ToFinish
<1>7. CASE NotValid \/ RunFails \/ FinishFails
  BY <1>7 DEF OneOpenFlow, Placed, AtJob, NotValid, RunFails, FinishFails, HasDefinition,
     Postable, Catch, Fails
<1>8. CASE TaskEnds
  BY <1>8 DEF OneOpenFlow, Placed, AtJob, TypeOK, TaskEnds, Catch, Fails, ToFinish
<1>9. CASE Finish
  BY <1>9 DEF OneOpenFlow, Placed, AtJob, Finish, Restart, Post, Postable
<1>10. CASE Expires \/ AccountChanges
  BY <1>10 DEF OneOpenFlow, Placed, AtJob, Expires, AccountChanges, StopTask, ToFinish
<1>11. CASE Signal \/ TasksStopped
  BY <1>11, BoundAssumption DEF OneOpenFlow, Placed, AtJob, TypeOK, Signal, TasksStopped
<1>12. CASE LeaveMarket
  BY <1>12 DEF OneOpenFlow, Placed, AtJob, LeaveMarket
<1>13. CASE Exits
  BY <1>13 DEF OneOpenFlow, Placed, AtJob, Exits, SubmitAll, Post, Down
<1>14. CASE Leaves
  BY <1>14 DEF OneOpenFlow, Placed, AtJob, Leaves, Down
<1>15. CASE Crash
  BY <1>15, BoundAssumption DEF OneOpenFlow, Placed, AtJob, TypeOK, Crash, Down
<1>16. CASE InitDone \/ ChecksPass \/ Delay \/ Unhealthy \/ NotReady \/
           MarketFails \/ Clean \/ Spawn
  <2>1. UNCHANGED <<signals, shutdown, nodeExiting, crashes, flow, runPc, job>>
    BY <1>16 DEF InitDone, ChecksPass, Delay, Unhealthy, NotReady, MarketFails, Clean, Spawn
  <2> QED BY <2>1 DEF OneOpenFlow, AtJob
<1>17. ASSUME NEW j \in Jobs, Assign(j) \/ PosterStops(j) \/ PosterExtends(j) PROVE OneOpenFlow'
  BY <1>17 DEF OneOpenFlow, AtJob, Assign, PosterStops, PosterExtends
<1>18. CASE UNCHANGED vars
  BY <1>18 DEF OneOpenFlow, AtJob, vars
<1> QED BY <1>1, <1>2, <1>3, <1>4, <1>5, <1>6, <1>7, <1>8, <1>9, <1>10, <1>11, <1>12, <1>13,
    <1>14, <1>15, <1>16, <1>17, <1>18
  DEF Next, MainStep, RunStep, ExitStep

LEMMA InvNext == (TypeOK /\ Inv) /\ [Next]_vars => (TypeOK /\ Inv)'
BY TypeNext, PlacedNext, OutOfQueueNext, CleanedUpNext, EndIsTrueNext, OneOpenFlowNext DEF Inv

-------------------------------------------------------------------------------

\* While a task manager works nothing pulls its job from under it: not the clean up, not the
\* market's time out, not the shutdown; and the node is in no queue.
THEOREM WorksUndisturbedAlways == Spec => []WorksUndisturbed
<1>1. Init => TypeOK /\ Inv
  BY TypeInit, InvInit
<1>2. TypeOK /\ Inv => WorksUndisturbed
  BY DEF Inv, Placed, OutOfQueue, AtJob, WorksUndisturbed
<1> QED BY <1>1, <1>2, InvNext, PTL DEF Spec

\* A job is claimed with nothing of an earlier one left, unless a signal came.
THEOREM ClaimsAfreshAlways == Spec => []ClaimsAfresh
<1>1. Init => TypeOK /\ Inv
  BY TypeInit, InvInit
<1>2. TypeOK /\ Inv => ClaimsAfresh
  BY DEF Inv, CleanedUp, Fresh, ClaimsAfresh
<1> QED BY <1>1, <1>2, InvNext, PTL DEF Spec

\* The results that a step posts are those of flows that are not open.
LEMMA PostsEnded ==
    ASSUME TypeOK, Inv, Next, signals = MaxSignals, crashes = MaxCrashes,
           NEW j \in Jobs, result[j] = "none"
    PROVE  result'[j] # "open"
<1> USE DEF chainVars, loopVars, exitVars, runVars, jobVars, boundVars
<1>1. runPc # "task" => flow[j] # "open"
  BY DEF Inv, OneOpenFlow
<1>2. ASSUME NEW J, Post(J), runPc # "task" PROVE result'[j] # "open"
  BY <1>1, <1>2 DEF Post, Result
<1>3. CASE Clean
  BY <1>2, <1>3 DEF Clean, SubmitAll, Inv, Placed
<1>4. CASE Finish
  BY <1>2, <1>4 DEF Finish
<1>5. CASE Exits
  BY <1>5 DEF Exits, Inv, OneOpenFlow
<1>6. CASE UNCHANGED result
  BY <1>6
<1>7. Clean \/ Finish \/ Exits \/ UNCHANGED result
  BY DEF Next, MainStep, RunStep, ExitStep, InitDone, ChecksPass, Pending, Queue, Delay, NotReady,
     Unhealthy, MarketFails, MarketTimeout, RunFound, Claim, AwaitDefinition, TaskStarts, Refused,
     NotValid, FinishFails, RunFails, TaskEnds, Expires, AccountChanges, Signal, LeaveMarket,
     TasksStopped, Leaves, Crash, Spawn, Assign, PosterStops, PosterExtends
<1> QED BY <1>3, <1>4, <1>5, <1>6, <1>7

\* What is posted for a job is the result of a flow that ended, and complete() is called only for
\* a job its poster ended, however timers, accounts and ends of jobs come together.
THEOREM PostsWhatEndedAlways == Spec => PostsWhatEnded
<1>1. Init => TypeOK /\ Inv
  BY TypeInit, InvInit
<1>2. TypeOK /\ Inv => CompletesStoppedJobs
  BY DEF Inv, EndIsTrue
<1>3. (TypeOK /\ Inv) /\ [Next]_vars
        => [signals = MaxSignals /\ crashes = MaxCrashes =>
              \A j \in Jobs : result[j] = "none" => result'[j] # "open"]_vars
  BY PostsEnded
<1> QED BY <1>1, <1>2, <1>3, InvNext, PTL DEF Spec, PostsWhatEnded, PostsEndedFlows
===============================================================================
