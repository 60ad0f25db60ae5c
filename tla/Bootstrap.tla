------------------------------ MODULE Bootstrap ------------------------------
(***************************************************************************)
(* TaskManager.bootstrap() as jobHandler.start() calls it for a job that   *)
(* has no flow yet: build() throws on a bad definition, and the node then  *)
(* records an 'init error' and forgets the task manager, or the plan and   *)
(* the dependency map the scheduler runs on are in place.                  *)
(***************************************************************************)
EXTENDS ExecutionPlan

CONSTANT JobDefinitions   \* the definitions a client may post

ASSUME DefinitionAssumption == JobDefinitions \subseteq Seq(Operations)

VARIABLES
    job,             \* the definition
    flowStatus,      \* flow.state.status, "none" while there is no flow
    registered,      \* TaskManagerRegistry has the job
    executionPlan,
    dependecyMap

vars == <<job, flowStatus, registered, executionPlan, dependecyMap>>

Init ==
    /\ job \in JobDefinitions
    /\ flowStatus = "none"
    /\ registered = FALSE
    /\ executionPlan = <<>>
    /\ dependecyMap = <<>>

Bootstraps ==
    /\ flowStatus = "none"
    /\ Duplicates(job) = {} /\ PlanErrors(job) = {}
    /\ executionPlan' = createExecutionPlan(job)
    /\ dependecyMap' = createDependencyMap(job)
    /\ flowStatus' = "init"
    /\ registered' = TRUE
    /\ UNCHANGED job

InitError ==
    /\ flowStatus = "none"
    /\ Duplicates(job) # {} \/ PlanErrors(job) # {}
    /\ flowStatus' = "init error"
    /\ UNCHANGED <<job, registered, executionPlan, dependecyMap>>

Next == Bootstraps \/ InitError

Spec == Init /\ [][Next]_vars

-------------------------------------------------------------------------------
Accepted == flowStatus = "init"
StageOf(id) == CHOOSE g \in DOMAIN executionPlan : Contains(executionPlan[g].ops, id)

\* The list is not empty, and each entry is an op defined after the ops of all entries before it.
ListsInOrder(ids, ops) ==
    /\ ids # <<>>
    /\ \A a \in DOMAIN ids : \E i \in DOMAIN ops :
          ids[a] = ops[i].id /\ \A b \in 1..(a - 1) : \E h \in 1..(i - 1) : ids[b] = ops[h].id

\* The plan of an accepted job has every op in one stage, together with the ops of its group
\* wherever they are in the definition.  A stage lists its ops once each and in the order
\* they are defined, and the stages come in the order of their first ops (createExecutionPlan).
PlanPartitions ==
    Accepted =>
        /\ \A i \in DOMAIN job :
              {g \in DOMAIN executionPlan : Contains(executionPlan[g].ops, job[i].id)}
                 = {StageOf(job[i].id)}
        /\ \A g \in DOMAIN executionPlan : ListsInOrder(executionPlan[g].ops, job)
        /\ \A i, j \in DOMAIN job :
              StageOf(job[i].id) = StageOf(job[j].id) <=> GroupKey(job[i]) = GroupKey(job[j])
        /\ \A i, j \in DOMAIN job :
              StageOf(job[i].id) < StageOf(job[j].id) =>
                  \E h \in 1..i : /\ StageOf(job[h].id) = StageOf(job[i].id)
                                  /\ \A k \in 1..h : StageOf(job[k].id) # StageOf(job[j].id)

\* What the scheduler takes for granted: the two sides of the map agree, whoever
\* declared the dependency, no op waits for itself, and no op of a declared group
\* waits for one of another group (validateExecutionPlan, createDependencyMap).
DependenciesSound ==
    Accepted =>
        \A a, b \in Ids(job) : b \in dependecyMap[a].dependencies =>
            /\ a \in dependecyMap[b].dependents
            /\ a # b
            /\ opMap(job)[a].group # NoGroup => StageOf(a) = StageOf(b)

\* A server waits for nothing of what it serves, unless that op is its server: it has to be
\* running before they start (createDependencyMap:17-19).
ServersGoFirst ==
    Accepted =>
        \A a, b \in Ids(job) :
            opMap(job)[a].serves /\ b \in opMap(job)[a].depends_on =>
                /\ a \in dependecyMap[b].dependencies
                /\ b \in dependecyMap[a].dependencies
                      => opMap(job)[b].serves /\ a \in opMap(job)[b].depends_on

\* The plan and the map of an accepted job are what the scheduler takes for granted.
PlanIsSound == PlanPartitions /\ DependenciesSound /\ ServersGoFirst
=============================================================================
