---------------------------- MODULE MCTaskManager ----------------------------
(***************************************************************************)
(* Jobs to run TaskManager on.  A configuration names a job definition and *)
(* the plan, the dependencies and the servers follow from it as build()    *)
(* computes them (ExecutionPlan).                                          *)
(***************************************************************************)
EXTENDS TaskManager, ExecutionPlan

CONSTANT Job

JobOps == Ids(Job)
JobNGroups == Len(createExecutionPlan(Job))
JobGroupOf ==
    [o \in Ids(Job) |-> CHOOSE g \in DOMAIN createExecutionPlan(Job) :
                           Contains(createExecutionPlan(Job)[g].ops, o)]
JobDependencies == [o \in Ids(Job) |-> createDependencyMap(Job)[o].dependencies]
JobServers == {o \in Ids(Job) : opMap(Job)[o].serves}

Op(id, group, depends_on) == [id |-> id, group |-> group, depends_on |-> depends_on, serves |-> FALSE]
Server(id, group, serves) == [id |-> id, group |-> group, depends_on |-> serves, serves |-> TRUE]

\* A server and its client.
ServedJob == <<Server("server", "serve", {"client"}), Op("client", "serve", {})>>

\* A chain that starts from a volume, and then two ungrouped ops, each a stage of its own, of
\* which the first releases the second.
ChainJob == <<Op("volume", "run", {}), Op("build", "run", {"volume"}),
              Op("test", NoGroup, {}), Op("publish", NoGroup, {"test"})>>

\* A pair.
PairJob == <<Op("first", "run", {}), Op("second", "run", {"first"})>>
=============================================================================
