---------------------------- MODULE ExecutionPlan ----------------------------
(***************************************************************************)
(* What TaskManager.build() makes of a job definition, before anything     *)
(* runs: src/src/NodeManager/node/task/executions/*.ts as operators.       *)
(*                                                                         *)
(* A job definition is the sequence of its ops, and an op is a record      *)
(*   [id, group, depends_on, serves]                                       *)
(* of its id, execution.group (NoGroup when undefined), the set            *)
(* execution.depends_on and execution.stop_if_dependent_stops.  Ids and    *)
(* group names are both strings, so an id may equal a group name.          *)
(***************************************************************************)
EXTENDS Naturals, SequencesExt

NoGroup == "undefined"

Operations == [id : STRING, group : STRING, depends_on : SUBSET STRING, serves : BOOLEAN]

Ids(job) == {job[i].id : i \in DOMAIN job}

\* The ids createOperationMap reports: every occurrence but the first.
Duplicates(job) == {job[i].id : i \in {j \in DOMAIN job : \E h \in 1..(j - 1) : job[h].id = job[j].id}}

opMap(job) == [id \in Ids(job) |-> job[CHOOSE i \in DOMAIN job : job[i].id = id]]

\* Mutant: the groups are not compared.
PlanErrorsAnyGroup(job) ==
    UNION {LET op == job[i] IN
           {<<op.id, dep>> : dep \in {d \in op.depends_on : d = op.id \/ d \notin Ids(job)}}
           : i \in DOMAIN job}

\* Each error of validateExecutionPlan is the op and the dependency it is about.
PlanErrors(job) ==
    UNION {LET op == job[i] IN
           {<<op.id, dep>> : dep \in {d \in op.depends_on :
                                        \/ d = op.id
                                        \/ d \notin Ids(job)
                                        \/ opMap(job)[d].group # op.group}}
           : i \in DOMAIN job}

\* op.execution?.group ?? op.id
GroupKey(op) == IF op.group = NoGroup THEN op.id ELSE op.group

AddToPlan(plan, op) ==
    IF \E g \in DOMAIN plan : plan[g].group = GroupKey(op)
    THEN [g \in DOMAIN plan |->
             IF plan[g].group = GroupKey(op) THEN [plan[g] EXCEPT !.ops = Append(@, op.id)]
                                             ELSE plan[g]]
    ELSE Append(plan, [group |-> GroupKey(op), ops |-> <<op.id>>])

\* Plans(job)[n] is the plan once the loop has seen the first n ops.
Plans(job) ==
    LET plan[n \in 0..Len(job)] ==
            IF n = 0 THEN <<>> ELSE AddToPlan(plan[n - 1], job[n])
    IN  plan

createExecutionPlan(job) == Plans(job)[Len(job)]

\* The map is filled from both ends of a depends_on, which names the ops that wait
\* for this one if it is a server, and the ops this one waits for if it is not.
createDependencyMap(job) ==
    LET declares(id, other) == other \in opMap(job)[id].depends_on
        serves(id) == opMap(job)[id].serves IN
    [id \in Ids(job) |->
        [dependencies |-> {other \in Ids(job) : \/ declares(id, other) /\ ~serves(id)
                                                \/ declares(other, id) /\ serves(other)},
         dependents   |-> {other \in Ids(job) : \/ declares(id, other) /\ serves(id)
                                                \/ declares(other, id) /\ ~serves(other)}]]
=============================================================================
