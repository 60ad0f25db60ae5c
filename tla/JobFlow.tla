------------------------------- MODULE JobFlow -------------------------------
(***************************************************************************)
(* What a task manager promises to the job handler, whatever its ops do:   *)
(* start() runs the flow, writes its outcome once and returns; stop()      *)
(* leaves nothing at work and returns when start() has.  JobHandler posts  *)
(* a result on the strength of it.  TaskManager implements this where      *)
(* containers can be removed and podman comes back (ImplementsJobFlow).    *)
(***************************************************************************)
CONSTANT Ops

VARIABLES
    phase,     \* of start(): ready, running, cleaning, over
    outcome,   \* flow.state.status in the repository
    atWork,    \* the ops with a container at work that was not told to end
    failed,    \* the ops recorded as failed
    told,      \* stop() was called
    stopping   \* it has not returned

vars == <<phase, outcome, atWork, failed, told, stopping>>

Init ==
    /\ phase = "ready" /\ outcome = "init"
    /\ atWork = {} /\ failed = {}
    /\ told = FALSE /\ stopping = FALSE

\* start() begins with the first ops.
Begin ==
    /\ phase = "ready"
    /\ phase' = "running" /\ outcome' = "running"
    /\ atWork' \subseteq Ops /\ failed' \subseteq Ops
    /\ UNCHANGED <<told, stopping>>

\* Ops start, end, are stopped and restarted; none starts once stop() was called.
Work ==
    /\ phase = "running"
    /\ atWork' \subseteq IF told THEN {} ELSE Ops
    /\ failed' \subseteq Ops
    /\ UNCHANGED <<phase, outcome, told, stopping>>

\* The outcome is written when nothing is at work, and is that of the ops.
Finish ==
    /\ phase \in {"ready", "running"} /\ atWork = {}
    /\ phase' = "cleaning"
    /\ outcome' = IF failed = {} THEN "success" ELSE "failed"
    /\ UNCHANGED <<atWork, failed, told, stopping>>

CleanedUp ==
    /\ phase = "cleaning"
    /\ phase' = "over"
    /\ UNCHANGED <<outcome, atWork, failed, told, stopping>>

\* stop() is called, while ops run or are cleaned up: those that never started may end as failed.
Stop ==
    /\ phase \in {"running", "cleaning"} /\ ~told
    /\ told' = TRUE /\ stopping' = TRUE
    /\ atWork' = {}
    /\ failed \subseteq failed' /\ failed' \subseteq Ops
    /\ UNCHANGED <<phase, outcome>>

StopReturns ==
    /\ stopping /\ phase = "over"
    /\ stopping' = FALSE
    /\ UNCHANGED <<phase, outcome, atWork, failed, told>>

Next == Begin \/ Work \/ Finish \/ CleanedUp \/ Stop \/ StopReturns

Spec == Init /\ [][Next]_vars
==============================================================================
