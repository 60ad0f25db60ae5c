-------------------------- MODULE MonitoringProofs --------------------------
(***************************************************************************)
(* Theorems about Monitoring, for any jobs, claims, throws and calls.      *)
(***************************************************************************)
EXTENDS Monitoring, TLAPS

\* The job is claimed, and finish() has not been called.
BeforeFinish == OfTheJob \ {"finishing", "collecting", "collected", "uncollected"}

\* No operation of any job runs, so that none can answer.
NothingRuns == {"set", "queueing", "waiting"} \cup (OfTheJob \ {"running", "threw"})

-----------------------------------------------------------------------------
(* The rows of Script: where a job can end, and what is said when it does.     *)

\* A job is entered by its claim only; it is left for finish(), whose call is a row of its own, or it
\* fails, which past.unfinished remembers, or it is over once finish() has answered.
LEMMA Rows ==
    ASSUME NEW row \in Script
    PROVE  /\ row[4] \in OfTheJob => row[1] \in OfTheJob
           /\ row[4] \in BeforeFinish => row[1] \in BeforeFinish
           /\ row[1] \in BeforeFinish /\ row[4] \notin BeforeFinish =>
                 \/ row[4] = "finishing" /\ row[2] = "JobHandler.finish" /\ row[3] = "call"
                 \/ row[1] \in {"claiming", "unresolved", "threw"} /\ row[4] = "failed"
           /\ row[4] = "finishing" => row[2] = "JobHandler.finish" /\ row[3] = "call"
           /\ row[2] = "JobHandler.claim" => row[1] = "claiming" /\ row[3] # "call"
           /\ row[2] \notin {"BasicNode.stop", "BasicNode.exit", "FlowHandler.operationExposed"}
           /\ row[1] = "running" => row[4] \in {"ran", "threw"}
           /\ row[1] = "ran" => row[4] = "finishing"
           /\ row[1] = "threw" => row[4] = "failed"
BY DEF Script, OfTheJob, BeforeFinish

\* What is said as a job is left, for the log: the call that takes its job from it, but for a claim or a
\* start that failed; and the clean up follows on a failure.
LEMMA RowsOfTheLog ==
    ASSUME NEW row \in Script
    PROVE  /\ row[1] \in OfTheJob /\ row[4] \notin OfTheJob =>
                 \/ row[1] \in NothingRuns /\ row[4] = "failed"
                 \/ row[2] = "JobHandler.finish" /\ row[3] # "call"
                 \/ row[2] = "JobHandler.runWithErrorHandling" /\ row[3] = "error"
           /\ row[1] = "failed" => row[2] = "BasicNode.clean" /\ row[3] = "call"
           /\ row[4] \in NothingRuns =>
                 \/ row[1] \in NothingRuns
                 \/ row[1] \in {"running", "setup"} /\ row[3] # "error"
           /\ row[3] # "tick" /\ "failed" \notin OfTheJob
BY DEF Script, OfTheJob, NothingRuns

-----------------------------------------------------------------------------
(* The inductive invariant: whose job NodeState and NodeLog remember.          *)

Typed ==
    /\ job \in Jobs \cup {"none"}
    /\ shared \in [job : Jobs \cup {"none"}, ready : BOOLEAN]
    /\ logJob \in Jobs \cup {"none"}
    /\ past \in [inJobLoop : BOOLEAN, apiStarted : BOOLEAN, exposed : BOOLEAN, unfinished : BOOLEAN,
                 threw : BOOLEAN]

\* What NodeState remembers is the job at work until finish(), or one that never came to it.
StateRemembers == shared.job # "none" /\ ~past.unfinished => at \in BeforeFinish /\ shared.job = job

\* An endpoint that is announced belongs to a job whose operations run, or have just run.
ReadyRemembers == shared.ready /\ ~past.unfinished => at \in {"running", "ran", "threw"} /\ past.exposed

\* No call of an earlier job can answer while nothing runs.
NoneAnswers == at \in NothingRuns => calls = {}

\* What NodeLog remembers is the job at work, or one that failed with nothing left to answer.
LogRemembers == logJob # "none" => logJob = job /\ (at \in OfTheJob \/ (at = "failed" /\ calls = {}))

Remembers == Typed /\ StateRemembers /\ ReadyRemembers /\ NoneAnswers /\ LogRemembers

LEMMA RemembersInit == Init => Remembers
BY MonitoringAssumption
   DEF Init, Remembers, Typed, StateRemembers, ReadyRemembers, NoneAnswers, LogRemembers, OfTheJob, BeforeFinish

\* The methods that make NodeState, or NodeLog, change what it remembers.
StateMethods == {"JobHandler.claim", "JobHandler.finish", "BasicNode.stop", "FlowHandler.operationExposed"}
LogMethods == {"JobHandler.claim", "JobHandler.finish", "JobHandler.runWithErrorHandling", "BasicNode.stop",
               "BasicNode.exit", "BasicNode.clean", "BasicNode.restartDelay"}

\* Every other announcement leaves both as they are, and is streamed to what they remember.
LEMMA Unremembered ==
    ASSUME NEW m, NEW t, NEW j, Announce(m, t, j)
    PROVE  /\ m \notin StateMethods => shared' = shared /\ sent'.states \in {"none", shared.job}
           /\ m \notin LogMethods \/ (m = "BasicNode.restartDelay" /\ t = "tick") =>
                 logJob' = logJob /\ sent'.logs \in {"none", logJob}
BY DEF Announce, SharedAfter, JobAfter, JobNow, Streamed, StateMethods, LogMethods

\* The streamers never send an entry to another job than the one NodeLog has at the time.
LEMMA Sent ==
    ASSUME NEW m, NEW t, NEW j, Announce(m, t, j)
    PROVE  /\ sent'.states \in {"none", IF m = "JobHandler.claim" THEN j ELSE shared.job}
           /\ sent'.logs \in {"none", JobNow(m, t, j)}
BY DEF Announce, Streamed

\* Asides come while something else goes on, and the log is of the job only if that is.
LEMMA AsideFacts ==
    ASSUME Remembers, NEW m \in Asides, NEW t \in AsideTypes, Aside(m, t)
    PROVE  /\ m \notin StateMethods \/ (m = "FlowHandler.operationExposed" /\ at = "running")
           /\ m \notin LogMethods \/ (m = "BasicNode.restartDelay" /\ t = "tick")
           /\ at # "failed" \/ calls # {}
           /\ at' = at /\ job' = job /\ calls' = calls
           /\ past' = [past EXCEPT !.exposed = @ \/ m = "FlowHandler.operationExposed"]
           /\ Announce(m, t, job)
BY DEF Aside, StateMethods, LogMethods, PullBar, DownloadBar

-----------------------------------------------------------------------------
(* The steps.                                                                  *)

LEMMA TypedNext == Remembers /\ [Next]_vars => Typed'
<1> SUFFICES ASSUME Remembers, [Next]_vars PROVE Typed'
  OBVIOUS
<1> USE DEF Remembers, Typed
<1>1. ASSUME NEW m, NEW t, NEW j \in Jobs \cup {"none"}, Announce(m, t, j)
      PROVE  /\ shared' \in [job : Jobs \cup {"none"}, ready : BOOLEAN]
             /\ logJob' \in Jobs \cup {"none"}
  <2>1. shared' \in [job : Jobs \cup {"none"}, ready : BOOLEAN]
    BY <1>1 DEF Announce, SharedAfter
  <2>2. logJob' \in Jobs \cup {"none"}
    BY <1>1 DEF Announce, JobAfter, JobNow
  <2> QED BY <2>1, <2>2
<1>2. CASE MainLine
  <2>1. past' \in [inJobLoop : BOOLEAN, apiStarted : BOOLEAN, exposed : BOOLEAN, unfinished : BOOLEAN,
                   threw : BOOLEAN]
    BY <1>2 DEF MainLine
  <2>2. PICK row \in Script : job' = job /\ IF row[2] = "-" THEN Silent ELSE Announce(row[2], row[3], job)
    BY <1>2 DEF MainLine
  <2> QED BY <1>1, <2>1, <2>2 DEF Silent
<1>3. CASE Claim
  BY <1>1, <1>3 DEF Claim
<1>4. CASE StartTasks \/ \E ending \in {"ran", "threw"} : TasksEnd(ending)
  BY <1>1, <1>4 DEF StartTasks, TasksEnd, Silent
<1>5. ASSUME NEW m \in OpCalls, CallsDocker(m) \/ DockerAnswers(m) PROVE Typed'
  BY <1>1, <1>5 DEF CallsDocker, DockerAnswers
<1>6. ASSUME NEW m \in Asides, NEW t \in AsideTypes, Aside(m, t) PROVE Typed'
  <2>1. Announce(m, t, job) /\ job' = job /\ past' = [past EXCEPT !.exposed = @ \/ m = "FlowHandler.operationExposed"]
    BY <1>6 DEF Aside
  <2> QED BY <1>1, <2>1
<1>7. CASE Exit \/ ApiStops \/ StopCalled \/ StopAnswers \/ StartsAgain
  BY <1>1, <1>7 DEF Exit, ApiStops, StopCalled, StopAnswers, StartsAgain, Silent
<1>8. CASE UNCHANGED vars
  BY <1>8 DEF vars
<1> QED BY <1>2, <1>3, <1>4, <1>5, <1>6, <1>7, <1>8 DEF Next

\* The tasks and the set up return once nothing of theirs is under way.
LEMMA NoneAnswersNext == Remembers /\ [Next]_vars => NoneAnswers'
<1> SUFFICES ASSUME Remembers, [Next]_vars PROVE NoneAnswers'
  OBVIOUS
<1> USE DEF Remembers, NoneAnswers
<1>1. CASE MainLine
  <2>1. PICK row \in Script : at = row[1] /\ MayTake(row) /\ at' = row[4] /\ calls' = calls
    BY <1>1 DEF MainLine
  <2> QED BY <2>1, RowsOfTheLog DEF MayTake, Fails
<1>2. CASE Claim \/ StartTasks \/ \E ending \in {"ran", "threw"} : TasksEnd(ending)
  BY <1>2 DEF Claim, StartTasks, TasksEnd, NothingRuns, OfTheJob
<1>3. ASSUME NEW m \in OpCalls, CallsDocker(m) \/ DockerAnswers(m) PROVE NoneAnswers'
  BY <1>3 DEF CallsDocker, DockerAnswers, NothingRuns, OfTheJob
<1>4. ASSUME NEW m \in Asides, NEW t \in AsideTypes, Aside(m, t) PROVE NoneAnswers'
  BY <1>4 DEF Aside
<1>5. CASE Exit \/ ApiStops \/ StopCalled \/ StopAnswers \/ StartsAgain
  BY <1>5 DEF Exit, ApiStops, StopCalled, StopAnswers, StartsAgain, NothingRuns, OfTheJob
<1>6. CASE UNCHANGED vars
  BY <1>6 DEF vars
<1> QED BY <1>1, <1>2, <1>3, <1>4, <1>5, <1>6 DEF Next

\* NodeState forgets a job with finish(), or past.unfinished remembers that it never came to it.
LEMMA StateNext ==
    ASSUME Remembers, [Next]_vars
    PROVE  StateRemembers' /\ ReadyRemembers'
<1> USE DEF Remembers, StateRemembers, ReadyRemembers
<1>1. CASE MainLine
  <2>1. PICK row \in Script :
          /\ at = row[1] /\ at' = row[4] /\ job' = job
          /\ IF row[2] = "-" THEN Silent ELSE Announce(row[2], row[3], job)
          /\ past'.exposed = past.exposed
          /\ past'.unfinished = ((past.unfinished \/ (row[1] \in {"claiming", "unresolved", "threw"} /\ row[4] = "failed"))
                                    /\ row[4] # "finishing")
    BY <1>1 DEF MainLine, Typed
  <2>2. CASE row[2] = "JobHandler.claim"
    <3>1. shared'.job = job /\ shared'.ready = shared.ready
      BY <2>1, <2>2 DEF Announce, SharedAfter, Typed
    <3>2. row[1] = "claiming" /\ row[4] # "finishing"
      BY <2>1, <2>2, Rows
    <3> QED BY <2>1, <3>1, <3>2, Rows DEF BeforeFinish, OfTheJob
  <2>3. CASE row[2] = "JobHandler.finish"
    <3>1. /\ shared'.job = IF row[3] = "call" THEN "none" ELSE shared.job
          /\ shared'.ready = FALSE
      BY <2>1, <2>3 DEF Announce, SharedAfter
    <3> QED BY <2>1, <2>3, <3>1, Rows DEF BeforeFinish, OfTheJob
  <2>4. CASE row[2] \notin {"JobHandler.claim", "JobHandler.finish"}
    <3>1. shared' = shared
      BY <2>1, <2>4, Rows, Unremembered DEF Silent, StateMethods
    <3> QED BY <2>1, <2>4, <3>1, Rows DEF BeforeFinish, OfTheJob
  <2> QED BY <2>2, <2>3, <2>4
<1>2. CASE Claim
  BY <1>2 DEF Claim, Announce, SharedAfter, Typed, BeforeFinish, OfTheJob
<1>3. CASE StartTasks \/ \E ending \in {"ran", "threw"} : TasksEnd(ending)
  <2>1. shared' = shared /\ past'.exposed = past.exposed /\ past'.unfinished = past.unfinished /\ job' = job
    BY <1>3, Unremembered DEF StartTasks, TasksEnd, Silent, StateMethods, Typed
  <2> QED BY <1>3, <2>1 DEF StartTasks, TasksEnd, BeforeFinish, OfTheJob
<1>4. ASSUME NEW m \in OpCalls, CallsDocker(m) \/ DockerAnswers(m) PROVE StateRemembers' /\ ReadyRemembers'
  <2>1. m \notin StateMethods
    BY DEF OpCalls, ContainerCalls, LoggedCalls, StateMethods
  <2> QED BY <1>4, <2>1, Unremembered DEF CallsDocker, DockerAnswers
<1>5. ASSUME NEW m \in Asides, NEW t \in AsideTypes, Aside(m, t) PROVE StateRemembers' /\ ReadyRemembers'
  <2>1. CASE m \notin StateMethods
    <3>1. m # "FlowHandler.operationExposed"
      BY <2>1 DEF StateMethods
    <3> QED BY <1>5, <2>1, <3>1, AsideFacts, Unremembered DEF Typed
  <2>2. CASE m = "FlowHandler.operationExposed" /\ at = "running"
    <3>1. shared'.job = shared.job /\ shared'.ready = TRUE
      BY <1>5, <2>2, AsideFacts DEF Announce, SharedAfter, Typed
    <3> QED BY <1>5, <2>2, <3>1, AsideFacts DEF Typed
  <2> QED BY <1>5, <2>1, <2>2, AsideFacts
<1>6. CASE Exit \/ ApiStops \/ StopCalled \/ StopAnswers
  <2>1. at' = at /\ job' = job /\ past' = past
    BY <1>6 DEF Exit, ApiStops, StopCalled, StopAnswers
  <2>2. shared' = shared \/ (shared'.job = "none" /\ shared'.ready = FALSE)
    BY <1>6 DEF Exit, ApiStops, StopCalled, StopAnswers, Announce, SharedAfter
  <2> QED BY <2>1, <2>2
<1>7. CASE StartsAgain
  BY <1>7 DEF StartsAgain, Silent, BeforeFinish, OfTheJob
<1>8. CASE UNCHANGED vars
  BY <1>8 DEF vars
<1> QED BY <1>1, <1>2, <1>3, <1>4, <1>5, <1>6, <1>7, <1>8 DEF Next

\* NodeLog forgets a job as it is left, or when the clean up begins, before anything can answer.
LEMMA LogNext ==
    ASSUME Remembers, [Next]_vars
    PROVE  LogRemembers'
<1> USE DEF Remembers, LogRemembers
<1>1. CASE MainLine
  <2>1. PICK row \in Script :
          /\ at = row[1] /\ at' = row[4] /\ job' = job /\ calls' = calls
          /\ IF row[2] = "-" THEN Silent ELSE Announce(row[2], row[3], job)
    BY <1>1 DEF MainLine
  <2>2. logJob' \in {"none", logJob} \/ row[2] = "JobHandler.claim"
    BY <2>1 DEF Silent, Announce, JobAfter, JobNow
  <2>3. CASE logJob = "none"
    <3>1. row[2] = "JobHandler.claim" => logJob' \in {"none", logJob}
      BY <2>1, Rows DEF Announce, JobAfter, JobNow
    <3> QED BY <2>2, <2>3, <3>1
  <2>4. CASE logJob # "none" /\ at \in OfTheJob
    <3>1. row[2] = "JobHandler.claim" => logJob' \in {"none", logJob}
      BY <2>1, Rows DEF Announce, JobAfter, JobNow
    <3>2. row[4] \notin OfTheJob => logJob' = "none" \/ (row[1] \in NothingRuns /\ row[4] = "failed")
      BY <2>1, <2>4, RowsOfTheLog DEF Announce, JobAfter
    <3> QED BY <2>1, <2>2, <2>4, <3>1, <3>2 DEF NoneAnswers
  <2>5. CASE at = "failed"
    BY <2>1, <2>5, RowsOfTheLog DEF Announce, JobAfter, JobNow
  <2> QED BY <2>3, <2>4, <2>5
<1>2. CASE Claim
  BY <1>2 DEF Claim, Announce, JobAfter, JobNow, OfTheJob
<1>3. CASE StartTasks \/ \E ending \in {"ran", "threw"} : TasksEnd(ending)
  <2>1. logJob' = logJob /\ job' = job
    BY <1>3, Unremembered DEF StartTasks, TasksEnd, Silent, LogMethods
  <2> QED BY <1>3, <2>1 DEF StartTasks, TasksEnd, OfTheJob
<1>4. ASSUME NEW m \in OpCalls, CallsDocker(m) \/ DockerAnswers(m) PROVE LogRemembers'
  <2>1. m \notin LogMethods
    BY DEF OpCalls, ContainerCalls, LoggedCalls, LogMethods
  <2>2. logJob' = logJob
    BY <1>4, <2>1, Unremembered DEF CallsDocker, DockerAnswers
  <2> QED BY <1>4, <2>2 DEF CallsDocker, DockerAnswers
<1>5. ASSUME NEW m \in Asides, NEW t \in AsideTypes, Aside(m, t) PROVE LogRemembers'
  BY <1>5, AsideFacts, Unremembered
<1>6. CASE Exit \/ ApiStops \/ StopCalled \/ StopAnswers
  <2>1. at' = at /\ job' = job /\ calls' = calls
    BY <1>6 DEF Exit, ApiStops, StopCalled, StopAnswers
  <2>2. logJob' \in {"none", logJob}
    BY <1>6 DEF Exit, ApiStops, StopCalled, StopAnswers, Announce, JobAfter, JobNow
  <2> QED BY <2>1, <2>2
<1>7. CASE StartsAgain
  BY <1>7 DEF StartsAgain, Silent, OfTheJob
<1>8. CASE UNCHANGED vars
  BY <1>8 DEF vars
<1> QED BY <1>1, <1>2, <1>3, <1>4, <1>5, <1>6, <1>7, <1>8 DEF Next

LEMMA RemembersNext == Remembers /\ [Next]_vars => Remembers'
BY TypedNext, NoneAnswersNext, StateNext, LogNext DEF Remembers

-----------------------------------------------------------------------------

\* An endpoint is answered ONLINE for the job whose operation announced it, in this very run, unless a
\* run threw and never came to finish().
THEOREM OnlineIsOursAlways == Spec => []OnlineIsOurs
<1>1. Init => Remembers
  BY RemembersInit
<1>2. Remembers => OnlineIsOurs
  BY MonitoringAssumption DEF Remembers, Typed, StateRemembers, ReadyRemembers, OnlineIsOurs
<1> QED BY <1>1, <1>2, RemembersNext, PTL DEF Spec

\* Whatever is announced goes to the job at work, or to nobody.
LEMMA SpeaksNext ==
    ASSUME Remembers, Next
    PROVE  /\ sent'.logs # "none" => sent'.logs = job' /\ (WithJob \/ quit = "stopping")
           /\ sent'.states # "none" => past.unfinished \/ (WithJob /\ sent'.states = job')
<1> USE DEF Remembers, StateRemembers, LogRemembers, WithJob
<1>1. ASSUME sent'.states \in {"none", shared.job}, job' = job
      PROVE  sent'.states # "none" => past.unfinished \/ (WithJob /\ sent'.states = job')
  BY <1>1 DEF BeforeFinish
<1>2. ASSUME sent'.logs \in {"none", logJob}, job' = job, at # "failed" \/ calls # {}
      PROVE  sent'.logs # "none" => sent'.logs = job' /\ WithJob
  BY <1>2
<1>3. CASE MainLine
  <2>1. PICK row \in Script :
          /\ at = row[1] /\ job' = job
          /\ IF row[2] = "-" THEN Silent ELSE Announce(row[2], row[3], job)
    BY <1>3 DEF MainLine
  <2>2. CASE row[2] = "-"
    BY <2>1, <2>2 DEF Silent
  <2>3. CASE row[2] = "JobHandler.claim"
    <3>1. WithJob /\ JobNow(row[2], row[3], job) = logJob
      BY <2>1, <2>3, Rows DEF OfTheJob, JobNow
    <3> QED BY <2>1, <2>3, <3>1, Sent
  <2>4. CASE row[2] \notin {"-", "JobHandler.claim"}
    <3>1. sent'.states \in {"none", shared.job} /\ sent'.logs \in {"none", JobNow(row[2], row[3], job)}
      BY <2>1, <2>4, Sent
    <3>2. JobNow(row[2], row[3], job) \in {"none", logJob}
      BY <2>4 DEF JobNow
    <3>3. at = "failed" => JobNow(row[2], row[3], job) = "none"
      BY <2>1, RowsOfTheLog DEF JobNow
    <3> QED BY <1>1, <2>1, <3>1, <3>2, <3>3
  <2> QED BY <2>2, <2>3, <2>4
<1>4. CASE Claim
  BY <1>4, Sent DEF Claim, JobNow
<1>5. CASE StartTasks \/ \E ending \in {"ran", "threw"} : TasksEnd(ending)
  <2>1. job' = job /\ at # "failed" /\ (Silent \/ Announce("TaskManager.start", "call", job))
    BY <1>5 DEF StartTasks, TasksEnd
  <2>2. sent'.states \in {"none", shared.job} /\ sent'.logs \in {"none", logJob}
    BY <2>1, Unremembered DEF Silent, StateMethods, LogMethods
  <2> QED BY <1>1, <1>2, <2>1, <2>2
<1>6. ASSUME NEW m \in OpCalls, CallsDocker(m) \/ DockerAnswers(m)
      PROVE  /\ sent'.logs # "none" => sent'.logs = job' /\ WithJob
             /\ sent'.states # "none" => past.unfinished \/ (WithJob /\ sent'.states = job')
  <2>1. m \notin StateMethods /\ m \notin LogMethods
    BY DEF OpCalls, ContainerCalls, LoggedCalls, StateMethods, LogMethods
  <2>2. job' = job /\ (at # "failed" \/ calls # {})
    BY <1>6 DEF CallsDocker, DockerAnswers
  <2>3. sent'.states \in {"none", shared.job} /\ sent'.logs \in {"none", logJob}
    BY <1>6, <2>1, Unremembered DEF CallsDocker, DockerAnswers
  <2> QED BY <1>1, <1>2, <2>2, <2>3
<1>7. ASSUME NEW m \in Asides, NEW t \in AsideTypes, Aside(m, t)
      PROVE  /\ sent'.logs # "none" => sent'.logs = job' /\ WithJob
             /\ sent'.states # "none" => past.unfinished \/ (WithJob /\ sent'.states = job')
  <2>1. Announce(m, t, job) /\ job' = job /\ (at # "failed" \/ calls # {})
    BY <1>7, AsideFacts
  <2>2. sent'.states \in {"none", shared.job}
    BY <1>7, <2>1, AsideFacts, Sent DEF StateMethods
  <2>3. sent'.logs \in {"none", logJob}
    BY <1>7, <2>1, AsideFacts, Unremembered
  <2> QED BY <1>1, <1>2, <2>1, <2>2, <2>3
<1>8. CASE Exit \/ ApiStops \/ StopCalled \/ StopAnswers
  <2>1. job' = job /\ sent'.states \in {"none", shared.job}
    BY <1>8, Sent DEF Exit, ApiStops, StopCalled, StopAnswers
  <2>2. sent'.logs = "none" \/ (sent'.logs = logJob /\ quit = "stopping")
    <3>1. CASE Exit
      BY <3>1, Sent DEF Exit, JobNow
    <3>2. CASE ApiStops \/ StopCalled
      <4>1. PICK m \in {"ApiHandler.stop", "BasicNode.stop"}, t \in {"call", "return", "error"} :
              Announce(m, t, job) /\ (m = "BasicNode.stop" => t = "call")
        BY <3>2 DEF ApiStops, StopCalled
      <4>2. EntriesOf(m, t) = NodeEntries(m, t)
        BY DEF EntriesOf, Tasks, Bars, DownloadBar, PullBar, LoggedCalls, Lone
      <4>3. NodeEntries(m, t) = <<>>
        BY <4>1 DEF NodeEntries
      <4> QED BY <4>1, <4>2, <4>3 DEF Announce, Streamed
    <3>3. CASE StopAnswers
      BY <3>3, Sent DEF StopAnswers, JobNow
    <3> QED BY <1>8, <3>1, <3>2, <3>3
  <2> QED BY <1>1, <2>1, <2>2
<1>9. CASE StartsAgain
  BY <1>9 DEF StartsAgain, Silent
<1> QED BY <1>3, <1>4, <1>5, <1>6, <1>7, <1>8, <1>9 DEF Next

\* States and log entries of a job go to the sockets of that job: what is said between two jobs, and the
\* late answers of a run that threw, go to nobody.
THEOREM SpeaksOfTheJobAlways == Spec => SpeaksOfTheJob
<1>1. Init => Remembers
  BY RemembersInit
<1>2. Remembers /\ [Next]_vars
        => [sent'.logs # "none" => sent'.logs = job' /\ (WithJob \/ quit = "stopping")]_vars
  BY SpeaksNext
<1>3. Remembers /\ [Next]_vars
        => [sent'.states # "none" => past.unfinished \/ (WithJob /\ sent'.states = job')]_vars
  BY SpeaksNext
<1> QED BY <1>1, <1>2, <1>3, RemembersNext, PTL DEF Spec, SpeaksOfTheJob, LogsOfTheJob, StatesOfTheJob

-----------------------------------------------------------------------------
(* The console.                                                                *)

Words == OpCalls \cup Asides \cup {row[2] : row \in Script}
            \cup {"JobHandler.claim", "TaskManager.start", "BasicNode.exit", "BasicNode.stop",
                  "ApiHandler.stop"}
Expected == Words \cup {"none"}
Windows  == Tasks \cup {"none"}
Consoles == [pending : BOOLEAN, expecting : Expected, spinner : BOOLEAN, kill : BOOLEAN, window : Windows]

Sane(c) == c \in Consoles /\ (c.spinner => c.pending)

Kills == {"kill-process", "kill-success", "kill-error"}

\* An entry keeps the window or closes it, unless it is the start of a task.
LEMMA EndedIsSane ==
    ASSUME NEW c \in Consoles
    PROVE  /\ Ended(c) \in Consoles /\ Ended(c).pending = FALSE /\ Ended(c).spinner = FALSE
           /\ Ended(c).kill = c.kill /\ Ended(c).window = c.window
BY DEF Ended, Consoles

LEMMA KilledIsSane ==
    ASSUME NEW c, Sane(c), NEW e
    PROVE  /\ Sane(Killed(c, e)) /\ Killed(c, e).window = c.window
           /\ Killed(c, e).kill <=> IF c.kill THEN e.type \notin {"kill-success", "kill-error"} ELSE TRUE
<1>1. c \in Consoles
  BY DEF Sane
<1>2. CASE c.kill
  <2> DEFINE d == [Ended(c) EXCEPT !.kill = FALSE]
  <2>1. Sane(d) /\ d.window = c.window /\ d.kill = FALSE
    BY <1>1, EndedIsSane DEF Sane, Consoles
  <2>2. Killed(c, e) = IF e.type \in {"kill-success", "kill-error"} THEN d ELSE c
    BY <1>2 DEF Killed
  <2> HIDE DEF d
  <2> QED BY <1>2, <2>1, <2>2
<1>3. CASE ~c.kill
  <2> DEFINE d == [c EXCEPT !.kill = TRUE, !.pending = TRUE, !.expecting = "none", !.spinner = TRUE]
  <2>1. Sane(d) /\ d.window = c.window /\ d.kill = TRUE
    BY <1>1 DEF Sane, Consoles, Expected
  <2>2. Killed(c, e) = d
    BY <1>3 DEF Killed
  <2> HIDE DEF d
  <2> QED BY <1>3, <2>1, <2>2
<1> QED BY <1>2, <1>3

LEMMA WindowedIsSane ==
    ASSUME NEW c, Sane(c), NEW e
    PROVE  /\ Sane(Windowed(c, e)) /\ Windowed(c, e).kill = c.kill
           /\ e.m \in Tasks /\ e.type = "process" => Windowed(c, e).window = e.m
           /\ ~(e.m \in Tasks /\ e.type = "process") =>
                 Windowed(c, e).window = IF e.m = c.window THEN "none" ELSE c.window
<1>1. c \in Consoles
  BY DEF Sane
<1>2. CASE e.m \in Tasks /\ e.type = "process"
  <2> DEFINE d == [c EXCEPT !.window = e.m, !.pending = TRUE, !.spinner = TRUE]
  <2>1. Sane(d) /\ d.window = e.m /\ d.kill = c.kill
    BY <1>1, <1>2 DEF Sane, Consoles, Windows
  <2>2. Windowed(c, e) = d
    BY <1>2 DEF Windowed
  <2> HIDE DEF d
  <2> QED BY <1>2, <2>1, <2>2
<1>3. CASE ~(e.m \in Tasks /\ e.type = "process")
  <2> DEFINE d == [Ended(c) EXCEPT !.window = "none"]
  <2>1. Sane(d) /\ d.window = "none" /\ d.kill = c.kill
    BY <1>1, EndedIsSane DEF Sane, Consoles, Windows
  <2>2. Windowed(c, e) = IF e.m = c.window THEN d ELSE c
    BY <1>3 DEF Windowed
  <2> HIDE DEF d
  <2> QED BY <1>3, <2>1, <2>2
<1> QED BY <1>2, <1>3

LEMMA SpunIsSane ==
    ASSUME NEW c, Sane(c), NEW e, e.expecting \in Expected
    PROVE  Sane(Spun(c, e)) /\ Spun(c, e).kill = c.kill /\ Spun(c, e).window = c.window
<1> DEFINE d == [c EXCEPT !.pending = TRUE, !.expecting = e.expecting, !.spinner = TRUE]
<1>1. c \in Consoles
  BY DEF Sane
<1>2. Sane(d) /\ d.window = c.window /\ d.kill = c.kill
  BY <1>1 DEF Sane, Consoles
<1>3. Sane(Ended(c)) /\ Ended(c).window = c.window /\ Ended(c).kill = c.kill
  BY <1>1, EndedIsSane DEF Sane
<1>4. Spun(c, e) \in {c, d, Ended(c)}
  BY DEF Spun
<1> HIDE DEF d
<1> QED BY <1>2, <1>3, <1>4

LEMMA RestartedIsSane ==
    ASSUME NEW c, Sane(c), NEW e
    PROVE  /\ Sane(Restarted(c, e))
           /\ Restarted(c, e).window \in {c.window, "none"}
           /\ ~c.kill => ~Restarted(c, e).kill
<1> DEFINE d == [c EXCEPT !.expecting = "none", !.kill = FALSE, !.window = "none", !.spinner = FALSE]
<1>1. Sane(d) /\ d.window = "none" /\ d.kill = FALSE
  BY DEF Sane, Consoles, Expected, Windows
<1>2. Restarted(c, e) \in {c, d}
  BY DEF Restarted
<1> HIDE DEF d
<1> QED BY <1>1, <1>2

\* What an entry does to the console: it opens no window but as the start of a task, and it begins and ends
\* the shutdown as its type says.
EntryShown(c, e, d) ==
    /\ Sane(d)
    /\ d.kill <=> IF c.kill THEN e.type \notin {"kill-success", "kill-error"} ELSE e.type = "kill-process"
    /\ ~(e.m \in Tasks /\ e.type = "process") => d.window \in {c.window, "none"}
    /\ ~c.kill /\ e.m \in Tasks /\ e.type = "process" => d.window = e.m
    /\ ~c.kill /\ e.m \in Tasks /\ e.type = "success" /\ c.window \in {e.m, "none"} => d.window = "none"

LEMMA ShownIs ==
    ASSUME NEW c, Sane(c), NEW e, e.expecting \in Expected
    PROVE  EntryShown(c, e, Shown(c, e))
<1>1. c \in Consoles /\ c.kill \in BOOLEAN
  BY DEF Sane, Consoles
<1>2. CASE c.kill \/ e.type = "kill-process"
  <2>1. Shown(c, e) = Killed(c, e)
    BY <1>2 DEF Shown
  <2>2. e.type = "kill-process" => e.type \notin {"process", "success", "kill-success", "kill-error"}
    OBVIOUS
  <2> DEFINE d == Killed(c, e)
  <2>3. /\ Sane(d) /\ d.window = c.window
        /\ d.kill <=> IF c.kill THEN e.type \notin {"kill-success", "kill-error"} ELSE TRUE
    BY KilledIsSane
  <2> HIDE DEF d
  <2>4. EntryShown(c, e, d)
    BY <1>2, <2>2, <2>3 DEF EntryShown
  <2> QED BY <2>1, <2>4 DEF d
<1>3. CASE ~c.kill /\ e.type # "kill-process" /\ (c.window # "none" \/ (e.m \in Tasks /\ e.type = "process"))
  <2>1. Shown(c, e) = Windowed(c, e)
    BY <1>3 DEF Shown
  <2>2. "none" \notin Tasks
    BY DEF Tasks
  <2> DEFINE d == Windowed(c, e)
  <2>3. /\ Sane(d) /\ d.kill = c.kill
        /\ e.m \in Tasks /\ e.type = "process" => d.window = e.m
        /\ ~(e.m \in Tasks /\ e.type = "process") => d.window = IF e.m = c.window THEN "none" ELSE c.window
    BY WindowedIsSane
  <2> HIDE DEF d
  <2>4. EntryShown(c, e, d)
    BY <1>3, <2>2, <2>3 DEF EntryShown
  <2> QED BY <2>1, <2>4 DEF d
<1>4. CASE ~c.kill /\ e.type # "kill-process" /\ c.window = "none" /\ ~(e.m \in Tasks /\ e.type = "process")
  <2>1. Shown(c, e) \in {BarShown(c), c, Restarted(Spun(c, e), e)}
    BY <1>4 DEF Shown
  <2>2. Sane(BarShown(c)) /\ ~BarShown(c).kill /\ BarShown(c).window = "none"
    <3> DEFINE d == [c EXCEPT !.spinner = FALSE]
    <3>1. Sane(d) /\ d.kill = c.kill /\ d.window = c.window
      BY <1>1 DEF Sane, Consoles
    <3>2. BarShown(c) \in {c, d}
      BY DEF BarShown
    <3> HIDE DEF d
    <3> QED BY <1>4, <3>1, <3>2
  <2>3. Sane(Spun(c, e)) /\ ~Spun(c, e).kill /\ Spun(c, e).window = "none"
    BY <1>4, SpunIsSane
  <2> DEFINE f == Spun(c, e)
  <2>4. Sane(Restarted(f, e)) /\ ~Restarted(f, e).kill /\ Restarted(f, e).window = "none"
    <3>1. Sane(f) /\ ~f.kill /\ f.window = "none"
      BY <2>3
    <3> HIDE DEF f
    <3> QED BY <3>1, RestartedIsSane
  <2>5. Sane(Shown(c, e)) /\ ~Shown(c, e).kill /\ Shown(c, e).window = "none"
    BY <1>4, <2>1, <2>2, <2>4
  <2> QED BY <1>4, <2>5 DEF EntryShown
<1> QED BY <1>1, <1>2, <1>3, <1>4

\* An entry that is neither of the shutdown nor of a task.
Plain(e) == e.expecting \in Expected /\ e.type \notin Kills /\ e.m \notin Tasks
PlainEntries(s) ==
    \/ s = <<>>
    \/ \E e : Plain(e) /\ s = <<e>>
    \/ \E e, f : Plain(e) /\ Plain(f) /\ s = <<e, f>>

LEMMA PlainIs ==
    ASSUME NEW m \in Words, m \notin Tasks
    PROVE  /\ \A type : type \notin Kills => Plain(Entry(m, type))
           /\ \A answer \in Expected : Plain(Pending(m, answer))
           /\ m \in Expected /\ "JobHandler.claim" \in Expected
           /\ Plain(Entry("Job:ExpiryUpdated", "update"))
<1>1. /\ m \in Expected /\ "JobHandler.claim" \in Expected /\ "none" \in Expected
      /\ "Job:ExpiryUpdated" \notin Tasks /\ "process" \notin Kills /\ "update" \notin Kills
  BY DEF Expected, Words, Tasks, Kills
<1>2. ASSUME NEW type, type \notin Kills
      PROVE  Plain(Entry(m, type))
  BY <1>1, <1>2 DEF Plain, Entry
<1>3. ASSUME NEW answer \in Expected
      PROVE  Plain(Pending(m, answer))
  BY <1>1, <1>3 DEF Plain, Pending
<1>4. Plain(Entry("Job:ExpiryUpdated", "update"))
  BY <1>1 DEF Plain, Entry
<1> QED BY <1>1, <1>2, <1>3, <1>4

\* Everything but the shutdown and the tasks makes plain entries, two at most.
LEMMA EntriesArePlain ==
    ASSUME NEW m \in Words, NEW t, m \notin Tasks, m \notin {"BasicNode.exit", "BasicNode.stop"}
    PROVE  PlainEntries(EntriesOf(m, t))
<1>1. PlainEntries(<<>>)
  BY DEF PlainEntries
<1>2. ASSUME NEW type \in {"info", "success", "error", "update", "log", "bar", "bar-start", "stop"}
      PROVE  Plain(Entry(m, type)) /\ PlainEntries(<<Entry(m, type)>>)
  <2>1. Plain(Entry(m, type))
    BY PlainIs DEF Kills
  <2> QED BY <2>1 DEF PlainEntries
<1>3. ASSUME NEW answer \in {m, "JobHandler.claim"}
      PROVE  Plain(Pending(m, answer)) /\ PlainEntries(<<Pending(m, answer)>>)
  <2>1. Plain(Pending(m, answer))
    BY PlainIs
  <2> QED BY <2>1 DEF PlainEntries
<1>4. PlainEntries(Answered(m, t))
  BY <1>1, <1>2, <1>3 DEF Answered
<1>5. PlainEntries(Noted(m, t)) /\ \A unhandled : PlainEntries(Unhandled(m, t, unhandled))
  BY <1>1, <1>2, <1>4 DEF Noted, Unhandled
<1>6. PlainEntries(BarEntries(m))
  <2>1. ASSUME NEW e, NEW f, Plain(e), Plain(f)
        PROVE  PlainEntries(<<e, f>>)
    BY <2>1 DEF PlainEntries
  <2>2. /\ PlainEntries(<<Entry(m, "stop"), Entry(m, "bar-start")>>)
        /\ PlainEntries(<<Entry(m, "info"), Entry(m, "bar-start")>>)
        /\ PlainEntries(<<Entry(m, "bar"), Entry(m, "info")>>)
    BY <1>2, <2>1
  <2> QED BY <1>2, <2>2 DEF BarEntries
<1>7. PlainEntries(LoneEntries(m)) /\ PlainEntries(FlowEntries(m)) /\ PlainEntries(ContainerEntries(m, t))
  BY <1>2, <1>5 DEF LoneEntries, FlowEntries, ContainerEntries
<1>8. PlainEntries(MarketEntries(m, t))
  BY <1>2, <1>3 DEF MarketEntries
<1>9. PlainEntries(NodeEntries(m, t))
  BY <1>1, <1>2, <1>4, <1>5 DEF NodeEntries
<1>10. PlainEntries(JobEntries(m, t))
  <2>1. PlainEntries(<<Entry(m, "stop"), Pending(m, m)>>)
    BY <1>2, <1>3 DEF PlainEntries
  <2> QED BY <1>1, <1>4, <1>5, <2>1 DEF JobEntries
<1>11. PlainEntries(ExpiryEntries(m, t))
  BY <1>1, PlainIs DEF ExpiryEntries, PlainEntries
<1> QED BY <1>1, <1>4, <1>5, <1>6, <1>7, <1>8, <1>9, <1>10, <1>11 DEF EntriesOf

\* Plain entries leave the shutdown as it is and open no window.
LEMMA PlainShown ==
    ASSUME NEW c, Sane(c), NEW s, PlainEntries(s)
    PROVE  /\ Sane(AllShown(c, s))
           /\ AllShown(c, s).kill <=> c.kill
           /\ AllShown(c, s).window \in {c.window, "none"}
<1>1. ASSUME NEW k, Sane(k), NEW e, Plain(e)
      PROVE  Sane(Shown(k, e)) /\ (Shown(k, e).kill <=> k.kill) /\ Shown(k, e).window \in {k.window, "none"}
  BY <1>1, ShownIs DEF Plain, Kills, EntryShown
<1>2. CASE s = <<>>
  BY <1>2 DEF AllShown
<1>3. CASE \E e : Plain(e) /\ s = <<e>>
  <2>1. PICK e : Plain(e) /\ s = <<e>>
    BY <1>3
  <2>2. AllShown(c, s) = Shown(c, e)
    BY <2>1 DEF AllShown
  <2> QED BY <1>1, <2>1, <2>2
<1>4. CASE \E e, f : Plain(e) /\ Plain(f) /\ s = <<e, f>>
  <2>1. PICK e, f : Plain(e) /\ Plain(f) /\ s = <<e, f>>
    BY <1>4
  <2> DEFINE d == Shown(c, e)
  <2>2. AllShown(c, s) = Shown(d, f)
    BY <2>1 DEF AllShown
  <2>3. Sane(d) /\ (d.kill <=> c.kill) /\ d.window \in {c.window, "none"}
    BY <1>1, <2>1
  <2> HIDE DEF d
  <2>4. Sane(Shown(d, f)) /\ (Shown(d, f).kill <=> d.kill) /\ Shown(d, f).window \in {d.window, "none"}
    BY <1>1, <2>1, <2>3
  <2> QED BY <2>2, <2>3, <2>4
<1> QED BY <1>2, <1>3, <1>4 DEF PlainEntries

LEMMA PlainAnnounced ==
    ASSUME Sane(console), NEW m \in Words, NEW t, NEW j, Announce(m, t, j),
           m \notin Tasks, m \notin {"BasicNode.exit", "BasicNode.stop"}
    PROVE  /\ Sane(console')
           /\ console'.kill <=> console.kill
           /\ console'.window \in {console.window, "none"}
<1>1. PlainEntries(EntriesOf(m, t))
  BY EntriesArePlain
<1>2. console' = AllShown(console, EntriesOf(m, t))
  BY DEF Announce
<1> QED BY <1>1, <1>2, PlainShown

\* The announcements of the tasks, and of the shutdown, make one entry or none.
LEMMA OneShown ==
    ASSUME NEW c, Sane(c), NEW e, e.expecting \in Expected
    PROVE  EntryShown(c, e, AllShown(c, <<e>>)) /\ AllShown(c, <<>>) = c
<1>1. AllShown(c, <<e>>) = Shown(c, e) /\ AllShown(c, <<>>) = c
  BY DEF AllShown
<1> QED BY <1>1, ShownIs

LEMMA TaskAnnounced ==
    ASSUME Sane(console), NEW m \in Tasks, NEW t \in {"call", "return", "error"}, NEW j, Announce(m, t, j)
    PROVE  /\ Sane(console')
           /\ console'.kill <=> console.kill
           /\ t = "error" => console'.window = console.window
           /\ ~console.kill /\ t = "call" => console'.window = m
           /\ ~console.kill /\ t = "return" /\ console.window \in {m, "none"} => console'.window = "none"
<1> DEFINE e == Entry(m, IF t = "call" THEN "process" ELSE "success")
<1>1. EntriesOf(m, t) = IF t = "error" THEN <<>> ELSE <<e>>
  <2>1. EntriesOf(m, t) = TaskEntries(m, t)
    BY DEF EntriesOf, Tasks, Bars, DownloadBar, PullBar, LoggedCalls, Lone
  <2> QED BY <2>1 DEF TaskEntries
<1>2. e.m = m /\ e.type = (IF t = "call" THEN "process" ELSE "success") /\ e.expecting \in Expected
  BY DEF Entry, Expected
<1>3. console' = AllShown(console, EntriesOf(m, t))
  BY DEF Announce
<1> HIDE DEF e
<1>4. EntryShown(console, e, AllShown(console, <<e>>)) /\ AllShown(console, <<>>) = console
  BY <1>2, OneShown
<1>5. CASE t = "error"
  BY <1>1, <1>3, <1>4, <1>5
<1>6. CASE t # "error"
  <2>1. EntryShown(console, e, console')
    BY <1>1, <1>3, <1>4, <1>6
  <2> QED BY <1>2, <1>6, <2>1 DEF EntryShown
<1> QED BY <1>5, <1>6

LEMMA ShutdownAnnounced ==
    ASSUME Sane(console), NEW m \in {"BasicNode.exit", "BasicNode.stop"}, NEW t \in {"call", "return", "error"},
           NEW j, Announce(m, t, j), m = "BasicNode.exit" => t = "call"
    PROVE  /\ Sane(console')
           /\ m = "BasicNode.exit" => console'.kill
           /\ m = "BasicNode.stop" => (console'.kill <=> console.kill /\ t = "call")
<1> DEFINE e == Entry(m, IF m = "BasicNode.exit" THEN "kill-process"
                         ELSE IF t = "return" THEN "kill-success" ELSE "kill-error")
<1>1. EntriesOf(m, t) = IF m = "BasicNode.stop" /\ t = "call" THEN <<>> ELSE <<e>>
  <2>1. EntriesOf(m, t) = NodeEntries(m, t)
    BY DEF EntriesOf, Tasks, Bars, DownloadBar, PullBar, LoggedCalls, Lone
  <2> QED BY <2>1 DEF NodeEntries
<1>2. /\ e.type = IF m = "BasicNode.exit" THEN "kill-process"
                  ELSE IF t = "return" THEN "kill-success" ELSE "kill-error"
      /\ e.expecting \in Expected
  BY DEF Entry, Expected
<1>3. console' = AllShown(console, EntriesOf(m, t))
  BY DEF Announce
<1> HIDE DEF e
<1>4. EntryShown(console, e, AllShown(console, <<e>>)) /\ AllShown(console, <<>>) = console
  BY <1>2, OneShown
<1>5. CASE m = "BasicNode.stop" /\ t = "call"
  BY <1>1, <1>3, <1>4, <1>5
<1>6. CASE ~(m = "BasicNode.stop" /\ t = "call")
  <2>1. EntryShown(console, e, console')
    BY <1>1, <1>3, <1>4, <1>6
  <2> QED BY <1>2, <1>6, <2>1 DEF EntryShown
<1> QED BY <1>5, <1>6

-----------------------------------------------------------------------------
(* The shutdown, the spinner and the quiet window.                             *)

Dying == {"exiting", "closing", "closed", "stopping"}
Quits == Dying \cup {"none", "stopped", "broken"}

\* An open window is the one of the task that runs, if it is announced at all.
WindowIsOurs ==
    console.window # "none" =>
        \/ past.threw
        \/ quit # "none"
        \/ console.window = "TaskManager.start" /\ at = "running" /\ proxied
        \/ console.window = "BenchmarkTaskManager.start" /\ at = "bench"

Placed == at \in Places /\ calls \subseteq OpCalls /\ quit \in Quits
SentTyped == sent.states \in Jobs \cup {"none"} /\ sent.logs \in Jobs \cup {"none"}
ConsoleInv == Placed /\ SentTyped /\ Sane(console) /\ (console.kill <=> quit \in Dying) /\ WindowIsOurs

LEMMA ConsoleInvInit == Init => ConsoleInv
BY DEF Init, QuietConsole, ConsoleInv, Placed, SentTyped, Sane, Consoles, Expected, Windows, Dying, Quits,
       WindowIsOurs, Script, Places

\* What is streamed goes to a job or to none.
LEMMA SentTypedNext == Remembers /\ SentTyped /\ [Next]_vars => SentTyped'
<1> SUFFICES ASSUME Remembers, SentTyped, [Next]_vars PROVE SentTyped'
  OBVIOUS
<1> USE DEF Remembers, Typed, SentTyped
<1>1. ASSUME NEW m, NEW t, NEW j \in Jobs \cup {"none"}, Announce(m, t, j) PROVE SentTyped'
  <2>1. shared.job \in Jobs \cup {"none"} /\ JobNow(m, t, j) \in Jobs \cup {"none"}
    BY DEF JobNow
  <2> QED BY <1>1, <2>1, Sent
<1>2. Silent => SentTyped'
  BY DEF Silent
<1>3. CASE UNCHANGED vars
  BY <1>3 DEF vars
<1>4. CASE MainLine
  BY <1>1, <1>2, <1>4 DEF MainLine
<1>5. CASE Claim
  BY <1>1, <1>5 DEF Claim
<1>6. CASE StartTasks \/ \E ending \in {"ran", "threw"} : TasksEnd(ending)
  BY <1>1, <1>2, <1>6 DEF StartTasks, TasksEnd
<1>7. CASE \E m \in OpCalls : CallsDocker(m) \/ DockerAnswers(m)
  BY <1>1, <1>7 DEF CallsDocker, DockerAnswers
<1>8. CASE \E m \in Asides, t \in AsideTypes : Aside(m, t)
  BY <1>1, <1>8 DEF Aside
<1>9. CASE Exit \/ ApiStops \/ StopCalled \/ StopAnswers \/ StartsAgain
  BY <1>1, <1>2, <1>9 DEF Exit, ApiStops, StopCalled, StopAnswers, StartsAgain
<1> QED BY <1>3, <1>4, <1>5, <1>6, <1>7, <1>8, <1>9 DEF Next

\* The rows of the tasks.
LEMMA TaskRows ==
    ASSUME NEW row \in Script
    PROVE  /\ row[2] = "-" \/ row[2] \in Words
           /\ row[2] \notin {"BasicNode.exit", "BasicNode.stop"}
           /\ row[2] \in Tasks => row[3] \in {"call", "return", "error"}
           /\ row[2] = "BenchmarkTaskManager.start" /\ row[3] = "call" => row[4] = "bench"
           /\ row[2] = "BenchmarkTaskManager.start" /\ row[3] # "call" => row[1] = "bench"
           /\ row[2] = "TaskManager.start" => row[3] # "call" /\ row[1] = "running"
           /\ row[1] = "running" => row[2] = "TaskManager.start"
           /\ row[1] = "bench" => row[2] = "BenchmarkTaskManager.start" /\ row[3] # "call"
           /\ row[4] \in Places
<1>1. row[2] \in {x[2] : x \in Script} /\ row[4] \in Places
  BY DEF Places
<1>2. row[2] \in Words
  BY <1>1 DEF Words
<1>3. /\ row[2] \notin {"BasicNode.exit", "BasicNode.stop"}
      /\ row[2] \in Tasks => row[3] \in {"call", "return", "error"}
      /\ row[2] = "BenchmarkTaskManager.start" /\ row[3] = "call" => row[4] = "bench"
      /\ row[2] = "BenchmarkTaskManager.start" /\ row[3] # "call" => row[1] = "bench"
      /\ row[2] = "TaskManager.start" => row[3] # "call" /\ row[1] = "running"
      /\ row[1] = "running" => row[2] = "TaskManager.start"
      /\ row[1] = "bench" => row[2] = "BenchmarkTaskManager.start" /\ row[3] # "call"
  BY DEF Script, Tasks
<1> QED BY <1>1, <1>2, <1>3

LEMMA PlacedNext == Placed /\ [Next]_vars => Placed'
<1> SUFFICES ASSUME Placed, [Next]_vars PROVE Placed'
  OBVIOUS
<1> USE DEF Placed, Quits, Dying
<1>1. \A row \in Script : row[4] \in Places
  BY TaskRows
<1>2. {"claiming", "running", "ran", "threw", "off"} \subseteq Places
  BY DEF Places, Script
<1>3. CASE UNCHANGED vars
  BY <1>3 DEF vars
<1>4. CASE MainLine
  BY <1>1, <1>4 DEF MainLine
<1>5. CASE Claim \/ StartTasks \/ StartsAgain
  BY <1>2, <1>5 DEF Claim, StartTasks, StartsAgain
<1>6. CASE \E ending \in {"ran", "threw"} : TasksEnd(ending)
  BY <1>2, <1>6 DEF TasksEnd
<1>7. CASE \E m \in OpCalls : CallsDocker(m) \/ DockerAnswers(m)
  BY <1>7 DEF CallsDocker, DockerAnswers
<1>8. CASE \E m \in Asides, t \in AsideTypes : Aside(m, t)
  BY <1>8 DEF Aside
<1>9. CASE Exit \/ ApiStops \/ StopCalled \/ StopAnswers
  BY <1>9 DEF Exit, ApiStops, StopCalled, StopAnswers
<1> QED BY <1>3, <1>4, <1>5, <1>6, <1>7, <1>8, <1>9 DEF Next

\* What a step other than the shutdown's may do to the console.
Shows ==
    /\ Sane(console')
    /\ console'.kill <=> console.kill
    /\ quit' = quit

\* Outside the shutdown the window is the one of the task that runs, or was left by one that threw.
LEMMA MainLineShows ==
    ASSUME Remembers, ConsoleInv, MainLine
    PROVE  Shows /\ WindowIsOurs'
<1>1. PICK row \in Script :
        /\ at = row[1] /\ MayTake(row) /\ at' = row[4]
        /\ IF row[2] = "-" THEN Silent ELSE Announce(row[2], row[3], job)
        /\ past'.threw = ((past.threw \/ (row[2] \in Tasks /\ row[3] = "error"))
                             /\ ~(row[2] \in Tasks /\ row[3] = "call"))
        /\ proxied' = proxied /\ quit' = quit
  BY DEF MainLine, Remembers, Typed
<1>2. Sane(console) /\ (console.kill <=> quit \in Dying) /\ WindowIsOurs
  BY DEF ConsoleInv
<1>3. CASE row[2] = "-"
  <2>1. console' = console /\ row[1] \notin {"running", "bench"} /\ row[2] \notin Tasks
    BY <1>1, <1>3, TaskRows DEF Silent, Tasks
  <2> QED BY <1>1, <1>2, <2>1 DEF Shows, WindowIsOurs
<1>4. CASE row[2] # "-" /\ row[2] \notin Tasks
  <2>1. row[1] \notin {"running", "bench"} /\ row[2] \in Words /\ row[2] \notin {"BasicNode.exit", "BasicNode.stop"}
    BY <1>4, TaskRows DEF Tasks
  <2>2. /\ Sane(console') /\ (console'.kill <=> console.kill)
        /\ console'.window \in {console.window, "none"}
    BY <1>1, <1>2, <1>4, <2>1, PlainAnnounced
  <2> QED BY <1>1, <1>2, <1>4, <2>1, <2>2 DEF Shows, WindowIsOurs
<1>5. CASE row[2] \in Tasks
  <2>1. row[3] \in {"call", "return", "error"} /\ Announce(row[2], row[3], job)
    BY <1>1, <1>5, TaskRows DEF Tasks
  <2>2. /\ Sane(console') /\ (console'.kill <=> console.kill)
        /\ row[3] = "error" => console'.window = console.window
        /\ ~console.kill /\ row[3] = "call" => console'.window = row[2]
        /\ ~console.kill /\ row[3] = "return" /\ console.window \in {row[2], "none"} => console'.window = "none"
    BY <1>2, <1>5, <2>1, TaskAnnounced
  <2>3. WindowIsOurs'
    <3>1. quit = "none" => ~console.kill
      BY <1>2 DEF Dying
    <3>2. CASE row[3] = "call"
      BY <1>1, <1>5, <2>2, <3>1, <3>2, TaskRows DEF WindowIsOurs, Tasks
    <3>3. CASE row[3] = "error"
      BY <1>1, <1>5, <3>3 DEF WindowIsOurs
    <3>4. CASE row[3] = "return"
      <4>1. row[1] = (IF row[2] = "TaskManager.start" THEN "running" ELSE "bench")
        BY <1>5, <3>4, TaskRows DEF Tasks
      <4>2. past'.threw = past.threw
        BY <1>1, <3>4, <1>2 DEF Remembers, Typed
      <4>3. CASE past.threw \/ quit # "none"
        BY <1>1, <4>2, <4>3 DEF WindowIsOurs
      <4>4. CASE ~past.threw /\ quit = "none"
        <5>1. console.window \in {row[2], "none"}
          BY <1>1, <1>2, <1>5, <4>1, <4>4 DEF WindowIsOurs, Tasks
        <5> QED BY <2>2, <3>1, <3>4, <4>4, <5>1 DEF WindowIsOurs
      <4> QED BY <4>3, <4>4
    <3> QED BY <2>1, <3>2, <3>3, <3>4
  <2> QED BY <1>1, <2>2, <2>3 DEF Shows
<1> QED BY <1>3, <1>4, <1>5

\* Whatever else is announced while the main line stays where it is, or elsewhere than in a task.
LEMMA AsideShows ==
    ASSUME ConsoleInv, NEW m \in Words, NEW t, NEW j, Announce(m, t, j),
           m \notin Tasks, m \notin {"BasicNode.exit", "BasicNode.stop"},
           quit' = quit, past'.threw = past.threw, proxied' = proxied,
           at' = at \/ at \notin {"running", "bench"}
    PROVE  Shows /\ WindowIsOurs'
<1>1. Sane(console) /\ WindowIsOurs
  BY DEF ConsoleInv
<1>2. Sane(console') /\ (console'.kill <=> console.kill) /\ console'.window \in {console.window, "none"}
  BY <1>1, PlainAnnounced
<1> QED BY <1>1, <1>2 DEF Shows, WindowIsOurs

LEMMA ConsoleInvNext == Remembers /\ ConsoleInv /\ [Next]_vars => ConsoleInv'
<1> SUFFICES ASSUME Remembers, ConsoleInv, [Next]_vars PROVE ConsoleInv'
  OBVIOUS
<1>1. Placed' /\ SentTyped'
  BY PlacedNext, SentTypedNext DEF ConsoleInv
<1>2. Sane(console) /\ (console.kill <=> quit \in Dying) /\ WindowIsOurs /\ Placed
  BY DEF ConsoleInv
<1>3. Shows /\ WindowIsOurs' => ConsoleInv'
  BY <1>1, <1>2 DEF Shows, ConsoleInv
<1>4. quit = "none" => ~console.kill
  BY <1>2 DEF Dying
<1>5. CASE UNCHANGED vars
  BY <1>1, <1>2, <1>5 DEF ConsoleInv, vars, WindowIsOurs
<1>6. CASE MainLine
  BY <1>3, <1>6, MainLineShows
<1>7. CASE Claim
  <2>1. PICK j \in Jobs : Announce("JobHandler.claim", "call", j)
    BY <1>7 DEF Claim
  <2>2. "JobHandler.claim" \in Words /\ "JobHandler.claim" \notin Tasks /\ "waiting" \notin {"running", "bench"}
    BY DEF Words, Tasks
  <2>3. at = "waiting" /\ quit' = quit /\ past'.threw = past.threw /\ proxied' = proxied
    BY <1>7 DEF Claim, Remembers, Typed
  <2> QED BY <1>3, <2>1, <2>2, <2>3, AsideShows
<1>8. CASE StartTasks
  <2>1. at = "started" /\ at' = "running" /\ quit' = quit
    BY <1>8 DEF StartTasks
  <2>2. CASE proxied'
    <3>1. Announce("TaskManager.start", "call", job) /\ "TaskManager.start" \in Tasks
      BY <1>8, <2>2 DEF StartTasks, Tasks
    <3>2. /\ Sane(console') /\ (console'.kill <=> console.kill)
          /\ ~console.kill => console'.window = "TaskManager.start"
      BY <1>2, <3>1, TaskAnnounced
    <3> QED BY <1>3, <1>4, <2>1, <2>2, <3>2 DEF Shows, WindowIsOurs
  <2>3. CASE ~proxied'
    <3>1. console' = console /\ past' = past
      BY <1>8, <2>3 DEF StartTasks, Silent
    <3> QED BY <1>2, <1>3, <2>1, <3>1 DEF Shows, WindowIsOurs
  <2> QED BY <2>2, <2>3
<1>9. CASE \E ending \in {"ran", "threw"} : TasksEnd(ending)
  <2>1. console' = console /\ past' = past /\ quit' = quit /\ at = "running" /\ ~proxied
    BY <1>9 DEF TasksEnd, Silent
  <2> QED BY <1>2, <1>3, <2>1 DEF Shows, WindowIsOurs
<1>10. ASSUME NEW m \in OpCalls, CallsDocker(m) \/ DockerAnswers(m) PROVE ConsoleInv'
  <2>1. PICK t : Announce(m, t, job)
    BY <1>10 DEF CallsDocker, DockerAnswers
  <2>2. m \in Words /\ m \notin Tasks /\ m \notin {"BasicNode.exit", "BasicNode.stop"}
    BY DEF Words, Tasks, OpCalls, ContainerCalls, LoggedCalls
  <2>3. quit' = quit /\ past' = past /\ proxied' = proxied /\ at' = at
    BY <1>10 DEF CallsDocker, DockerAnswers
  <2> QED BY <1>3, <2>1, <2>2, <2>3, AsideShows
<1>11. ASSUME NEW m \in Asides, NEW t \in AsideTypes, Aside(m, t) PROVE ConsoleInv'
  <2>1. m \in Words
    BY DEF Words
  <2>2. m \notin Tasks /\ m \notin {"BasicNode.exit", "BasicNode.stop"}
    BY DEF Asides, Tasks, Bars, DownloadBar, PullBar, Lone
  <2>3. Announce(m, t, job) /\ quit' = quit /\ proxied' = proxied /\ at' = at
    BY <1>11 DEF Aside
  <2>4. past'.threw = past.threw
    BY <1>11 DEF Aside, Remembers, Typed
  <2> QED BY <1>3, <2>1, <2>2, <2>3, <2>4, AsideShows
<1>12. CASE Exit
  <2>1. quit' = "exiting" /\ Announce("BasicNode.exit", "call", job)
    BY <1>12 DEF Exit
  <2>2. Sane(console') /\ console'.kill
    BY <1>2, <2>1, ShutdownAnnounced
  <2> QED BY <1>1, <2>1, <2>2 DEF ConsoleInv, Dying, WindowIsOurs
<1>13. CASE ApiStops
  <2>1. PICK t : Announce("ApiHandler.stop", t, job)
    BY <1>13 DEF ApiStops
  <2>2. "ApiHandler.stop" \in Words /\ "ApiHandler.stop" \notin Tasks
    BY DEF Words, Tasks
  <2>3. Sane(console') /\ (console'.kill <=> console.kill)
    BY <1>2, <2>1, <2>2, PlainAnnounced
  <2>4. quit \in Dying /\ quit' \in Dying /\ quit' # "none"
    BY <1>13 DEF ApiStops, Dying
  <2> QED BY <1>1, <1>2, <2>3, <2>4 DEF ConsoleInv, WindowIsOurs
<1>14. CASE StopCalled
  <2>1. quit \in Dying /\ quit' = "stopping" /\ Announce("BasicNode.stop", "call", job)
    BY <1>14 DEF StopCalled, Dying
  <2>2. Sane(console') /\ (console'.kill <=> console.kill)
    BY <1>2, <2>1, ShutdownAnnounced
  <2> QED BY <1>1, <1>2, <2>1, <2>2 DEF ConsoleInv, WindowIsOurs, Dying
<1>15. CASE StopAnswers
  <2>1. PICK t \in {"return", "error"} : Announce("BasicNode.stop", t, job)
    BY <1>15 DEF StopAnswers
  <2>2. Sane(console') /\ ~console'.kill
    BY <1>2, <2>1, ShutdownAnnounced
  <2>3. quit' \in {"stopped", "broken"}
    BY <1>15 DEF StopAnswers
  <2> QED BY <1>1, <2>2, <2>3 DEF ConsoleInv, WindowIsOurs, Dying
<1>16. CASE StartsAgain
  <2>1. console' = console /\ quit' = quit /\ quit # "none"
    BY <1>16 DEF StartsAgain, Silent
  <2> QED BY <1>2, <1>3, <2>1 DEF Shows, WindowIsOurs
<1> QED BY <1>5, <1>6, <1>7, <1>8, <1>9, <1>10, <1>11, <1>12, <1>13, <1>14, <1>15, <1>16 DEF Next

\* The monitors name a job of the node or none; the console spins only while something is pending, and is
\* taken by the shutdown from its first announcement to its last, and by nothing else.
THEOREM MonitoringTypeCorrect == Spec => []TypeOK
<1>1. Init => Remembers /\ ConsoleInv
  BY RemembersInit, ConsoleInvInit
<1>2. Remembers /\ ConsoleInv /\ [Next]_vars => Remembers' /\ ConsoleInv'
  BY RemembersNext, ConsoleInvNext
<1>3. Remembers /\ ConsoleInv => TypeOK
  BY DEF Remembers, Typed, ConsoleInv, Placed, Quits, Dying, SentTyped, Sane, TypeOK
<1> QED BY <1>1, <1>2, <1>3, PTL DEF Spec

\* The quiet window is closed by the task that opened it: it stays open only after that task threw, or when
\* the shutdown came in between.
THEOREM QuietWindowEndsAlways == Spec => []QuietWindowEnds
<1>1. Init => Remembers /\ ConsoleInv
  BY RemembersInit, ConsoleInvInit
<1>2. Remembers /\ ConsoleInv /\ [Next]_vars => Remembers' /\ ConsoleInv'
  BY RemembersNext, ConsoleInvNext
<1>3. Remembers /\ ConsoleInv => QuietWindowEnds
  BY DEF ConsoleInv, WindowIsOurs, QuietWindowEnds
<1> QED BY <1>1, <1>2, <1>3, PTL DEF Spec
=============================================================================
