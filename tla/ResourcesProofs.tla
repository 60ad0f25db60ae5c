--------------------------- MODULE ResourcesProofs --------------------------
(***************************************************************************)
(* Proofs about Resources, for any number of resources, images, volumes    *)
(* and ops, failures, deaths of the process and changes of the market.     *)
(***************************************************************************)
EXTENDS Resources, TLAPS

-----------------------------------------------------------------------------
(* Types.                                                                      *)

\* A task has an entry in the database from here on, until it is over.
Filling == {"start", "running", "delete", "forget", "stopping", "check", "mount", "on"}
Busy == Filling \cup {"create", "record"}

\* Every variable has its type, and a task that works knows its resource and its volume.
Typed ==
    /\ TypeOK
    /\ \A p \in Tasks : task[p].at \in Busy => task[p].res \in Res
    /\ \A p \in Tasks : task[p].at \in Filling \cup {"record"} => task[p].id \in Volumes
    /\ task[Preload].at = "done" => task[Preload].res \in Res

USE ResourcesAssumption

LEMMA InitTyped == Init => Typed
<1> SUFFICES ASSUME Init PROVE Typed
  OBVIOUS
<1>1. node \in NodeState
  BY DEF Init, Booted, NodeState, Phases, Lists
<1>2. left \in Budget
  BY DEF Init, Budget
<1>3. task \in [Tasks -> TaskState] /\ \A p \in Tasks : task[p].at = "idle"
  BY DEF Init, AllIdle, Idle, Working, TaskState, Steps
<1> QED BY <1>1, <1>2, <1>3 DEF Init, Typed, TypeOK, Filling, Busy, Tasks

TaskTyped ==
    /\ task \in [Tasks -> TaskState]
    /\ \A p \in Tasks : task[p].at \in Busy => task[p].res \in Res
    /\ \A p \in Tasks : task[p].at \in Filling \cup {"record"} => task[p].id \in Volumes
    /\ task[Preload].at = "done" => task[Preload].res \in Res

LEMMA TaskBecomes ==
    ASSUME Typed, NEW p \in Tasks, NEW new \in TaskState, task' = [task EXCEPT ![p] = new],
           new.at \in Busy => new.res \in Res,
           new.at \in Filling \cup {"record"} => new.id \in Volumes,
           new.at = "done" /\ p = Preload => new.res \in Res
    PROVE  TaskTyped'
BY DEF Typed, TypeOK, TaskTyped, Tasks

\* A task goes from one step to the next and keeps resource and volume.
LEMMA AtTyped ==
    ASSUME Typed, NEW p \in Tasks, NEW s \in Steps, At(p, s),
           s \in Busy => task[p].at \in Busy,
           s \in Filling \cup {"record"} => task[p].at \in Filling \cup {"record"},
           s = "done" /\ p = Preload => task[p].at \in Busy
    PROVE  TaskTyped'
BY DEF At, Typed, TypeOK, TaskTyped, TaskState, Tasks

LEMMA FaultTyped == ASSUME Typed, Fault PROVE left' \in Budget
BY DEF Fault, Typed, TypeOK, Budget

LEMMA SetupTyped == Typed /\ Setup => Typed'
<1> SUFFICES ASSUME Typed, Setup PROVE Typed'
  OBVIOUS
<1> USE DEF Typed, TypeOK, runtime, db
<1>0. ASSUME NEW x, Done(x) PROVE node' \in NodeState
  BY <1>0 DEF Done, NodeState, Lists
<1>a. Again \in NodeState
  BY DEF Again, NodeState, Phases, Lists
<1>1. ASSUME NEW i \in Images, ResyncImage(i) PROVE Typed'
  BY <1>0, <1>1 DEF ResyncImage
<1>2. ASSUME NEW i \in Images, RequireImage(i) PROVE Typed'
  BY <1>0, <1>2 DEF RequireImage, ImageEntry
<1>3. ASSUME NEW r \in Res, ResyncVolume(r) PROVE Typed'
  BY <1>0, <1>3 DEF ResyncVolume
<1>4. ASSUME NEW r \in Res, SkipVolume(r) PROVE Typed'
  BY <1>0, <1>4 DEF SkipVolume
<1>5. ASSUME NEW r \in Res, PreloadVolume(r) PROVE Typed'
  BY <1>5 DEF PreloadVolume, Request, Working, VolumeEntry, Tasks, TaskState, Steps, Filling, Busy
<1>6. ASSUME VolumesNext \/ FetchNext PROVE Typed'
  <2>1. node' \in NodeState
    BY <1>6 DEF VolumesNext, FetchNext, Turn, NodeState, Phases, Lists
  <2> QED BY <1>6, <2>1 DEF VolumesNext, FetchNext, Turn
<1>7. ASSUME Fetch \/ PreloadNext PROVE Typed'
  <2>1. ASSUME NEW half \in {Images, Res}, NEW list \in Lists PROVE Given(half, list) \in NodeState
    BY <2>1 DEF Given, NodeState, Lists
  <2>2. node' \in NodeState
    <3>1. CASE Fetch
      BY <3>1, <2>1 DEF Fetch, NodeState, Phases, Lists
    <3>2. CASE PreloadNext
      BY <3>2, <2>1 DEF PreloadNext, NodeState, Phases, Lists
    <3> QED BY <1>7, <3>1, <3>2
  <2> QED BY <1>7, <2>2 DEF Fetch, PreloadNext
<1>8. ASSUME PreloadEnds PROVE Typed'
  <2>1. node' \in NodeState
    BY <1>0, <1>a, <1>8 DEF PreloadEnds
  <2>2. task' \in [Tasks -> TaskState]
    BY <1>8 DEF PreloadEnds, TaskState, Idle, Working, Steps
  <2> QED BY <1>8, <2>1, <2>2 DEF PreloadEnds, Idle, Working, Tasks, Busy, Filling
<1>9. ASSUME SetupThrows PROVE Typed'
  BY <1>9, <1>a, FaultTyped DEF SetupThrows
<1> QED BY <1>1, <1>2, <1>3, <1>4, <1>5, <1>6, <1>7, <1>8, <1>9 DEF Setup

LEMMA DownloadTyped == ASSUME NEW p \in Tasks, Typed, Download(p) PROVE Typed'
<1> USE DEF Typed, TypeOK, runtime, db
<1>1. CASE CreateVolume(p)
  <2>1. PICK v \in Volumes : task' = [task EXCEPT ![p] = Working("record", @.res, v)]
                           /\ volume' = [volume EXCEPT ![v] = "empty"]
                           /\ UNCHANGED <<image, db, market, node, prepared, left>>
    BY <1>1 DEF CreateVolume, Unknown
  <2> DEFINE new == Working("record", task[p].res, v)
  <2>3. task[p].res \in Res
    BY <1>1 DEF CreateVolume, Busy
  <2>2. new \in TaskState /\ new.at = "record" /\ new.res = task[p].res /\ new.id = v
    BY <2>3 DEF TaskState, Steps, Working
  <2>4. task' = [task EXCEPT ![p] = new]
    BY <2>1
  <2> HIDE DEF new
  <2>5. TaskTyped'
    BY <2>2, <2>3, <2>4, TaskBecomes DEF Tasks
  <2> QED BY <2>1, <2>5 DEF TaskTyped
<1>2. CASE RecordVolume(p)
  BY <1>2, AtTyped DEF TaskTyped, RecordVolume, EntryOf, VolumeEntry, Steps, Busy, Filling
<1>3. CASE StartDownload(p)
  BY <1>3, AtTyped DEF TaskTyped, StartDownload, Steps, Busy, Filling
<1>4. CASE DownloadDone(p)
  BY <1>4, AtTyped DEF TaskTyped, DownloadDone, Steps, Busy, Filling
<1>5. CASE DownloadFails(p)
  BY <1>5, AtTyped, FaultTyped DEF TaskTyped, DownloadFails, Steps, Busy, Filling
<1>6. CASE DeleteVolume(p)
  BY <1>6, AtTyped, FaultTyped DEF TaskTyped, DeleteVolume, Steps, Busy, Filling
<1>7. CASE ForgetVolume(p)
  BY <1>7, AtTyped DEF TaskTyped, ForgetVolume, Steps, Busy, Filling
<1>8. CASE SetVolume(p)
  BY <1>8, AtTyped DEF TaskTyped, SetVolume, EntryOf, VolumeEntry, Steps, Busy, Filling
<1>9. CASE CallFails(p)
  BY <1>9, AtTyped, FaultTyped DEF TaskTyped, CallFails, Steps, Busy, Filling
<1>10. CASE HasVolume(p)
  <2> DEFINE entry == vdb[task[p].res]
  <2>0. task[p].at = "check" /\ task[p].res \in Res /\ UNCHANGED <<runtime, idb, market, node, prepared>>
    BY <1>10 DEF HasVolume, Busy, Filling
  <2>1. CASE /\ entry # Nothing /\ task' = [task EXCEPT ![p] = Working("mount", task[p].res, entry.volume)]
             /\ UNCHANGED <<vdb, left>>
    <3>1. entry.volume \in Volumes
      BY <2>0, <2>1 DEF VolumeEntry
    <3> DEFINE new == Working("mount", task[p].res, entry.volume)
    <3>2. new \in TaskState /\ new.at = "mount" /\ new.res = task[p].res /\ new.id \in Volumes
      BY <2>0, <3>1 DEF TaskState, Steps, Working, Busy, Filling
    <3>3. task' = [task EXCEPT ![p] = new] /\ task[p].res \in Res
      BY <2>0, <2>1
    <3> HIDE DEF new
    <3>4. TaskTyped'
      BY <3>2, <3>3, TaskBecomes
    <3> QED BY <2>0, <2>1, <3>4 DEF TaskTyped
  <2>2. CASE At(p, "failed") /\ (UNCHANGED left \/ Fault) /\ vdb' = [vdb EXCEPT ![task[p].res] = Nothing]
    BY <2>0, <2>2, AtTyped, FaultTyped DEF TaskTyped, Steps, Busy, Filling
  <2> QED BY <1>10, <2>1, <2>2 DEF HasVolume
<1> QED BY <1>1, <1>2, <1>3, <1>4, <1>5, <1>6, <1>7, <1>8, <1>9, <1>10 DEF Download

LEMMA JobTyped == Typed /\ Job => Typed'
<1> SUFFICES ASSUME Typed, Job PROVE Typed'
  OBVIOUS
<1> USE DEF Typed, TypeOK, runtime, db
<1>1. CASE TakeJob
  BY <1>1 DEF TakeJob, NodeState, Phases, Lists, Budget
<1>2. CASE JobOver
  BY <1>2 DEF JobOver, AllIdle, Idle, Working, TaskState, Steps, Tasks, Busy, Filling, Again, NodeState, Phases, Lists
<1>3. ASSUME NEW o \in Ops, PullImage(o) PROVE Typed'
  BY <1>3, AtTyped DEF TaskTyped, PullImage, ImageEntry, Tasks, Steps, Busy, Filling
<1>4. ASSUME NEW o \in Ops, RequestVolume(o) PROVE Typed'
  BY <1>4 DEF RequestVolume, Request, Working, VolumeEntry, Tasks, TaskState, Steps, Filling, Busy
<1>5. ASSUME NEW o \in Ops, Mount(o) PROVE Typed'
  BY <1>5, AtTyped DEF TaskTyped, Mount, Tasks, Steps, Busy, Filling
<1>6. ASSUME NEW o \in Ops, OpEnds(o) PROVE Typed'
  BY <1>6, AtTyped DEF TaskTyped, OpEnds, Tasks, Steps, Busy, Filling
<1> QED BY <1>1, <1>2, <1>3, <1>4, <1>5, <1>6 DEF Job

LEMMA TypedStep == Typed /\ [Next]_vars => Typed'
<1> SUFFICES ASSUME Typed, [Next]_vars PROVE Typed'
  OBVIOUS
<1>1. CASE Age
  <2>1. ASSUME NEW r \in Res, vdb[r] # Nothing, vdb' = [vdb EXCEPT ![r].old = TRUE]
        PROVE  vdb' \in [Res -> VolumeEntry \cup {Nothing}]
    <3>1. [vdb[r] EXCEPT !.old = TRUE] \in VolumeEntry
      <4>1. vdb[r] \in VolumeEntry
        BY <2>1 DEF Typed, TypeOK
      <4> QED BY <4>1 DEF VolumeEntry
    <3> QED BY <2>1, <3>1 DEF Typed, TypeOK
  <2>2. ASSUME NEW i \in Images, idb[i] # Nothing, idb' = [idb EXCEPT ![i].old = TRUE]
        PROVE  idb' \in [Images -> ImageEntry \cup {Nothing}]
    BY <2>2 DEF Typed, TypeOK, ImageEntry
  <2> QED BY <1>1, <2>1, <2>2 DEF Age, Typed, TypeOK, runtime
<1>2. CASE MarketChanges
  BY <1>2 DEF MarketChanges, Typed, TypeOK, runtime, db, Budget
<1>3. CASE Crash
  <2>1. left' \in Budget
    BY <1>3 DEF Crash, Typed, TypeOK, Budget
  <2>2. node' \in NodeState
    BY <1>3 DEF Crash, Booted, NodeState, Phases, Lists
  <2>3. task' \in [Tasks -> TaskState] /\ \A p \in Tasks : task'[p].at = "idle"
    BY <1>3 DEF Crash, AllIdle, Idle, Working, TaskState, Steps
  <2> QED BY <1>3, <2>1, <2>2, <2>3 DEF Crash, Typed, TypeOK, runtime, db, Busy, Filling, Tasks
<1>4. CASE NextProcess
  BY <1>4 DEF NextProcess, Typed, TypeOK, runtime, db, Booted, NodeState, Phases, Lists
<1>5. CASE Prune
  BY <1>5 DEF Prune, Typed, TypeOK
<1>6. CASE UNCHANGED vars
  BY <1>6 DEF vars, Typed, TypeOK
<1> QED BY <1>1, <1>2, <1>3, <1>4, <1>5, <1>6, SetupTyped, DownloadTyped, JobTyped DEF Next

\* Every variable of the model keeps its type: for every number of resources, images, volumes, ops,
\* failures, deaths and changes, and whether or not two ops want the same resource.
THEOREM ResourcesTypeCorrect == Spec => []TypeOK
<1>1. Typed => TypeOK
  BY DEF Typed
<1> QED BY InitTyped, TypedStep, <1>1, PTL DEF Spec
-----------------------------------------------------------------------------
(* The inductive invariant.                                                    *)

Saved(r) == vdb[r] # Nothing
Complete(r) == Saved(r) /\ ~vdb[r].pending /\ volume[vdb[r].volume] = "complete"

\* Downloads are made by the preload while it lasts, by the ops of a job after it.
TasksInPhase ==
    /\ node.phase # "job" => \A o \in Ops : task[o].at = "idle"
    /\ node.phase # "preload" => task[Preload].at = "idle"
    /\ task[Preload].at # "idle" => task[Preload].res \in node.todo \cap Res
    /\ \A o \in Ops : task[o].at \in Busy => task[o].res = Wants[o]

\* No two entries name one volume, and a new volume has no other user before it is recorded.
VolumesApart ==
    /\ \A r, s \in Res : Saved(r) /\ Saved(s) /\ vdb[r].volume = vdb[s].volume => r = s
    /\ \A p \in Tasks : task[p].at = "record" =>
          /\ task[p].id \in Volumes /\ volume[task[p].id] = "empty"
          /\ \A r \in Res : Saved(r) => vdb[r].volume # task[p].id
          /\ \A q \in Tasks \ {p} : task[q].id # task[p].id

\* What a task fills or mounts is what the entry of its resource names.
TasksHaveTheirEntry ==
    \A p \in Tasks :
        /\ task[p].at \in Filling => Saved(task[p].res) /\ task[p].id = vdb[task[p].res].volume
        /\ task[p].at = "running" => volume[task[p].id] \in {"partial", "complete"}
        /\ task[p].at \in {"stopping", "check", "mount", "on"} => volume[task[p].id] = "complete"

PreloadIsComplete == task[Preload].at = "done" => Complete(task[Preload].res)

\* Once resync has looked at an entry, its volume is there until a failed download deletes it.
Synced(r) ==
    \/ node.phase \in {"fetch", "pull", "preload", "job"}
    \/ node.phase = "volumes" /\ r \notin node.todo
Forgetting(r) == \E p \in Tasks : task[p].at = "forget" /\ task[p].res = r
EntriesStand ==
    \A r \in Res : Saved(r) /\ Synced(r) => volume[vdb[r].volume] # "none" \/ Forgetting(r)

\* What is not recorded yet has no entry, and what is being forgotten no volume.
NewAndGone ==
    \A p \in Tasks :
        /\ task[p].at \in {"create", "record"} => ~Saved(task[p].res)
        /\ task[p].at = "forget" => volume[task[p].id] = "none"

\* What is required and no longer to do is there: images, then volumes.
ImagesThere ==
    /\ node.phase \in {"pull", "preload", "job"} =>
          \A i \in (node.required \cap Images) \ node.todo : i \in image /\ RequiredImage(i)
    /\ node.phase \in {"preload", "job"} => node.todo \cap Images = {}
VolumesThere == node.phase = "preload" => \A r \in (node.required \cap Res) \ node.todo : Complete(r)

\* What was prepared stays marked as required for as long as it is there.
PreparedThere ==
    /\ node.phase = "job" => prepared = node.required
    /\ \A i \in prepared \cap image : RequiredImage(i)

\* No two ops want the same resource (two that do fill two volumes, and one is recorded).
OwnResources == \A o, q \in Ops : Wants[o] = Wants[q] => o = q

EntriesAreTrue == VolumesApart /\ TasksHaveTheirEntry /\ PreloadIsComplete /\ SavedIsComplete
Relied == OwnResources /\ Typed /\ TasksInPhase /\ EntriesAreTrue /\ EntriesStand
RequiredIsThere == ImagesThere /\ PreparedThere /\ VolumesThere
Consistent == Relied /\ NewAndGone /\ RequiredIsThere

-----------------------------------------------------------------------------
(* The lemmas of the steps.                                                    *)

\* Two downloads under way are of different resources, into different volumes.
LEMMA DownloadsApart ==
    ASSUME OwnResources, Typed, TasksInPhase, VolumesApart, TasksHaveTheirEntry,
           NEW p \in Tasks, NEW q \in Tasks, p # q, task[p].at \in Busy, task[q].at \in Busy
    PROVE  /\ task[p].res # task[q].res
           /\ task[p].at \in Filling /\ task[q].at \in Filling => task[p].id # task[q].id
<1>1. p \in Ops /\ q \in Ops
  BY DEF TasksInPhase, Tasks, Busy, Filling
<1>2. task[p].res # task[q].res
  BY <1>1 DEF TasksInPhase, OwnResources
<1>3. task[p].res \in Res /\ task[q].res \in Res
  BY DEF Typed
<1> QED BY <1>2, <1>3 DEF VolumesApart, TasksHaveTheirEntry

\* What a step of a task leaves of the tasks.
Moves(p, s) ==
    /\ task'[p].at = s /\ task'[p].res = task[p].res /\ task'[p].id = task[p].id
    /\ \A q \in Tasks \ {p} : task'[q] = task[q]

LEMMA AtMoves == ASSUME Typed, NEW p \in Tasks, NEW s, At(p, s) PROVE Moves(p, s)
BY DEF At, Moves, Typed, TypeOK, TaskState

LEMMA EntriesStayTrue == EntriesAreTrue /\ UNCHANGED <<volume, vdb, task>> => EntriesAreTrue'
<1> SUFFICES ASSUME EntriesAreTrue, UNCHANGED <<volume, vdb, task>> PROVE EntriesAreTrue'
  OBVIOUS
<1>1. VolumesApart'
  BY DEF EntriesAreTrue, VolumesApart, Saved
<1>2. TasksHaveTheirEntry'
  BY DEF EntriesAreTrue, TasksHaveTheirEntry, Saved
<1>3. PreloadIsComplete' /\ SavedIsComplete'
  BY DEF EntriesAreTrue, PreloadIsComplete, SavedIsComplete, Saved, Complete
<1> QED BY <1>1, <1>2, <1>3 DEF EntriesAreTrue

\* While no task is under way, only the entries matter.
EntriesApart == \A r, s \in Res : Saved(r) /\ Saved(s) /\ vdb[r].volume = vdb[s].volume => r = s

LEMMA WhenIdle ==
    ASSUME EntriesApart', SavedIsComplete', \A p \in Tasks : task'[p].at = "idle"
    PROVE  EntriesAreTrue'
<1>1. VolumesApart'
  BY DEF VolumesApart, EntriesApart
<1>2. TasksHaveTheirEntry' /\ PreloadIsComplete'
  BY DEF TasksHaveTheirEntry, PreloadIsComplete, Filling, Tasks
<1> QED BY <1>1, <1>2 DEF EntriesAreTrue

\* A task that goes to a step in which it relies on nothing new.
LEMMA LetsGo ==
    ASSUME Typed, EntriesAreTrue, UNCHANGED <<volume, vdb>>, NEW p \in Tasks, NEW s, Moves(p, s),
           s \notin {"record", "running", "stopping", "check", "mount", "on"},
           s \in Filling => task[p].at \in Filling, p = Preload => s # "done"
    PROVE  EntriesAreTrue'
<1>1. VolumesApart'
  BY DEF EntriesAreTrue, VolumesApart, Saved, Moves
<1>2. TasksHaveTheirEntry'
  BY DEF EntriesAreTrue, TasksHaveTheirEntry, Saved, Moves
<1>3. PreloadIsComplete' /\ SavedIsComplete'
  BY DEF EntriesAreTrue, PreloadIsComplete, SavedIsComplete, Saved, Complete, Moves, Tasks
<1> QED BY <1>1, <1>2, <1>3 DEF EntriesAreTrue

LEMMA CreateTrue == ASSUME Relied, NEW p \in Tasks, CreateVolume(p) PROVE EntriesAreTrue'
<1> USE DEF Relied, EntriesAreTrue
<1>1. PICK v \in Unknown : /\ task' = [task EXCEPT ![p] = Working("record", @.res, v)]
                           /\ volume' = [volume EXCEPT ![v] = "empty"] /\ vdb' = vdb
  BY DEF CreateVolume, db
<1>2. /\ v \in Volumes /\ volume[v] = "none" /\ \A q \in Tasks : task[q].id # v
      /\ \A r \in Res : Saved(r) => vdb[r].volume # v
  BY DEF Unknown, Recorded, Saved
<1>3. task'[p].at = "record" /\ task'[p].id = v /\ \A q \in Tasks \ {p} : task'[q] = task[q]
  BY <1>1 DEF Working, Typed, TypeOK
<1>4. volume'[v] = "empty" /\ \A w \in Volumes \ {v} : volume'[w] = volume[w]
  BY <1>1, <1>2 DEF Typed, TypeOK
<1>5. VolumesApart'
  BY <1>1, <1>2, <1>3, <1>4 DEF VolumesApart, Saved
<1>6. TasksHaveTheirEntry'
  BY <1>1, <1>2, <1>3, <1>4 DEF TasksHaveTheirEntry, Saved, Typed, Filling
<1>7. PreloadIsComplete' /\ SavedIsComplete'
  BY <1>1, <1>2, <1>3, <1>4 DEF PreloadIsComplete, SavedIsComplete, Saved, Complete, Typed, TypeOK, VolumeEntry, Tasks
<1> QED BY <1>5, <1>6, <1>7

LEMMA EntryWritten ==
    ASSUME Typed, NEW p \in Tasks, task[p].at \in {"record", "stopping"}, NEW b \in BOOLEAN,
           vdb' = [vdb EXCEPT ![task[p].res] = EntryOf(p, b)]
    PROVE  /\ vdb'[task[p].res] # Nothing /\ vdb'[task[p].res].volume = task[p].id
           /\ vdb'[task[p].res].pending = b
           /\ \A s \in Res \ {task[p].res} : vdb'[s] = vdb[s]
<1>1. task[p].id \in Volumes /\ task[p].res \in Res
  BY DEF Typed, Filling, Busy
<1>2. EntryOf(p, b) \in VolumeEntry
  BY <1>1 DEF EntryOf, VolumeEntry
<1>3. EntryOf(p, b).volume = task[p].id /\ EntryOf(p, b).pending = b
  BY DEF EntryOf
<1>4. vdb'[task[p].res] = EntryOf(p, b) /\ \A s \in Res \ {task[p].res} : vdb'[s] = vdb[s]
  BY <1>1 DEF Typed, TypeOK
<1> QED BY <1>2, <1>3, <1>4

LEMMA RecordTrue == ASSUME Relied, NEW p \in Tasks, RecordVolume(p) PROVE EntriesAreTrue'
<1> USE DEF Relied, EntriesAreTrue
<1> DEFINE r == task[p].res
           v == task[p].id
<1>1. task[p].at = "record" /\ r \in Res /\ v \in Volumes /\ volume' = volume
  BY DEF RecordVolume, Typed, Busy, runtime
<1>2. Moves(p, "start")
  BY AtMoves DEF RecordVolume
<1>3. /\ vdb'[r] # Nothing /\ vdb'[r].volume = v /\ vdb'[r].pending
      /\ \A s \in Res \ {r} : vdb'[s] = vdb[s]
  <2>1. vdb' = [vdb EXCEPT ![r] = EntryOf(p, TRUE)]
    BY DEF RecordVolume
  <2>2. /\ vdb'[r] # Nothing /\ vdb'[r].volume = v /\ vdb'[r].pending = TRUE
        /\ \A s \in Res \ {r} : vdb'[s] = vdb[s]
    BY <1>1, <2>1, EntryWritten
  <2> QED BY <2>2
<1>4. \A q \in Tasks \ {p} : task[q].at \in Busy => task[q].res # r
  BY <1>1, DownloadsApart DEF Busy
<1>5. \A q \in Tasks \ {p} : task[q].id # v
  BY <1>1 DEF VolumesApart
<1> HIDE DEF r, v
<1>6. VolumesApart'
  BY <1>1, <1>2, <1>3, <1>5 DEF VolumesApart, Saved, Moves, r, v
<1>7. TasksHaveTheirEntry'
  BY <1>1, <1>2, <1>3, <1>4 DEF TasksHaveTheirEntry, Saved, Typed, Moves, Filling, Busy, r, v
<1>8. PreloadIsComplete' /\ SavedIsComplete'
  BY <1>1, <1>2, <1>3 DEF PreloadIsComplete, SavedIsComplete, Saved, Complete, Moves, Tasks, TasksInPhase, Typed
<1> QED BY <1>6, <1>7, <1>8

\* What happens to the volume that one task fills touches no other task.
LEMMA OthersStand ==
    ASSUME Relied, NEW p \in Tasks, task[p].at \in Filling
    PROVE  /\ task[p].res \in Res /\ Saved(task[p].res) /\ task[p].id = vdb[task[p].res].volume /\ task[p].id \in Volumes
           /\ \A q \in Tasks \ {p} : task[q].at \in Filling => task[q].id # task[p].id /\ task[q].res # task[p].res
           /\ \A r \in Res : Saved(r) /\ vdb[r].volume = task[p].id => r = task[p].res
           /\ \A q \in Tasks \ {p} : task[q].at = "record" => task[q].id # task[p].id
<1> USE DEF Relied, EntriesAreTrue
<1>1. task[p].res \in Res /\ Saved(task[p].res) /\ task[p].id = vdb[task[p].res].volume /\ task[p].id \in Volumes
  BY DEF Typed, TasksHaveTheirEntry, Busy
<1>2. \A q \in Tasks \ {p} : task[q].at \in Filling => task[q].id # task[p].id /\ task[q].res # task[p].res
  BY DownloadsApart DEF Busy
<1>3. \A r \in Res : Saved(r) /\ vdb[r].volume = task[p].id => r = task[p].res
  BY <1>1 DEF VolumesApart
<1>4. \A q \in Tasks \ {p} : task[q].at = "record" => task[q].id # task[p].id
  BY DEF VolumesApart
<1> QED BY <1>1, <1>2, <1>3, <1>4

\* A task sets the volume it fills, which is that of its entry.
Fills(p, s) ==
    /\ Moves(p, s) /\ vdb' = vdb
    /\ \A w \in Volumes \ {task[p].id} : volume'[w] = volume[w]
    /\ s \in Filling
    /\ s = "running" => volume'[task[p].id] \in {"partial", "complete"}
    /\ s \in {"stopping", "check", "mount", "on"} => volume'[task[p].id] = "complete"
    /\ ~vdb[task[p].res].pending => volume'[task[p].id] \in {"none", "complete"}

LEMMA FillsTrue ==
    ASSUME Relied, NEW p \in Tasks, task[p].at \in Filling, NEW s, Fills(p, s)
    PROVE  EntriesAreTrue'
<1> USE DEF Relied, EntriesAreTrue
<1> DEFINE r == task[p].res
           v == task[p].id
<1>1. /\ r \in Res /\ Saved(r) /\ v = vdb[r].volume /\ v \in Volumes
      /\ \A q \in Tasks \ {p} : task[q].at \in Filling => task[q].id # v
      /\ \A x \in Res : Saved(x) /\ vdb[x].volume = v => x = r
      /\ \A q \in Tasks \ {p} : task[q].at = "record" => task[q].id # v
  BY OthersStand
<1>2. /\ Moves(p, s) /\ vdb' = vdb /\ s \in Filling
      /\ \A w \in Volumes \ {v} : volume'[w] = volume[w]
      /\ s = "running" => volume'[v] \in {"partial", "complete"}
      /\ s \in {"stopping", "check", "mount", "on"} => volume'[v] = "complete"
      /\ ~vdb[r].pending => volume'[v] \in {"none", "complete"}
  BY DEF Fills
<1> HIDE DEF r, v
<1>3. VolumesApart'
  BY <1>1, <1>2 DEF VolumesApart, Saved, Moves, r, v, Filling
<1>4. TasksHaveTheirEntry'
  BY <1>1, <1>2 DEF TasksHaveTheirEntry, Saved, Typed, Moves, Filling, r, v
<1>5. PreloadIsComplete'
  <2>1. CASE p = Preload
    BY <1>2, <2>1 DEF PreloadIsComplete, Moves, Filling
  <2>2. CASE p # Preload
    <3>1. task[Preload].at = "idle" /\ task'[Preload] = task[Preload]
      BY <1>2, <2>2 DEF TasksInPhase, Moves, Tasks, Filling
    <3> QED BY <3>1 DEF PreloadIsComplete
  <2> QED BY <2>1, <2>2
<1>6. SavedIsComplete'
  BY <1>1, <1>2 DEF SavedIsComplete, Saved, Typed, TypeOK, VolumeEntry, r, v
<1> QED BY <1>3, <1>4, <1>5, <1>6

LEMMA StartTrue == ASSUME Relied, NEW p \in Tasks, StartDownload(p) PROVE EntriesAreTrue'
<1> DEFINE v == task[p].id
           r == task[p].res
           c == IF volume[v] = "complete" THEN "complete" ELSE "partial"
<1>1. task[p].at = "start" /\ volume' = [volume EXCEPT ![v] = c] /\ vdb' = vdb
  BY DEF StartDownload, db
<1>2. Moves(p, "running")
  BY AtMoves DEF StartDownload, Relied
<1>3. r \in Res /\ Saved(r) /\ v = vdb[r].volume /\ v \in Volumes
  BY <1>1, OthersStand DEF Filling
<1>4. volume[v] # "none"
  <2>1. node.phase \in {"preload", "job"}
    BY <1>1 DEF Relied, TasksInPhase, Tasks
  <2>2. ~Forgetting(r)
    BY <1>1, OthersStand DEF Forgetting, Filling
  <2> QED BY <1>3, <2>1, <2>2 DEF Relied, EntriesStand, Synced
<1>5. vdb[r].pending \/ c \in {"none", "complete"}
  <2>1. ~vdb[r].pending => volume[v] \in {"none", "complete"}
    BY <1>3 DEF Relied, EntriesAreTrue, SavedIsComplete, Saved
  <2> QED BY <1>4, <2>1
<1>6. c \in {"partial", "complete"}
  OBVIOUS
<1> HIDE DEF c
<1>7. Fills(p, "running")
  BY <1>1, <1>2, <1>3, <1>5, <1>6 DEF Fills, Filling, Relied, Typed, TypeOK
<1> QED BY <1>1, <1>7, FillsTrue DEF Filling

LEMMA DoneTrue == ASSUME Relied, NEW p \in Tasks, DownloadDone(p) PROVE EntriesAreTrue'
<1>1. Moves(p, "stopping")
  BY AtMoves DEF DownloadDone, Relied
<1>2. task[p].at = "running" /\ task[p].id \in Volumes
  BY DEF DownloadDone, Relied, Typed, Filling
<1>3. Fills(p, "stopping")
  BY <1>1, <1>2 DEF DownloadDone, Fills, Filling, Relied, Typed, TypeOK, db
<1> QED BY <1>2, <1>3, FillsTrue DEF Filling

LEMMA DeleteTrue == ASSUME Relied, NEW p \in Tasks, DeleteVolume(p) PROVE EntriesAreTrue'
<1>1. CASE At(p, "failed") /\ UNCHANGED volume
  <2>1. Moves(p, "failed")
    BY <1>1, AtMoves DEF Relied
  <2> QED BY <1>1, <2>1, LetsGo DEF DeleteVolume, Relied, db, Filling
<1>2. CASE At(p, "forget") /\ volume' = [volume EXCEPT ![task[p].id] = "none"]
  <2>1. Moves(p, "forget")
    BY <1>2, AtMoves DEF Relied
  <2>2. task[p].at = "delete" /\ vdb' = vdb /\ task[p].id \in Volumes
    BY DEF DeleteVolume, db, Relied, Typed, Filling
  <2>3. Fills(p, "forget")
    BY <1>2, <2>1, <2>2 DEF Fills, Filling, Relied, Typed, TypeOK
  <2> QED BY <2>2, <2>3, FillsTrue DEF Filling
<1> QED BY <1>1, <1>2 DEF DeleteVolume

\* A task deletes its entry and is over.
LEMMA ForgetsTrue ==
    ASSUME Relied, NEW p \in Tasks, task[p].at \in Filling, Moves(p, "failed"),
           vdb' = [vdb EXCEPT ![task[p].res] = Nothing], volume' = volume
    PROVE  EntriesAreTrue'
<1> USE DEF Relied, EntriesAreTrue
<1> DEFINE r == task[p].res
<1>1. r \in Res /\ \A q \in Tasks \ {p} : task[q].at \in Filling => task[q].res # r
  BY OthersStand
<1>2. vdb'[r] = Nothing /\ \A s \in Res \ {r} : vdb'[s] = vdb[s]
  BY <1>1 DEF Typed, TypeOK
<1> HIDE DEF r
<1>3. VolumesApart'
  BY <1>1, <1>2 DEF VolumesApart, Saved, Moves
<1>4. TasksHaveTheirEntry'
  BY <1>1, <1>2 DEF TasksHaveTheirEntry, Saved, Typed, Moves, Filling, Busy, r
<1>5. PreloadIsComplete'
  <2>1. CASE p = Preload
    BY <2>1 DEF PreloadIsComplete, Moves
  <2>2. CASE p # Preload
    <3>1. task[Preload].at = "idle" /\ task'[Preload] = task[Preload]
      BY <2>2 DEF TasksInPhase, Moves, Tasks, Filling
    <3> QED BY <3>1 DEF PreloadIsComplete
  <2> QED BY <2>1, <2>2
<1>6. SavedIsComplete'
  BY <1>2 DEF SavedIsComplete, Saved
<1> QED BY <1>3, <1>4, <1>5, <1>6

LEMMA ForgetTrue == ASSUME Relied, NEW p \in Tasks, ForgetVolume(p) PROVE EntriesAreTrue'
<1>1. Moves(p, "failed")
  BY AtMoves DEF ForgetVolume, Relied
<1> QED BY <1>1, ForgetsTrue DEF ForgetVolume, runtime, Filling

LEMMA SetTrue == ASSUME Relied, NEW p \in Tasks, SetVolume(p) PROVE EntriesAreTrue'
<1> USE DEF Relied, EntriesAreTrue
<1> DEFINE r == task[p].res
           v == task[p].id
           s == IF p = Preload THEN "done" ELSE "check"
<1>1. task[p].at = "stopping" /\ volume' = volume
  BY DEF SetVolume, runtime
<1>2. /\ r \in Res /\ Saved(r) /\ v = vdb[r].volume /\ v \in Volumes
      /\ \A q \in Tasks \ {p} : task[q].at \in Filling => task[q].id # v /\ task[q].res # r
      /\ \A x \in Res : Saved(x) /\ vdb[x].volume = v => x = r
      /\ \A q \in Tasks \ {p} : task[q].at = "record" => task[q].id # v
  BY <1>1, OthersStand DEF Filling
<1>3. Moves(p, s)
  BY AtMoves DEF SetVolume
<1>4. volume[v] = "complete"
  BY <1>1 DEF TasksHaveTheirEntry
<1>5. /\ vdb'[r] # Nothing /\ vdb'[r].volume = v /\ ~vdb'[r].pending
      /\ \A x \in Res \ {r} : vdb'[x] = vdb[x]
  <2>1. vdb' = [vdb EXCEPT ![r] = EntryOf(p, FALSE)]
    BY DEF SetVolume
  <2>2. /\ vdb'[r] # Nothing /\ vdb'[r].volume = v /\ vdb'[r].pending = FALSE
        /\ \A x \in Res \ {r} : vdb'[x] = vdb[x]
    BY <1>1, <2>1, EntryWritten
  <2> QED BY <2>2
<1>6. s \in {"done", "check"} /\ (p = Preload <=> s = "done")
  OBVIOUS
<1> HIDE DEF r, v, s
<1>7. VolumesApart'
  BY <1>1, <1>2, <1>3, <1>5, <1>6 DEF VolumesApart, Saved, Moves, r, v
<1>8. TasksHaveTheirEntry'
  BY <1>1, <1>2, <1>3, <1>4, <1>5, <1>6 DEF TasksHaveTheirEntry, Saved, Typed, Moves, Filling, Busy, r, v
<1>9. PreloadIsComplete'
  <2>1. CASE p = Preload
    BY <2>1, <1>1, <1>2, <1>3, <1>4, <1>5 DEF PreloadIsComplete, Complete, Saved, Moves, r, v
  <2>2. CASE p # Preload
    <3>1. task[Preload].at = "idle" /\ task'[Preload] = task[Preload]
      BY <1>1, <1>3, <2>2 DEF TasksInPhase, Moves, Tasks
    <3> QED BY <3>1 DEF PreloadIsComplete
  <2> QED BY <2>1, <2>2
<1>10. SavedIsComplete'
  BY <1>1, <1>4, <1>5 DEF SavedIsComplete, Saved
<1> QED BY <1>7, <1>8, <1>9, <1>10

\* A task takes up the volume of an entry, which is complete, or is yet to be filled.
LEMMA TakesTrue ==
    ASSUME Relied, UNCHANGED <<volume, vdb>>, NEW p \in Tasks, NEW s \in {"start", "mount"}, NEW r \in Res,
           Saved(r), task' = [task EXCEPT ![p] = Working(s, r, vdb[r].volume)],
           s = "mount" => volume[vdb[r].volume] = "complete"
    PROVE  EntriesAreTrue'
<1> USE DEF Relied, EntriesAreTrue
<1>1. /\ task'[p].at = s /\ task'[p].res = r /\ task'[p].id = vdb[r].volume
      /\ \A q \in Tasks \ {p} : task'[q] = task[q]
  BY DEF Working, Typed, TypeOK
<1>2. VolumesApart'
  BY <1>1 DEF VolumesApart, Saved
<1>3. TasksHaveTheirEntry'
  BY <1>1 DEF TasksHaveTheirEntry, Saved, Filling
<1>4. PreloadIsComplete' /\ SavedIsComplete'
  BY <1>1 DEF PreloadIsComplete, SavedIsComplete, Saved, Complete, Tasks
<1> QED BY <1>2, <1>3, <1>4

LEMMA RequestTrue == ASSUME Relied, NEW p \in Tasks, NEW r \in Res, Request(p, r) PROVE EntriesAreTrue'
<1>1. CASE Saved(r)
  BY <1>1, TakesTrue DEF Request, Saved, runtime, db
<1>2. CASE ~Saved(r)
  <2> USE DEF Relied, EntriesAreTrue
  <2>1. task'[p] = Working("create", r, Nothing) /\ (\A q \in Tasks \ {p} : task'[q] = task[q]) /\ UNCHANGED <<volume, vdb>>
    BY <1>2 DEF Request, Saved, Typed, TypeOK, runtime, db
  <2>2. task'[p].at = "create" /\ task'[p].id = Nothing
    BY <2>1 DEF Working
  <2>3. VolumesApart'
    BY <2>1, <2>2 DEF VolumesApart, Saved
  <2>4. TasksHaveTheirEntry'
    BY <2>1, <2>2 DEF TasksHaveTheirEntry, Saved, Filling
  <2>5. PreloadIsComplete' /\ SavedIsComplete'
    BY <2>1, <2>2 DEF PreloadIsComplete, SavedIsComplete, Saved, Complete, Tasks
  <2> QED BY <2>3, <2>4, <2>5
<1> QED BY <1>1, <1>2

LEMMA HasTrue == ASSUME Relied, NEW p \in Tasks, HasVolume(p) PROVE EntriesAreTrue'
<1> DEFINE r == task[p].res
<1>1. task[p].at = "check" /\ r \in Res /\ Saved(r) /\ volume[vdb[r].volume] = "complete" /\ volume' = volume
  BY DEF HasVolume, Relied, EntriesAreTrue, TasksHaveTheirEntry, Typed, Filling, Busy, runtime
<1>2. CASE task' = [task EXCEPT ![p] = Working("mount", r, vdb[r].volume)] /\ vdb' = vdb
  BY <1>1, <1>2, TakesTrue
<1>3. CASE At(p, "failed") /\ vdb' = [vdb EXCEPT ![r] = Nothing]
  <2>1. Moves(p, "failed")
    BY <1>3, AtMoves DEF Relied
  <2> QED BY <1>1, <1>3, <2>1, ForgetsTrue DEF Filling
<1> QED BY <1>2, <1>3 DEF HasVolume

LEMMA MountTrue == ASSUME Relied, NEW o \in Ops, Mount(o) PROVE EntriesAreTrue'
<1>1. Moves(o, "on")
  BY AtMoves DEF Mount, Relied, Tasks
<1>2. task[o].at = "mount" /\ volume[task[o].id] = "complete" /\ o \in Tasks
  BY DEF Mount, Relied, EntriesAreTrue, TasksHaveTheirEntry, Tasks
<1>3. volume' = [volume EXCEPT ![task[o].id] = "complete"] /\ vdb' = vdb /\ task[o].id \in Volumes
  BY <1>2 DEF Mount, db, Relied, Typed, Filling
<1>4. Fills(o, "on")
  BY <1>1, <1>2, <1>3 DEF Fills, Filling, Relied, Typed, TypeOK
<1> QED BY <1>2, <1>4, FillsTrue DEF Filling

-----------------------------------------------------------------------------
(* Each part of the invariant, step by step.                                   *)

\* What the node does by itself leaves volumes, entries and tasks alone, in the same phases of tasks.
LEMMA ResyncTrue == ASSUME Relied, NEW r \in Res, ResyncVolume(r) PROVE EntriesAreTrue'
<1> USE DEF Relied, EntriesAreTrue
<1>1. task' = task /\ \A p \in Tasks : task[p].at = "idle"
  BY DEF ResyncVolume, TasksInPhase, Tasks
<1>2. \A s \in Res : Saved(s)' => Saved(s) /\ vdb'[s] = vdb[s]
  BY DEF ResyncVolume, Saved, Typed, TypeOK
<1>3. \A v \in Volumes : volume'[v] = volume[v] \/ volume'[v] = "none"
  BY DEF ResyncVolume, Typed, TypeOK
<1>4. \A s \in Res : Saved(s) => vdb[s].volume \in Volumes
  BY DEF Saved, Typed, TypeOK, VolumeEntry
<1>5. EntriesApart'
  BY <1>2 DEF EntriesApart, VolumesApart, Saved
<1>6. SavedIsComplete'
  BY <1>2, <1>3, <1>4 DEF SavedIsComplete, Saved
<1> QED BY <1>1, <1>5, <1>6, WhenIdle

LEMMA PruneTrue == ASSUME Relied, Prune PROVE EntriesAreTrue'
<1> USE DEF Relied, EntriesAreTrue
<1>1. task' = task /\ \A p \in Tasks : task[p].at = "idle"
  BY DEF Prune, TasksInPhase, Tasks
<1>2. \A s \in Res : Saved(s)' => Saved(s) /\ vdb'[s] = vdb[s]
  BY DEF Prune, Saved, Typed, TypeOK
<1>3. \A v \in Volumes : volume'[v] = volume[v] \/ volume'[v] = "none"
  BY DEF Prune, Typed, TypeOK
<1>4. \A s \in Res : Saved(s) => vdb[s].volume \in Volumes
  BY DEF Saved, Typed, TypeOK, VolumeEntry
<1>5. EntriesApart'
  BY <1>2 DEF EntriesApart, VolumesApart, Saved
<1>6. SavedIsComplete'
  BY <1>2, <1>3, <1>4 DEF SavedIsComplete, Saved
<1> QED BY <1>1, <1>5, <1>6, WhenIdle

\* A day changes of an entry only its age.
LEMMA Aged ==
    ASSUME Typed, Age
    PROVE  /\ \A r \in Res : (Saved(r)' <=> Saved(r))
           /\ \A r \in Res : Saved(r) => vdb'[r].volume = vdb[r].volume /\ (vdb'[r].pending <=> vdb[r].pending)
           /\ \A i \in Images : RequiredImage(i) => RequiredImage(i)'
           /\ UNCHANGED <<volume, image, node, task, prepared>>
<1>1. CASE idb' = idb /\ \E r \in Res : vdb[r] # Nothing /\ vdb' = [vdb EXCEPT ![r].old = TRUE]
  <2>1. PICK r \in Res : vdb[r] # Nothing /\ vdb' = [vdb EXCEPT ![r].old = TRUE]
    BY <1>1
  <2> DEFINE e == [vdb[r] EXCEPT !.old = TRUE]
  <2>2. e \in VolumeEntry /\ e.volume = vdb[r].volume /\ e.pending = vdb[r].pending
    <3>1. vdb[r] \in VolumeEntry
      BY <2>1 DEF Typed, TypeOK
    <3> QED BY <3>1 DEF VolumeEntry
  <2>3. vdb'[r] = e /\ \A s \in Res \ {r} : vdb'[s] = vdb[s]
    BY <2>1 DEF Typed, TypeOK
  <2> HIDE DEF e
  <2> QED BY <1>1, <2>1, <2>2, <2>3 DEF Saved, RequiredImage, Age, runtime
<1>2. CASE vdb' = vdb /\ \E i \in Images : idb[i] # Nothing /\ idb' = [idb EXCEPT ![i].old = TRUE]
  <2>1. PICK i \in Images : idb[i] # Nothing /\ idb' = [idb EXCEPT ![i].old = TRUE]
    BY <1>2
  <2> DEFINE e == [idb[i] EXCEPT !.old = TRUE]
  <2>2. e \in ImageEntry /\ e.required = idb[i].required
    <3>1. idb[i] \in ImageEntry
      BY <2>1 DEF Typed, TypeOK
    <3> QED BY <3>1 DEF ImageEntry
  <2>3. idb'[i] = e /\ \A j \in Images \ {i} : idb'[j] = idb[j]
    BY <2>1 DEF Typed, TypeOK
  <2> HIDE DEF e
  <2> QED BY <1>2, <2>1, <2>2, <2>3 DEF Saved, RequiredImage, Age, runtime
<1> QED BY <1>1, <1>2 DEF Age

LEMMA AgeTrue == ASSUME Relied, Age PROVE EntriesAreTrue'
<1> USE DEF Relied, EntriesAreTrue
<1>1. VolumesApart'
  BY Aged DEF VolumesApart
<1>2. TasksHaveTheirEntry'
  BY Aged DEF TasksHaveTheirEntry, Typed, Busy
<1>3. PreloadIsComplete'
  BY Aged DEF PreloadIsComplete, Complete, Typed
<1>4. SavedIsComplete'
  BY Aged DEF SavedIsComplete, Saved
<1> QED BY <1>1, <1>2, <1>3, <1>4

\* Tasks come to an end together with the preload, the job or the process.
LEMMA EndsTrue == ASSUME Relied, PreloadEnds \/ JobOver \/ Crash PROVE EntriesAreTrue'
<1> USE DEF Relied, EntriesAreTrue
<1>1. \A p \in Tasks : task'[p].at = "idle"
  <2>1. CASE PreloadEnds
    <3>1. \A o \in Ops : task[o].at = "idle"
      BY <2>1 DEF PreloadEnds, TasksInPhase
    <3> QED BY <2>1, <3>1 DEF PreloadEnds, Idle, Working, Tasks, Typed, TypeOK
  <2> QED BY <2>1 DEF JobOver, Crash, AllIdle, Idle, Working
<1>2. UNCHANGED <<volume, vdb>>
  BY DEF PreloadEnds, JobOver, Crash, runtime, db
<1>3. EntriesApart' /\ SavedIsComplete'
  BY <1>2 DEF EntriesApart, VolumesApart, SavedIsComplete, Saved
<1> QED BY <1>1, <1>3, WhenIdle

LEMMA MoveTrue ==
    ASSUME Relied, NEW p \in Tasks,
           DownloadFails(p) \/ CallFails(p) \/ (p \in Ops /\ (PullImage(p) \/ OpEnds(p)))
    PROVE  EntriesAreTrue'
<1>1. UNCHANGED <<volume, vdb>>
  BY DEF DownloadFails, CallFails, PullImage, OpEnds, runtime, db
<1>2. CASE DownloadFails(p)
  BY <1>1, <1>2, AtMoves, LetsGo DEF Relied, DownloadFails, Filling
<1>3. CASE CallFails(p)
  BY <1>1, <1>3, AtMoves, LetsGo DEF Relied, CallFails, Filling
<1>4. CASE p \in Ops /\ PullImage(p)
  BY <1>1, <1>4, AtMoves, LetsGo DEF Relied, PullImage, Filling
<1>5. CASE p \in Ops /\ OpEnds(p)
  BY <1>1, <1>5, AtMoves, LetsGo DEF Relied, OpEnds, Filling
<1> QED BY <1>2, <1>3, <1>4, <1>5

LEMMA EntriesAreTrueStep == Relied /\ [Next]_vars => EntriesAreTrue'
<1> SUFFICES ASSUME Relied, [Next]_vars PROVE EntriesAreTrue'
  OBVIOUS
<1>1. ASSUME UNCHANGED <<volume, vdb, task>> PROVE EntriesAreTrue'
  BY <1>1, EntriesStayTrue DEF Relied
<1>2. CASE Setup
  <2>1. ASSUME NEW i \in Images, ResyncImage(i) \/ RequireImage(i) PROVE EntriesAreTrue'
    BY <1>1, <2>1 DEF ResyncImage, RequireImage
  <2>2. ASSUME NEW r \in Res, SkipVolume(r) PROVE EntriesAreTrue'
    BY <1>1, <2>2 DEF SkipVolume, runtime, db
  <2>3. ASSUME NEW r \in Res, PreloadVolume(r) PROVE EntriesAreTrue'
    BY <2>3, RequestTrue DEF PreloadVolume, Tasks
  <2>4. ASSUME VolumesNext \/ FetchNext \/ Fetch \/ PreloadNext \/ SetupThrows PROVE EntriesAreTrue'
    BY <1>1, <2>4 DEF VolumesNext, FetchNext, Turn, Fetch, PreloadNext, SetupThrows, runtime, db
  <2> QED BY <1>2, <2>1, <2>2, <2>3, <2>4, ResyncTrue, EndsTrue DEF Setup
<1>3. CASE Job
  <2>1. ASSUME TakeJob PROVE EntriesAreTrue'
    BY <1>1, <2>1 DEF TakeJob, runtime, db
  <2>2. ASSUME NEW o \in Ops, RequestVolume(o) PROVE EntriesAreTrue'
    BY <2>2, RequestTrue, ResourcesAssumption DEF RequestVolume, Tasks
  <2>3. ASSUME NEW o \in Ops, PullImage(o) \/ OpEnds(o) PROVE EntriesAreTrue'
    BY <2>3, MoveTrue DEF Tasks
  <2> QED BY <1>3, <2>1, <2>2, <2>3, MountTrue, EndsTrue DEF Job
<1>4. ASSUME NEW p \in Tasks, Download(p) PROVE EntriesAreTrue'
  BY <1>4, CreateTrue, RecordTrue, StartTrue, DoneTrue, DeleteTrue, ForgetTrue, SetTrue, HasTrue, MoveTrue DEF Download
<1>5. CASE MarketChanges \/ NextProcess \/ UNCHANGED vars
  BY <1>1, <1>5 DEF MarketChanges, NextProcess, vars, runtime, db
<1> QED BY <1>2, <1>3, <1>4, <1>5, AgeTrue, EndsTrue, PruneTrue DEF Next

\* A step of a task that keeps its resource, in the phase it is in.
LEMMA KeepsPhase ==
    ASSUME Typed, TasksInPhase, NEW p \in Tasks, task[p].at # "idle", node' = node,
           \A q \in Tasks \ {p} : task'[q] = task[q], task'[p].res = task[p].res,
           task'[p].at \in Busy => task[p].at \in Busy
    PROVE  TasksInPhase'
BY DEF TasksInPhase, Tasks

LEMMA TasksInPhaseStep == Typed /\ TasksInPhase /\ [Next]_vars => TasksInPhase'
<1> SUFFICES ASSUME Typed, TasksInPhase, [Next]_vars PROVE TasksInPhase'
  OBVIOUS
<1>a. node \in NodeState
  BY DEF Typed, TypeOK
<1>b. ASSUME NEW p \in Tasks, NEW s, At(p, s), node' = node, task[p].at # "idle", s \in Busy => task[p].at \in Busy
      PROVE  TasksInPhase'
  <2>1. Moves(p, s)
    BY <1>b, AtMoves
  <2> QED BY <1>b, <2>1, KeepsPhase DEF Moves
<1>1. CASE Setup
  <2>1. ASSUME NEW x, Done(x) PROVE node'.phase = node.phase
    BY <1>a, <2>1 DEF Done, NodeState
  <2>2. ASSUME task' = task, node'.phase = node.phase, node.phase # "preload" PROVE TasksInPhase'
    BY <2>2 DEF TasksInPhase
  <2>3. ASSUME NEW i \in Images, ResyncImage(i) \/ RequireImage(i) PROVE TasksInPhase'
    BY <2>1, <2>2, <2>3 DEF ResyncImage, RequireImage
  <2>4. ASSUME NEW r \in Res, ResyncVolume(r) PROVE TasksInPhase'
    BY <2>1, <2>2, <2>4 DEF ResyncVolume
  <2>5. ASSUME NEW r \in Res, SkipVolume(r) PROVE TasksInPhase'
    BY <2>1, <2>5 DEF SkipVolume, TasksInPhase
  <2>6. ASSUME NEW r \in Res, PreloadVolume(r) PROVE TasksInPhase'
    <3>1. /\ node' = node /\ node.phase = "preload" /\ r \in node.todo
          /\ task'[Preload].res = r /\ \A q \in Tasks \ {Preload} : task'[q] = task[q]
      BY <2>6 DEF PreloadVolume, Request, Working, Typed, TypeOK, Tasks
    <3> QED BY <3>1, ResourcesAssumption DEF TasksInPhase, Tasks
  <2>7. ASSUME VolumesNext \/ FetchNext \/ Fetch \/ PreloadNext PROVE TasksInPhase'
    <3>1. task' = task /\ node.phase # "job" /\ node.phase # "preload" /\ node'.phase # "job"
      BY <1>a, <2>7 DEF VolumesNext, FetchNext, Turn, Fetch, PreloadNext, Given, NodeState
    <3> QED BY <3>1, ResourcesAssumption DEF TasksInPhase, Tasks
  <2>8. ASSUME PreloadEnds PROVE TasksInPhase'
    <3>1. task'[Preload].at = "idle" /\ \A o \in Ops : task'[o] = task[o]
      BY <2>8, ResourcesAssumption DEF PreloadEnds, Idle, Working, Typed, TypeOK, Tasks
    <3>2. node.phase = "preload"
      BY <2>8 DEF PreloadEnds, TasksInPhase
    <3> QED BY <3>1, <3>2 DEF TasksInPhase, Busy, Filling
  <2>9. ASSUME SetupThrows PROVE TasksInPhase'
    <3>1. task' = task /\ node.phase # "job" /\ task[Preload].at = "idle" /\ node'.phase # "job"
      BY <1>a, <2>9 DEF SetupThrows, Again, TasksInPhase, NodeState
    <3> QED BY <3>1 DEF TasksInPhase
  <2> QED BY <1>1, <2>3, <2>4, <2>5, <2>6, <2>7, <2>8, <2>9 DEF Setup
<1>2. ASSUME NEW p \in Tasks, Download(p) PROVE TasksInPhase'
  <2>1. CASE CreateVolume(p)
    <3>1. PICK v \in Unknown : task' = [task EXCEPT ![p] = Working("record", @.res, v)]
      BY <2>1 DEF CreateVolume
    <3>2. task'[p].res = task[p].res /\ \A q \in Tasks \ {p} : task'[q] = task[q]
      BY <3>1 DEF Working, Typed, TypeOK
    <3>3. task[p].at = "create" /\ node' = node
      BY <2>1 DEF CreateVolume
    <3> QED BY <3>2, <3>3, KeepsPhase DEF Busy
  <2>2. CASE HasVolume(p)
    <3>1. task[p].at = "check" /\ node' = node
      BY <2>2 DEF HasVolume
    <3>2. CASE task' = [task EXCEPT ![p] = Working("mount", task[p].res, vdb[task[p].res].volume)]
      <4>1. task'[p].res = task[p].res /\ \A q \in Tasks \ {p} : task'[q] = task[q]
        BY <3>2 DEF Working, Typed, TypeOK
      <4> QED BY <3>1, <4>1, KeepsPhase DEF Busy, Filling
    <3>3. CASE At(p, "failed")
      BY <3>1, <3>3, <1>b DEF Busy, Filling
    <3> QED BY <2>2, <3>2, <3>3 DEF HasVolume
  <2>3. CASE RecordVolume(p) \/ StartDownload(p) \/ DownloadDone(p) \/ DownloadFails(p) \/ DeleteVolume(p)
    BY <1>b, <2>3 DEF RecordVolume, StartDownload, DownloadDone, DownloadFails, DeleteVolume, Busy, Filling
  <2>4. CASE ForgetVolume(p) \/ SetVolume(p) \/ CallFails(p)
    BY <1>b, <2>4 DEF ForgetVolume, SetVolume, CallFails, Busy, Filling
  <2> QED BY <1>2, <2>1, <2>2, <2>3, <2>4 DEF Download
<1>3. CASE Job
  <2>1. ASSUME TakeJob PROVE TasksInPhase'
    <3>1. node.todo = {} /\ task' = task /\ node'.phase = "job" /\ node.phase = "preload"
      BY <1>a, <2>1 DEF TakeJob, NodeState
    <3> QED BY <3>1 DEF TasksInPhase
  <2>2. ASSUME JobOver PROVE TasksInPhase'
    BY <2>2 DEF JobOver, AllIdle, Idle, Working, TasksInPhase, Tasks, Busy, Filling
  <2>3. ASSUME NEW o \in Ops, PullImage(o) PROVE TasksInPhase'
    <3>1. Moves(o, "pulled") /\ node' = node /\ node.phase = "job"
      BY <2>3, AtMoves DEF PullImage, Tasks
    <3> QED BY <3>1, ResourcesAssumption DEF TasksInPhase, Moves, Tasks, Busy, Filling
  <2>4. ASSUME NEW o \in Ops, RequestVolume(o) PROVE TasksInPhase'
    <3>1. /\ node' = node /\ node.phase = "job" /\ task'[o].res = Wants[o]
          /\ \A q \in Tasks \ {o} : task'[q] = task[q]
      BY <2>4 DEF RequestVolume, Request, Working, Typed, TypeOK, Tasks, TasksInPhase
    <3> QED BY <3>1, ResourcesAssumption DEF TasksInPhase, Tasks
  <2>5. ASSUME NEW o \in Ops, Mount(o) \/ OpEnds(o) PROVE TasksInPhase'
    BY <1>b, <2>5 DEF Mount, OpEnds, Tasks, Busy, Filling
  <2> QED BY <1>3, <2>1, <2>2, <2>3, <2>4, <2>5 DEF Job
<1>4. CASE Age \/ MarketChanges \/ Prune \/ UNCHANGED vars
  BY <1>4 DEF Age, MarketChanges, Prune, vars, TasksInPhase
<1>5. CASE Crash
  BY <1>5 DEF Crash, AllIdle, Idle, Working, TasksInPhase, Tasks, Busy, Filling
<1>6. CASE NextProcess
  BY <1>6 DEF NextProcess, Booted, TasksInPhase
<1> QED BY <1>1, <1>2, <1>3, <1>4, <1>5, <1>6 DEF Next

\* An entry whose volume was there, or is being forgotten, and of which neither changes.
StandsAsBefore(r) ==
    /\ Saved(r) /\ (Synced(r)' => Synced(r)) /\ vdb'[r].volume = vdb[r].volume
    /\ volume'[vdb[r].volume] # "none" \/ volume'[vdb[r].volume] = volume[vdb[r].volume]
    /\ Forgetting(r) => Forgetting(r)'

LEMMA StandStill ==
    ASSUME EntriesStand, NEW r \in Res, StandsAsBefore(r), Synced(r)'
    PROVE  volume'[vdb'[r].volume] # "none" \/ Forgetting(r)'
BY DEF EntriesStand, StandsAsBefore

LEMMA StandStep == Relied /\ EntriesAreTrue' /\ [Next]_vars => EntriesStand'
<1> SUFFICES ASSUME Relied, EntriesAreTrue', [Next]_vars, NEW r \in Res, Saved(r)', Synced(r)'
             PROVE  volume'[vdb'[r].volume] # "none" \/ Forgetting(r)'
  BY DEF EntriesStand
<1> USE DEF Relied, EntriesAreTrue
<1>a. node \in NodeState
  BY DEF Typed, TypeOK
<1>b. ASSUME UNCHANGED <<volume, vdb>>, Synced(r), \A p \in Tasks : task[p].at = "forget" => task'[p] = task[p]
      PROVE  volume'[vdb'[r].volume] # "none" \/ Forgetting(r)'
  BY <1>b, StandStill DEF StandsAsBefore, Saved, Forgetting
<1>c. ASSUME node' = node PROVE Synced(r)
  BY <1>c DEF Synced
<1>d. ASSUME NEW p \in Tasks, NEW s, At(p, s), task[p].at # "forget"
      PROVE  \A q \in Tasks : task[q].at = "forget" => task'[q] = task[q]
  BY <1>d, AtMoves DEF Moves
<1>e. ASSUME NEW p \in Tasks, NEW s, Fills(p, s), task[p].at \in Filling, task[p].at # "forget", node' = node,
             s = "forget" \/ volume'[task[p].id] # "none"
      PROVE  volume'[vdb'[r].volume] # "none" \/ Forgetting(r)'
  <2>1. /\ task[p].res \in Res /\ task[p].id \in Volumes
        /\ \A x \in Res : Saved(x) /\ vdb[x].volume = task[p].id => x = task[p].res
    BY <1>e, OthersStand
  <2>2. Saved(r) /\ vdb'[r] = vdb[r] /\ Synced(r) /\ vdb[r].volume \in Volumes
    BY <1>e, <1>c DEF Fills, Saved, Typed, TypeOK, VolumeEntry
  <2>3. CASE vdb[r].volume = task[p].id
    <3>1. s = "forget" => Forgetting(r)'
      BY <1>e, <2>1, <2>2, <2>3 DEF Forgetting, Fills, Moves
    <3> QED BY <1>e, <2>2, <2>3, <3>1
  <2>4. CASE vdb[r].volume # task[p].id
    <3>1. volume'[vdb[r].volume] = volume[vdb[r].volume]
      BY <1>e, <2>2, <2>4 DEF Fills
    <3>2. Forgetting(r) => Forgetting(r)'
      BY <1>e DEF Forgetting, Fills, Moves
    <3> QED BY <2>2, <3>1, <3>2, StandStill DEF StandsAsBefore
  <2> QED BY <2>3, <2>4
<1>f. ASSUME NEW p \in Tasks, At(p, "failed"), vdb' = [vdb EXCEPT ![task[p].res] = Nothing],
             task[p].res \in Res, volume' = volume, node' = node
      PROVE  volume'[vdb'[r].volume] # "none" \/ Forgetting(r)'
  <2>1. r # task[p].res /\ vdb'[r] = vdb[r] /\ Saved(r) /\ Synced(r)
    BY <1>c, <1>f DEF Saved, Typed, TypeOK
  <2>2. Moves(p, "failed")
    BY <1>f, AtMoves
  <2>3. Forgetting(r) => Forgetting(r)'
    BY <2>1, <2>2 DEF Forgetting, Moves
  <2> QED BY <1>f, <2>1, <2>3, StandStill DEF StandsAsBefore
<1>1. CASE Setup
  <2>1. ASSUME NEW x, Done(x) PROVE node'.phase = node.phase /\ node'.todo = node.todo \ {x}
    BY <1>a, <2>1 DEF Done, NodeState
  <2>2. ASSUME NEW i \in Images, ResyncImage(i) \/ RequireImage(i) PROVE volume'[vdb'[r].volume] # "none" \/ Forgetting(r)'
    <3>1. node'.phase = node.phase /\ node.phase # "volumes" /\ UNCHANGED <<volume, vdb, task>>
      BY <2>1, <2>2 DEF ResyncImage, RequireImage
    <3> QED BY <3>1, <1>b DEF Synced
  <2>3. ASSUME NEW q \in Res, ResyncVolume(q) PROVE volume'[vdb'[r].volume] # "none"
    <3>1. /\ node.phase = "volumes" /\ \A p \in Tasks : task[p].at = "idle"
      BY <2>3 DEF ResyncVolume, TasksInPhase, Tasks
    <3>2. ~Forgetting(r)
      BY <3>1 DEF Forgetting
    <3>3. r # q => Synced(r)
      BY <2>1, <2>3, <3>1 DEF ResyncVolume, Synced
    <3>4. Saved(r) /\ vdb'[r] = vdb[r] /\ vdb[r].volume \in Volumes
      BY <2>3 DEF ResyncVolume, Saved, Typed, TypeOK, VolumeEntry
    <3>5. CASE r = q
      BY <2>3, <3>4, <3>5 DEF ResyncVolume, Saved, Typed, TypeOK
    <3>6. CASE r # q
      <4>1. Saved(q) => vdb[q].volume # vdb[r].volume
        BY <3>4, <3>6 DEF VolumesApart
      <4>2. volume'[vdb[r].volume] = volume[vdb[r].volume]
        BY <2>3, <3>4, <4>1 DEF ResyncVolume, Saved, Typed, TypeOK
      <4> QED BY <3>2, <3>3, <3>4, <3>6, <4>2 DEF EntriesStand
    <3> QED BY <3>5, <3>6
  <2>4. ASSUME NEW q \in Res, SkipVolume(q) PROVE volume'[vdb'[r].volume] # "none" \/ Forgetting(r)'
    <3>1. node'.phase = node.phase /\ node.phase = "preload" /\ UNCHANGED <<volume, vdb, task>>
      BY <2>1, <2>4 DEF SkipVolume, runtime, db
    <3> QED BY <3>1, <1>b DEF Synced
  <2>5. ASSUME NEW q \in Res, PreloadVolume(q) PROVE volume'[vdb'[r].volume] # "none" \/ Forgetting(r)'
    <3>1. UNCHANGED <<volume, vdb, node>> /\ \A p \in Tasks : task[p].at = "forget" => task'[p] = task[p]
      BY <2>5 DEF PreloadVolume, Request, runtime, db, Typed, TypeOK, Tasks
    <3> QED BY <3>1, <1>b, <1>c
  <2>6. ASSUME VolumesNext \/ FetchNext \/ Fetch \/ PreloadNext PROVE volume'[vdb'[r].volume] # "none" \/ Forgetting(r)'
    <3>1. CASE VolumesNext
      BY <1>a, <3>1 DEF VolumesNext, Turn, NodeState, Synced
    <3>2. CASE FetchNext \/ Fetch \/ PreloadNext
      <4>1. UNCHANGED <<volume, vdb, task>> /\ Synced(r)
        BY <3>2 DEF FetchNext, Turn, Fetch, PreloadNext, runtime, db, Synced
      <4> QED BY <4>1, <1>b
    <3> QED BY <2>6, <3>1, <3>2
  <2>7. ASSUME PreloadEnds PROVE volume'[vdb'[r].volume] # "none" \/ Forgetting(r)'
    <3>1. UNCHANGED <<volume, vdb>> /\ \A p \in Tasks : task[p].at = "forget" => task'[p] = task[p]
      BY <2>7 DEF PreloadEnds, runtime, db, Typed, TypeOK, Tasks
    <3>2. node.phase = "preload"
      BY <2>7 DEF PreloadEnds, TasksInPhase
    <3> QED BY <3>1, <3>2, <1>b DEF Synced
  <2>8. ASSUME SetupThrows PROVE FALSE
    BY <1>a, <2>8 DEF SetupThrows, Again, NodeState, Synced
  <2> QED BY <1>1, <2>2, <2>3, <2>4, <2>5, <2>6, <2>7, <2>8 DEF Setup
<1>2. ASSUME NEW p \in Tasks, Download(p) PROVE volume'[vdb'[r].volume] # "none" \/ Forgetting(r)'
  <2>1. CASE CreateVolume(p)
    <3>1. PICK v \in Unknown : /\ task' = [task EXCEPT ![p] = Working("record", @.res, v)]
                               /\ volume' = [volume EXCEPT ![v] = "empty"] /\ UNCHANGED <<vdb, node>>
      BY <2>1 DEF CreateVolume, db
    <3>2. Saved(r) /\ Synced(r) /\ vdb[r].volume \in Volumes /\ vdb[r].volume # v /\ v \in Volumes
      BY <3>1, <1>c DEF Saved, Unknown, Recorded, Typed, TypeOK, VolumeEntry
    <3>3. Forgetting(r) => Forgetting(r)'
      BY <2>1, <3>1 DEF CreateVolume, Forgetting, Typed, TypeOK
    <3>4. volume'[vdb[r].volume] = volume[vdb[r].volume]
      BY <3>1, <3>2 DEF Typed, TypeOK
    <3> QED BY <3>1, <3>2, <3>3, <3>4, StandStill DEF StandsAsBefore
  <2>2. CASE RecordVolume(p)
    <3>1. /\ task[p].at = "record" /\ UNCHANGED <<volume, node>> /\ Moves(p, "start")
          /\ task[p].res \in Res /\ volume[task[p].id] = "empty"
      BY <2>2, AtMoves DEF RecordVolume, runtime, Typed, Busy, VolumesApart
    <3>2. vdb' = [vdb EXCEPT ![task[p].res] = EntryOf(p, TRUE)]
      BY <2>2 DEF RecordVolume
    <3>3. vdb'[task[p].res].volume = task[p].id /\ \A s \in Res \ {task[p].res} : vdb'[s] = vdb[s]
      BY <3>1, <3>2, EntryWritten
    <3>4. CASE r = task[p].res
      BY <3>1, <3>3, <3>4
    <3>5. CASE r # task[p].res
      <4>1. Forgetting(r) => Forgetting(r)'
        BY <3>1 DEF Forgetting, Moves
      <4> QED BY <3>1, <3>3, <3>5, <4>1, <1>c, StandStill DEF StandsAsBefore, Saved
    <3> QED BY <3>4, <3>5
  <2>3. CASE StartDownload(p) \/ DownloadDone(p)
    <3>1. /\ task[p].at \in Filling /\ task[p].at # "forget" /\ node' = node
          /\ UNCHANGED vdb /\ \A q \in Tasks : task[q].at = "forget" => task'[q] = task[q]
      BY <2>3, <1>d DEF StartDownload, DownloadDone, Filling, db
    <3>2. \A v \in Volumes : volume'[v] # "none" \/ volume'[v] = volume[v]
      BY <2>3 DEF StartDownload, DownloadDone, Typed, TypeOK
    <3>3. Saved(r) /\ Synced(r) /\ vdb[r].volume \in Volumes
      BY <3>1, <1>c DEF Saved, Typed, TypeOK, VolumeEntry
    <3> QED BY <3>1, <3>2, <3>3, StandStill DEF StandsAsBefore, Forgetting
  <2>4. CASE DeleteVolume(p)
    <3>1. CASE At(p, "failed") /\ UNCHANGED volume
      BY <2>4, <3>1, <1>b, <1>c, <1>d DEF DeleteVolume, db
    <3>2. CASE At(p, "forget") /\ volume' = [volume EXCEPT ![task[p].id] = "none"]
      <4>1. task[p].at = "delete" /\ vdb' = vdb /\ node' = node /\ task[p].id \in Volumes /\ Moves(p, "forget")
        BY <2>4, <3>2, AtMoves DEF DeleteVolume, db, Typed, Filling
      <4>2. Fills(p, "forget")
        BY <3>2, <4>1 DEF Fills, Filling, Typed, TypeOK
      <4> QED BY <4>1, <4>2, <1>e DEF Filling
    <3> QED BY <2>4, <3>1, <3>2 DEF DeleteVolume
  <2>5. CASE ForgetVolume(p)
    BY <2>5, <1>f DEF ForgetVolume, runtime, Typed, Filling, Busy
  <2>6. CASE SetVolume(p)
    <3>1. task[p].at = "stopping" /\ UNCHANGED <<volume, node>> /\ task[p].res \in Res
      BY <2>6 DEF SetVolume, runtime, Typed, Filling, Busy
    <3>2. vdb' = [vdb EXCEPT ![task[p].res] = EntryOf(p, FALSE)]
      BY <2>6 DEF SetVolume
    <3>3. vdb'[task[p].res].volume = task[p].id /\ \A s \in Res \ {task[p].res} : vdb'[s] = vdb[s]
      BY <3>1, <3>2, EntryWritten
    <3>4. CASE r = task[p].res
      BY <3>1, <3>3, <3>4 DEF TasksHaveTheirEntry
    <3>5. CASE r # task[p].res
      <4>1. Forgetting(r) => Forgetting(r)'
        BY <2>6, <3>1, <1>d DEF SetVolume, Forgetting
      <4> QED BY <3>1, <3>3, <3>5, <4>1, <1>c, StandStill DEF StandsAsBefore, Saved
    <3> QED BY <3>4, <3>5
  <2>7. CASE DownloadFails(p) \/ CallFails(p)
    BY <2>7, <1>b, <1>c, <1>d DEF DownloadFails, CallFails, runtime, db
  <2>8. CASE HasVolume(p)
    <3>1. task[p].at = "check" /\ node' = node /\ volume' = volume /\ task[p].res \in Res
      BY <2>8 DEF HasVolume, runtime, Typed, Filling, Busy
    <3>2. CASE task' = [task EXCEPT ![p] = Working("mount", task[p].res, vdb[task[p].res].volume)] /\ vdb' = vdb
      <4>1. \A q \in Tasks : task[q].at = "forget" => task'[q] = task[q]
        BY <3>1, <3>2 DEF Typed, TypeOK
      <4> QED BY <3>1, <3>2, <4>1, <1>b, <1>c
    <3>3. CASE At(p, "failed") /\ vdb' = [vdb EXCEPT ![task[p].res] = Nothing]
      BY <3>1, <3>3, <1>f
    <3> QED BY <2>8, <3>2, <3>3 DEF HasVolume
  <2> QED BY <1>2, <2>1, <2>2, <2>3, <2>4, <2>5, <2>6, <2>7, <2>8 DEF Download
<1>3. CASE Job
  <2>1. ASSUME TakeJob PROVE volume'[vdb'[r].volume] # "none" \/ Forgetting(r)'
    BY <2>1, <1>b DEF TakeJob, Synced, runtime, db
  <2>2. ASSUME JobOver PROVE FALSE
    BY <1>a, <2>2 DEF JobOver, Again, NodeState, Synced
  <2>3. ASSUME NEW o \in Ops, PullImage(o) \/ OpEnds(o) PROVE volume'[vdb'[r].volume] # "none" \/ Forgetting(r)'
    BY <2>3, <1>b, <1>c, <1>d DEF PullImage, OpEnds, Tasks, runtime, db
  <2>4. ASSUME NEW o \in Ops, RequestVolume(o) PROVE volume'[vdb'[r].volume] # "none" \/ Forgetting(r)'
    <3>1. UNCHANGED <<volume, vdb, node>> /\ \A p \in Tasks : task[p].at = "forget" => task'[p] = task[p]
      BY <2>4 DEF RequestVolume, Request, runtime, db, Typed, TypeOK, Tasks
    <3> QED BY <3>1, <1>b, <1>c
  <2>5. ASSUME NEW o \in Ops, Mount(o) PROVE volume'[vdb'[r].volume] # "none" \/ Forgetting(r)'
    <3>1. UNCHANGED <<vdb, node>> /\ \A q \in Tasks : task[q].at = "forget" => task'[q] = task[q]
      BY <2>5, <1>d DEF Mount, db, Tasks
    <3>2. \A v \in Volumes : volume'[v] # "none" \/ volume'[v] = volume[v]
      BY <2>5 DEF Mount, Typed, TypeOK
    <3>3. Saved(r) /\ Synced(r) /\ vdb[r].volume \in Volumes
      BY <3>1, <1>c DEF Saved, Typed, TypeOK, VolumeEntry
    <3> QED BY <3>1, <3>2, <3>3, StandStill DEF StandsAsBefore, Forgetting
  <2> QED BY <1>3, <2>1, <2>2, <2>3, <2>4, <2>5 DEF Job
<1>4. CASE Age
  BY <1>4, <1>c, Aged, StandStill DEF StandsAsBefore, Forgetting
<1>5. CASE MarketChanges \/ UNCHANGED vars
  BY <1>5, <1>b, <1>c DEF MarketChanges, vars, runtime, db
<1>6. CASE Crash \/ NextProcess
  BY <1>6 DEF Crash, NextProcess, Booted, Synced
<1>7. CASE Prune
  BY <1>7 DEF Prune, TasksInPhase, Synced
<1> QED BY <1>1, <1>2, <1>3, <1>4, <1>5, <1>6, <1>7 DEF Next


LEMMA ImagesStep == Typed /\ ImagesThere /\ PreparedThere /\ [Next]_vars => ImagesThere' /\ PreparedThere'
<1> SUFFICES ASSUME Typed, ImagesThere, PreparedThere, [Next]_vars PROVE ImagesThere' /\ PreparedThere'
  OBVIOUS
<1>a. node \in NodeState /\ image \subseteq Images
  BY DEF Typed, TypeOK
<1>b. ASSUME UNCHANGED <<image, idb, prepared>>, node'.phase \notin {"pull", "preload", "job"}
      PROVE  ImagesThere' /\ PreparedThere'
  BY <1>b DEF ImagesThere, PreparedThere, RequiredImage
<1>c. ASSUME UNCHANGED <<image, idb, prepared, node>> PROVE ImagesThere' /\ PreparedThere'
  BY <1>c DEF ImagesThere, PreparedThere, RequiredImage
<1>1. CASE Setup
  <2>1. ASSUME NEW x, Done(x)
        PROVE  node'.phase = node.phase /\ node'.required = node.required /\ node'.todo = node.todo \ {x}
    BY <1>a, <2>1 DEF Done, NodeState
  <2>2. ASSUME NEW i \in Images, ResyncImage(i) PROVE ImagesThere' /\ PreparedThere'
    <3>1. node'.phase = "images" /\ prepared' = prepared
      BY <2>1, <2>2 DEF ResyncImage
    <3>2. \A j \in image' : j \in image /\ idb'[j] = idb[j]
      BY <1>a, <2>2 DEF ResyncImage, Typed, TypeOK
    <3> QED BY <3>1, <3>2 DEF ImagesThere, PreparedThere, RequiredImage
  <2>3. ASSUME NEW i \in Images, RequireImage(i) PROVE ImagesThere' /\ PreparedThere'
    <3>1. /\ node.phase = "pull" /\ node'.phase = "pull" /\ prepared' = prepared
          /\ node'.required = node.required /\ node'.todo = node.todo \ {i}
      BY <2>1, <2>3 DEF RequireImage
    <3>2. RequiredImage(i)'
      <4> DEFINE e == [required |-> TRUE, old |-> idb[i] # Nothing /\ idb[i].old]
      <4>1. idb'[i] = e
        BY <2>3 DEF RequireImage, Typed, TypeOK
      <4>2. e \in ImageEntry
        BY DEF Typed, TypeOK, ImageEntry
      <4>3. e # Nothing /\ e.required
        BY <4>2, ResourcesAssumption
      <4> HIDE DEF e
      <4> QED BY <4>1, <4>3 DEF RequiredImage
    <3>3. image' = image \cup {i} /\ \A j \in Images \ {i} : idb'[j] = idb[j]
      BY <2>3 DEF RequireImage, Typed, TypeOK
    <3> QED BY <1>a, <3>1, <3>2, <3>3 DEF ImagesThere, PreparedThere, RequiredImage
  <2>4. ASSUME NEW r \in Res, ResyncVolume(r) PROVE ImagesThere' /\ PreparedThere'
    BY <2>1, <2>4, <1>b DEF ResyncVolume
  <2>5. ASSUME NEW r \in Res, SkipVolume(r) PROVE ImagesThere' /\ PreparedThere'
    <3>1. node'.phase = node.phase /\ node'.required = node.required /\ node'.todo = node.todo \ {r}
      BY <2>1, <2>5 DEF SkipVolume
    <3> QED BY <3>1, <2>5, ResourcesAssumption DEF SkipVolume, runtime, db, ImagesThere, PreparedThere, RequiredImage
  <2>6. ASSUME NEW r \in Res, PreloadVolume(r) PROVE ImagesThere' /\ PreparedThere'
    BY <2>6, <1>c DEF PreloadVolume, Request, runtime, db
  <2>7. ASSUME VolumesNext \/ FetchNext PROVE ImagesThere' /\ PreparedThere'
    <3>1. node'.phase \in {"volumes", "fetch"}
      BY <1>a, <2>7 DEF VolumesNext, FetchNext, Turn, NodeState
    <3> QED BY <2>7, <3>1, <1>b DEF VolumesNext, FetchNext, Turn, runtime, db
  <2>8. ASSUME Fetch PROVE ImagesThere' /\ PreparedThere'
    <3>1. /\ node'.phase = "pull" /\ node'.todo = market \cap Images
          /\ node'.required = (node.required \ Images) \cup (market \cap Images)
      BY <1>a, <2>8 DEF Fetch, Given, NodeState
    <3> QED BY <2>8, <3>1 DEF Fetch, runtime, db, ImagesThere, PreparedThere, RequiredImage
  <2>9. ASSUME PreloadNext PROVE ImagesThere' /\ PreparedThere'
    <3>1. /\ node.phase = "pull" /\ node.todo = {} /\ node'.phase = "preload" /\ node'.todo = node.list \cap Res
          /\ node'.required = (node.required \ Res) \cup (node.list \cap Res)
      BY <1>a, <2>9 DEF PreloadNext, Given, NodeState
    <3> QED BY <2>9, <3>1, ResourcesAssumption DEF PreloadNext, runtime, db, ImagesThere, PreparedThere, RequiredImage
  <2>10. ASSUME PreloadEnds PROVE ImagesThere' /\ PreparedThere'
    <3>1. CASE node' = Again
      BY <2>10, <3>1, <1>a, <1>b DEF PreloadEnds, Again, NodeState, runtime, db
    <3>2. CASE Done(task[Preload].res)
      <4>1. /\ node'.phase = node.phase /\ node'.required = node.required
            /\ node'.todo = node.todo \ {task[Preload].res}
        BY <3>2, <2>1
      <4>2. task[Preload].at = "done" => task[Preload].res \in Res
        BY DEF Typed
      <4>3. CASE task[Preload].at = "done"
        BY <2>10, <4>1, <4>2, <4>3, ResourcesAssumption DEF PreloadEnds, runtime, db, ImagesThere, PreparedThere, RequiredImage
      <4>4. CASE task[Preload].at # "done"
        BY <2>10, <4>4, <1>a, <1>b DEF PreloadEnds, Again, NodeState, runtime, db
      <4> QED BY <4>3, <4>4
    <3> QED BY <2>10, <3>1, <3>2 DEF PreloadEnds
  <2>11. ASSUME SetupThrows PROVE ImagesThere' /\ PreparedThere'
    BY <2>11, <1>a, <1>b DEF SetupThrows, Again, NodeState, runtime, db
  <2> QED BY <1>1, <2>2, <2>3, <2>4, <2>5, <2>6, <2>7, <2>8, <2>9, <2>10, <2>11 DEF Setup
<1>2. ASSUME NEW p \in Tasks, Download(p) PROVE UNCHANGED <<image, idb, prepared, node>>
  BY <1>2 DEF Download, CreateVolume, RecordVolume, StartDownload, DownloadDone, DownloadFails, DeleteVolume,
              ForgetVolume, SetVolume, CallFails, HasVolume, runtime, db
<1>3. CASE Job
  <2>1. ASSUME TakeJob PROVE ImagesThere' /\ PreparedThere'
    <3>1. /\ node.phase = "preload" /\ node.todo = {} /\ node'.phase = "job" /\ node'.todo = {}
          /\ node'.required = node.required /\ prepared' = node.required
      BY <1>a, <2>1 DEF TakeJob, NodeState
    <3> QED BY <1>a, <2>1, <3>1 DEF TakeJob, runtime, db, ImagesThere, PreparedThere, RequiredImage
  <2>2. ASSUME JobOver PROVE ImagesThere' /\ PreparedThere'
    BY <2>2, <1>a, <1>b DEF JobOver, Again, NodeState, runtime, db
  <2>3. ASSUME NEW o \in Ops, PullImage(o) PROVE ImagesThere' /\ PreparedThere'
    <3> DEFINE i == Runs[o]
               e == [required |-> idb[i] # Nothing /\ idb[i].required, old |-> FALSE]
    <3>1. i \in Images /\ node.phase = "job" /\ UNCHANGED <<node, prepared>> /\ image' = image \cup {i}
      BY <2>3, ResourcesAssumption DEF PullImage
    <3>2. idb'[i] = e /\ \A j \in Images \ {i} : idb'[j] = idb[j]
      BY <2>3, <3>1 DEF PullImage, Typed, TypeOK
    <3>3. e \in ImageEntry
      BY <3>1 DEF ImageEntry, Typed, TypeOK
    <3>4. e # Nothing /\ (RequiredImage(i) => e.required)
      BY <3>3, ResourcesAssumption DEF RequiredImage
    <3> HIDE DEF e
    <3>5. RequiredImage(i) => RequiredImage(i)'
      BY <3>1, <3>2, <3>4, <2>3 DEF RequiredImage, PullImage
    <3> HIDE DEF i
    <3>6. \A j \in Images : RequiredImage(j) => RequiredImage(j)'
      BY <3>1, <3>2, <3>4, <2>3 DEF RequiredImage, PullImage
    <3>7. i \in prepared => i \in image
      BY <3>1, <1>a DEF ImagesThere, PreparedThere
    <3> QED BY <1>a, <3>1, <3>6, <3>7 DEF ImagesThere, PreparedThere
  <2>4. ASSUME NEW o \in Ops, RequestVolume(o) \/ Mount(o) \/ OpEnds(o) PROVE UNCHANGED <<image, idb, prepared, node>>
    BY <2>4 DEF RequestVolume, Request, Mount, OpEnds, runtime, db
  <2> QED BY <1>3, <1>c, <2>1, <2>2, <2>3, <2>4 DEF Job
<1>4. CASE Age
  BY <1>4, <1>a, Aged DEF ImagesThere, PreparedThere
<1>5. CASE MarketChanges \/ UNCHANGED vars
  BY <1>5, <1>c DEF MarketChanges, vars, runtime, db
<1>6. CASE Crash \/ NextProcess
  BY <1>6, <1>b DEF Crash, NextProcess, Booted, runtime, db
<1>7. CASE Prune
  <2>1. node' = node /\ node.phase = "down" /\ prepared' = prepared
    BY <1>7 DEF Prune
  <2>2. \A i \in image' : RequiredImage(i) /\ idb'[i] = idb[i]
    BY <1>7, <1>a DEF Prune, Typed, TypeOK
  <2> QED BY <2>1, <2>2 DEF ImagesThere, PreparedThere, RequiredImage
<1> QED BY <1>c, <1>1, <1>2, <1>3, <1>4, <1>5, <1>6, <1>7 DEF Next

LEMMA VolumesThereStep == Relied /\ VolumesThere /\ [Next]_vars /\ EntriesAreTrue' => VolumesThere'
<1> SUFFICES ASSUME Relied, VolumesThere, [Next]_vars, EntriesAreTrue', node'.phase = "preload",
                    NEW r \in Res, r \in node'.required, r \notin node'.todo
             PROVE  Complete(r)'
  BY DEF VolumesThere
<1> USE DEF Relied, EntriesAreTrue
<1>a. node \in NodeState
  BY DEF Typed, TypeOK
<1>b. ASSUME node' = node, UNCHANGED <<volume, vdb>> PROVE Complete(r)'
  BY <1>b DEF VolumesThere, Complete, Saved
<1>c. ASSUME node' = node PROVE Complete(r) /\ vdb[r].volume \in Volumes
  BY <1>c DEF VolumesThere, Complete, Saved, Typed, TypeOK, VolumeEntry
<1>1. CASE Setup
  <2>1. ASSUME NEW x, Done(x)
        PROVE  node'.phase = node.phase /\ node'.required = node.required /\ node'.todo = node.todo \ {x}
    BY <1>a, <2>1 DEF Done, NodeState
  <2>2. ASSUME NEW i \in Images, ResyncImage(i) \/ RequireImage(i) PROVE FALSE
    BY <2>1, <2>2 DEF ResyncImage, RequireImage
  <2>3. ASSUME NEW q \in Res, ResyncVolume(q) PROVE FALSE
    BY <2>1, <2>3 DEF ResyncVolume
  <2>4. ASSUME NEW q \in Res, SkipVolume(q) PROVE Complete(r)'
    <3>1. /\ node.phase = "preload" /\ node'.required = node.required /\ node'.todo = node.todo \ {q}
          /\ UNCHANGED <<volume, vdb>>
      BY <2>1, <2>4 DEF SkipVolume, runtime, db
    <3>2. CASE r = q
      <4>1. Saved(q) /\ ~vdb[q].pending /\ volume[vdb[q].volume] \in {"none", "complete"}
        BY <2>4 DEF SkipVolume, Skipped, Saved, SavedIsComplete
      <4>2. ~Forgetting(q)
        BY <2>4, <3>1 DEF SkipVolume, Forgetting, TasksInPhase, Tasks
      <4> QED BY <3>1, <3>2, <4>1, <4>2 DEF EntriesStand, Synced, Complete, Saved
    <3>3. CASE r # q
      BY <3>1, <3>3 DEF VolumesThere, Complete, Saved
    <3> QED BY <3>2, <3>3
  <2>5. ASSUME NEW q \in Res, PreloadVolume(q) PROVE Complete(r)'
    BY <2>5, <1>b DEF PreloadVolume, Request, runtime, db
  <2>6. ASSUME VolumesNext \/ FetchNext \/ Fetch \/ SetupThrows PROVE FALSE
    BY <1>a, <2>6 DEF VolumesNext, FetchNext, Turn, Fetch, Given, SetupThrows, Again, NodeState
  <2>7. ASSUME PreloadNext PROVE FALSE
    BY <1>a, <2>7 DEF PreloadNext, Given, NodeState
  <2>8. ASSUME PreloadEnds PROVE Complete(r)'
    <3>1. CASE task[Preload].at = "done"
      <4>1. /\ node.phase = "preload" /\ node'.required = node.required
            /\ node'.todo = node.todo \ {task[Preload].res} /\ UNCHANGED <<volume, vdb>>
        BY <2>1, <2>8, <3>1 DEF PreloadEnds, runtime, db
      <4> QED BY <3>1, <4>1 DEF VolumesThere, PreloadIsComplete, Complete, Saved
    <3>2. CASE task[Preload].at # "done"
      BY <1>a, <2>8, <3>2 DEF PreloadEnds, Again, NodeState
    <3> QED BY <3>1, <3>2
  <2> QED BY <1>1, <2>2, <2>3, <2>4, <2>5, <2>6, <2>7, <2>8 DEF Setup
<1>2. ASSUME NEW p \in Tasks, Download(p) PROVE Complete(r)'
  <2>0. node' = node
    BY <1>2 DEF Download, CreateVolume, RecordVolume, StartDownload, DownloadDone, DownloadFails, DeleteVolume,
                ForgetVolume, SetVolume, CallFails, HasVolume
  <2>1. task[p].at # "idle"
    BY <1>2 DEF Download, CreateVolume, RecordVolume, StartDownload, DownloadDone, DownloadFails, DeleteVolume,
                ForgetVolume, SetVolume, CallFails, HasVolume
  <2>2. p = Preload /\ task[p].res # r
    BY <2>0, <2>1 DEF TasksInPhase, Tasks
  <2>3. Complete(r) /\ vdb[r].volume \in Volumes
    BY <2>0, <1>c
  <2>4. vdb'[r] = vdb[r]
    BY <1>2, <2>2 DEF Download, CreateVolume, RecordVolume, StartDownload, DownloadDone, DownloadFails, DeleteVolume,
                ForgetVolume, SetVolume, CallFails, HasVolume, db, Typed, TypeOK
  <2>5. task[p].at \in Filling => vdb[r].volume # task[p].id
    BY <2>2, <2>3, OthersStand DEF Complete
  <2>6. CASE CreateVolume(p)
    <3>1. PICK v \in Unknown : volume' = [volume EXCEPT ![v] = "empty"]
      BY <2>6 DEF CreateVolume
    <3>2. vdb[r].volume # v
      BY <2>3, <3>1 DEF Unknown, Recorded, Complete, Saved
    <3> QED BY <2>3, <2>4, <3>1, <3>2 DEF Complete, Saved, Typed, TypeOK
  <2>7. CASE RecordVolume(p) \/ DownloadFails(p) \/ ForgetVolume(p) \/ SetVolume(p) \/ CallFails(p) \/ HasVolume(p)
    <3>1. volume' = volume
      BY <2>7 DEF RecordVolume, DownloadFails, ForgetVolume, SetVolume, CallFails, HasVolume, runtime
    <3> QED BY <2>3, <2>4, <3>1 DEF Complete, Saved
  <2>8. CASE StartDownload(p) \/ DownloadDone(p) \/ DeleteVolume(p)
    <3>1. vdb[r].volume # task[p].id
      BY <2>5, <2>8 DEF StartDownload, DownloadDone, DeleteVolume, Filling
    <3>2. volume'[vdb[r].volume] = volume[vdb[r].volume]
      BY <2>3, <2>8, <3>1 DEF StartDownload, DownloadDone, DeleteVolume, Typed, TypeOK
    <3> QED BY <2>3, <2>4, <3>2 DEF Complete, Saved
  <2> QED BY <1>2, <2>6, <2>7, <2>8 DEF Download
<1>3. CASE Job
  <2>1. ASSUME TakeJob \/ JobOver PROVE FALSE
    BY <1>a, <2>1 DEF TakeJob, JobOver, Again, NodeState
  <2>2. ASSUME NEW o \in Ops, PullImage(o) \/ RequestVolume(o) \/ Mount(o) \/ OpEnds(o) PROVE FALSE
    BY <2>2 DEF PullImage, RequestVolume, Request, Mount, OpEnds, TasksInPhase
  <2> QED BY <1>3, <2>1, <2>2 DEF Job
<1>4. CASE Age
  BY <1>4, <1>c, Aged DEF Complete
<1>5. CASE MarketChanges \/ UNCHANGED vars
  BY <1>5, <1>b DEF MarketChanges, vars, runtime, db
<1>6. CASE Crash \/ NextProcess \/ Prune
  BY <1>6 DEF Crash, NextProcess, Booted, Prune
<1> QED BY <1>1, <1>2, <1>3, <1>4, <1>5, <1>6 DEF Next


LEMMA NewAndGoneStep == Relied /\ NewAndGone /\ [Next]_vars => NewAndGone'
<1> SUFFICES ASSUME Relied, NewAndGone, [Next]_vars PROVE NewAndGone'
  OBVIOUS
<1> USE DEF Relied, EntriesAreTrue
<1>a. ASSUME UNCHANGED <<volume, vdb, task>> PROVE NewAndGone'
  BY <1>a DEF NewAndGone, Saved
<1>b. ASSUME \A p \in Tasks : task'[p].at = "idle" PROVE NewAndGone'
  BY <1>b DEF NewAndGone
<1>c. ASSUME NEW p \in Tasks, NEW s, Moves(p, s), UNCHANGED <<volume, vdb>>, s \notin {"create", "record", "forget"}
      PROVE  NewAndGone'
  BY <1>c DEF NewAndGone, Moves, Saved
<1>d. ASSUME NEW p \in Tasks, NEW s, Fills(p, s), task[p].at \in Filling, s = "forget" => volume'[task[p].id] = "none"
      PROVE  NewAndGone'
  <2>1. /\ \A q \in Tasks \ {p} : task[q].at \in Filling => task[q].id # task[p].id
    BY <1>d, OthersStand
  <2> QED BY <1>d, <2>1 DEF NewAndGone, Fills, Moves, Saved, Typed, Filling
<1>e. ASSUME NEW p \in Tasks, NEW s, Moves(p, s), volume' = volume, task[p].at \in Busy, task[p].res \in Res,
             \A x \in Res \ {task[p].res} : vdb'[x] = vdb[x], s \notin {"create", "record", "forget"}
      PROVE  NewAndGone'
  <2>1. \A q \in Tasks \ {p} : task[q].at \in Busy => task[q].res # task[p].res /\ task[q].res \in Res
    BY <1>e, DownloadsApart DEF Typed
  <2> QED BY <1>e, <2>1 DEF NewAndGone, Moves, Saved, Busy
<1>f. ASSUME NEW p \in Tasks, NEW r \in Res, Request(p, r) PROVE NewAndGone'
  <2>1. /\ UNCHANGED <<volume, vdb>> /\ \A q \in Tasks \ {p} : task'[q] = task[q]
        /\ task'[p].res = r /\ task'[p].at \in {"start", "create"} /\ (task'[p].at = "create" => ~Saved(r))
    BY <1>f DEF Request, Working, Saved, Typed, TypeOK, runtime, db
  <2> QED BY <2>1 DEF NewAndGone, Saved
<1>1. CASE Setup
  <2>1. ASSUME NEW i \in Images, ResyncImage(i) \/ RequireImage(i) PROVE NewAndGone'
    BY <1>a, <2>1 DEF ResyncImage, RequireImage
  <2>2. ASSUME NEW r \in Res, ResyncVolume(r) PROVE NewAndGone'
    BY <1>b, <2>2 DEF ResyncVolume, TasksInPhase, Tasks
  <2>3. ASSUME NEW r \in Res, SkipVolume(r) PROVE NewAndGone'
    BY <1>a, <2>3 DEF SkipVolume, runtime, db
  <2>4. ASSUME NEW r \in Res, PreloadVolume(r) PROVE NewAndGone'
    BY <1>f, <2>4 DEF PreloadVolume, Tasks
  <2>5. ASSUME VolumesNext \/ FetchNext \/ Fetch \/ PreloadNext \/ SetupThrows PROVE NewAndGone'
    BY <1>a, <2>5 DEF VolumesNext, FetchNext, Turn, Fetch, PreloadNext, SetupThrows, runtime, db
  <2>6. ASSUME PreloadEnds PROVE NewAndGone'
    <3>1. \A o \in Ops : task[o].at = "idle"
      BY <2>6 DEF PreloadEnds, TasksInPhase
    <3> QED BY <1>b, <2>6, <3>1 DEF PreloadEnds, Idle, Working, Tasks, Typed, TypeOK
  <2> QED BY <1>1, <2>1, <2>2, <2>3, <2>4, <2>5, <2>6 DEF Setup
<1>2. ASSUME NEW p \in Tasks, Download(p) PROVE NewAndGone'
  <2>1. CASE CreateVolume(p)
    <3>1. PICK v \in Unknown : /\ task' = [task EXCEPT ![p] = Working("record", @.res, v)]
                               /\ volume' = [volume EXCEPT ![v] = "empty"] /\ vdb' = vdb
      BY <2>1 DEF CreateVolume, db
    <3>2. /\ task'[p].at = "record" /\ task'[p].res = task[p].res /\ task[p].at = "create"
          /\ \A q \in Tasks \ {p} : task'[q] = task[q]
      BY <2>1, <3>1 DEF CreateVolume, Working, Typed, TypeOK
    <3>3. \A q \in Tasks : task[q].id # v
      BY <3>1 DEF Unknown
    <3>4. \A w \in Volumes \ {v} : volume'[w] = volume[w]
      BY <3>1 DEF Typed, TypeOK
    <3> QED BY <3>1, <3>2, <3>3, <3>4 DEF NewAndGone, Saved, Typed, Filling
  <2>2. CASE RecordVolume(p) \/ SetVolume(p) \/ ForgetVolume(p)
    <3>1. /\ task[p].at \in {"record", "stopping", "forget"} /\ volume' = volume
          /\ \A x \in Res \ {task[p].res} : vdb'[x] = vdb[x]
      BY <2>2 DEF RecordVolume, SetVolume, ForgetVolume, runtime, Typed, TypeOK
    <3>2. \/ Moves(p, "start") \/ Moves(p, "failed") \/ Moves(p, "done") \/ Moves(p, "check")
      BY <2>2, AtMoves DEF RecordVolume, SetVolume, ForgetVolume
    <3>3. task[p].at \in Busy /\ task[p].res \in Res
      BY <3>1 DEF Typed, Busy, Filling
    <3> QED BY <3>1, <3>2, <3>3, <1>e
  <2>3. CASE StartDownload(p) \/ DownloadDone(p)
    <3>1. task[p].at \in {"start", "running"} /\ vdb' = vdb /\ task[p].id \in Volumes
      BY <2>3 DEF StartDownload, DownloadDone, db, Typed, Filling
    <3>2. \A q \in Tasks \ {p} : task[q].at \in Filling => task[q].id # task[p].id
      BY <3>1, OthersStand DEF Filling
    <3>3. \A w \in Volumes \ {task[p].id} : volume'[w] = volume[w]
      BY <2>3, <3>1 DEF StartDownload, DownloadDone, Typed, TypeOK
    <3>4. Moves(p, "running") \/ Moves(p, "stopping")
      BY <2>3, AtMoves DEF StartDownload, DownloadDone
    <3> QED BY <3>1, <3>2, <3>3, <3>4 DEF NewAndGone, Moves, Saved, Typed, Filling
  <2>4. CASE DeleteVolume(p)
    <3>1. CASE At(p, "failed") /\ UNCHANGED volume
      BY <2>4, <3>1, <1>c, AtMoves DEF DeleteVolume, db
    <3>2. CASE At(p, "forget") /\ volume' = [volume EXCEPT ![task[p].id] = "none"]
      <4>1. task[p].at = "delete" /\ vdb' = vdb /\ task[p].id \in Volumes /\ Moves(p, "forget")
        BY <2>4, <3>2, AtMoves DEF DeleteVolume, db, Typed, Filling
      <4>2. Fills(p, "forget") /\ volume'[task[p].id] = "none"
        BY <3>2, <4>1 DEF Fills, Filling, Typed, TypeOK
      <4> QED BY <4>1, <4>2, <1>d DEF Filling
    <3> QED BY <2>4, <3>1, <3>2 DEF DeleteVolume
  <2>5. CASE DownloadFails(p) \/ CallFails(p)
    <3>1. UNCHANGED <<volume, vdb>> /\ (Moves(p, "delete") \/ Moves(p, "failed"))
      BY <2>5, AtMoves DEF DownloadFails, CallFails, runtime, db
    <3> QED BY <3>1, <1>c
  <2>6. CASE HasVolume(p)
    <3>1. task[p].at = "check" /\ volume' = volume /\ task[p].res \in Res
      BY <2>6 DEF HasVolume, runtime, Typed, Filling, Busy
    <3>2. CASE task' = [task EXCEPT ![p] = Working("mount", task[p].res, vdb[task[p].res].volume)] /\ vdb' = vdb
      <4>1. task'[p].at = "mount" /\ \A q \in Tasks \ {p} : task'[q] = task[q]
        BY <3>2 DEF Working, Typed, TypeOK
      <4> QED BY <3>1, <3>2, <4>1 DEF NewAndGone, Saved
    <3>3. CASE At(p, "failed") /\ vdb' = [vdb EXCEPT ![task[p].res] = Nothing]
      <4>1. Moves(p, "failed")
        BY <3>3, AtMoves
      <4>2. \A x \in Res \ {task[p].res} : vdb'[x] = vdb[x]
        BY <3>1, <3>3 DEF Typed, TypeOK
      <4> QED BY <3>1, <4>1, <4>2, <1>e DEF Busy, Filling
    <3> QED BY <2>6, <3>2, <3>3 DEF HasVolume
  <2> QED BY <1>2, <2>1, <2>2, <2>3, <2>4, <2>5, <2>6 DEF Download
<1>3. CASE Job
  <2>1. ASSUME TakeJob PROVE NewAndGone'
    BY <2>1, <1>a DEF TakeJob, runtime, db
  <2>2. ASSUME JobOver PROVE NewAndGone'
    BY <2>2, <1>b DEF JobOver, AllIdle, Idle, Working
  <2>3. ASSUME NEW o \in Ops, PullImage(o) \/ OpEnds(o) PROVE NewAndGone'
    <3>1. UNCHANGED <<volume, vdb>> /\ (Moves(o, "pulled") \/ Moves(o, "done")) /\ o \in Tasks
      BY <2>3, AtMoves DEF PullImage, OpEnds, runtime, db, Tasks
    <3> QED BY <3>1, <1>c
  <2>4. ASSUME NEW o \in Ops, RequestVolume(o) PROVE NewAndGone'
    BY <2>4, <1>f, ResourcesAssumption DEF RequestVolume, Tasks
  <2>5. ASSUME NEW o \in Ops, Mount(o) PROVE NewAndGone'
    <3>1. o \in Tasks /\ task[o].at = "mount" /\ Moves(o, "on") /\ UNCHANGED <<volume, vdb>>
      <4>1. task[o].at = "mount" /\ volume[task[o].id] = "complete" /\ o \in Tasks
        BY <2>5 DEF Mount, TasksHaveTheirEntry, Tasks
      <4>2. volume' = volume
        BY <2>5, <4>1 DEF Mount, Typed, TypeOK, Filling
      <4> QED BY <2>5, <4>1, <4>2, AtMoves DEF Mount, db
    <3> QED BY <3>1, <1>c
  <2> QED BY <1>3, <2>1, <2>2, <2>3, <2>4, <2>5 DEF Job
<1>4. CASE Age
  BY <1>4, Aged DEF NewAndGone, Typed, Busy
<1>5. CASE MarketChanges \/ NextProcess \/ UNCHANGED vars
  BY <1>5, <1>a DEF MarketChanges, NextProcess, vars, runtime, db
<1>6. CASE Crash
  BY <1>6, <1>b DEF Crash, AllIdle, Idle, Working
<1>7. CASE Prune
  BY <1>7, <1>b DEF Prune, TasksInPhase, Tasks
<1> QED BY <1>1, <1>2, <1>3, <1>4, <1>5, <1>6, <1>7 DEF Next

\* What becomes of an entry that named the volume, when its volume still has something in it.
LEMMA KnownStep == Relied /\ NewAndGone /\ ~ListMayFail /\ VolumesAreKnown /\ [Next]_vars => VolumesAreKnown'
<1> SUFFICES ASSUME Relied, NewAndGone, ~ListMayFail, VolumesAreKnown, [Next]_vars,
                    NEW v \in Volumes, volume'[v] \in {"partial", "complete"}
             PROVE  \E r \in Res : Saved(r)' /\ vdb'[r].volume = v
  BY DEF VolumesAreKnown, Recorded, Saved
<1> USE DEF Relied, EntriesAreTrue
<1>a. ASSUME volume[v] \in {"partial", "complete"} PROVE \E r \in Res : Saved(r) /\ vdb[r].volume = v
  BY <1>a DEF VolumesAreKnown, Recorded, Saved
<1>b. ASSUME volume'[v] = volume[v], vdb' = vdb PROVE \E r \in Res : Saved(r)' /\ vdb'[r].volume = v
  BY <1>a, <1>b DEF Saved
<1>1. CASE Setup
  <2>1. ASSUME NEW r \in Res, ResyncVolume(r) PROVE \E q \in Res : Saved(q)' /\ vdb'[q].volume = v
    <3>1. volume'[v] = volume[v]
      BY <2>1 DEF ResyncVolume, Typed, TypeOK
    <3>2. PICK q \in Res : Saved(q) /\ vdb[q].volume = v
      BY <1>a, <3>1
    <3>3. vdb'[q] = vdb[q]
      BY <2>1, <3>1, <3>2 DEF ResyncVolume, Saved, Typed, TypeOK
    <3> QED BY <3>2, <3>3 DEF Saved
  <2>2. ASSUME ~(\E r \in Res : ResyncVolume(r)) PROVE UNCHANGED <<volume, vdb>>
    BY <1>1, <2>2 DEF Setup, ResyncImage, RequireImage, SkipVolume, PreloadVolume, Request, VolumesNext, FetchNext, Turn,
                      Fetch, PreloadNext, PreloadEnds, SetupThrows, runtime, db
  <2> QED BY <1>b, <2>1, <2>2
<1>2. ASSUME NEW p \in Tasks, Download(p) PROVE \E q \in Res : Saved(q)' /\ vdb'[q].volume = v
  <2>1. CASE CreateVolume(p)
    <3>1. PICK w \in Volumes : volume' = [volume EXCEPT ![w] = "empty"]
      BY <2>1 DEF CreateVolume, Unknown
    <3>2. volume'[v] = volume[v] /\ vdb' = vdb
      BY <2>1, <3>1 DEF CreateVolume, db, Typed, TypeOK
    <3> QED BY <3>2, <1>b
  <2>2. CASE RecordVolume(p)
    <3>1. /\ volume' = volume /\ ~Saved(task[p].res) /\ task[p].res \in Res
          /\ \A x \in Res \ {task[p].res} : vdb'[x] = vdb[x]
      BY <2>2 DEF RecordVolume, NewAndGone, runtime, Typed, TypeOK, Busy
    <3> QED BY <3>1, <1>a DEF Saved
  <2>3. CASE StartDownload(p) \/ DownloadDone(p) \/ DeleteVolume(p)
    <3>1. /\ task[p].at \in Filling /\ vdb' = vdb /\ task[p].id \in Volumes
          /\ \A w \in Volumes \ {task[p].id} : volume'[w] = volume[w]
      BY <2>3 DEF StartDownload, DownloadDone, DeleteVolume, db, Filling, Typed, TypeOK
    <3>2. CASE v = task[p].id
      <4>1. task[p].res \in Res /\ Saved(task[p].res) /\ task[p].id = vdb[task[p].res].volume
        BY <3>1, OthersStand
      <4> QED BY <3>1, <3>2, <4>1 DEF Saved
    <3>3. CASE v # task[p].id
      BY <3>1, <3>3, <1>b
    <3> QED BY <3>2, <3>3
  <2>4. CASE ForgetVolume(p)
    <3>1. /\ task[p].at = "forget" /\ volume' = volume /\ task[p].res \in Res
          /\ \A x \in Res \ {task[p].res} : vdb'[x] = vdb[x]
      BY <2>4 DEF ForgetVolume, runtime, Typed, TypeOK, Filling, Busy
    <3>2. volume[vdb[task[p].res].volume] = "none"
      BY <3>1 DEF NewAndGone, TasksHaveTheirEntry, Filling
    <3> QED BY <3>1, <3>2, <1>a DEF Saved
  <2>5. CASE SetVolume(p)
    <3>1. /\ task[p].at = "stopping" /\ volume' = volume /\ task[p].res \in Res
          /\ vdb' = [vdb EXCEPT ![task[p].res] = EntryOf(p, FALSE)]
      BY <2>5 DEF SetVolume, runtime, Typed, Filling, Busy
    <3>2. /\ vdb'[task[p].res] # Nothing /\ vdb'[task[p].res].volume = vdb[task[p].res].volume
          /\ \A x \in Res \ {task[p].res} : vdb'[x] = vdb[x]
      BY <3>1, EntryWritten DEF TasksHaveTheirEntry, Filling
    <3> QED BY <3>1, <3>2, <1>a DEF Saved
  <2>6. CASE DownloadFails(p) \/ CallFails(p)
    BY <2>6, <1>b DEF DownloadFails, CallFails, runtime, db
  <2>7. CASE HasVolume(p)
    <3>1. vdb[task[p].res] # Nothing /\ volume[vdb[task[p].res].volume] = "complete"
      BY <2>7 DEF HasVolume, TasksHaveTheirEntry, Filling, Saved
    <3> QED BY <2>7, <3>1, <1>b DEF HasVolume, runtime
  <2> QED BY <1>2, <2>1, <2>2, <2>3, <2>4, <2>5, <2>6, <2>7 DEF Download
<1>3. CASE Job
  <2>1. ASSUME NEW o \in Ops, Mount(o) PROVE \E q \in Res : Saved(q)' /\ vdb'[q].volume = v
    <3>1. volume'[v] = volume[v] /\ vdb' = vdb
      BY <2>1 DEF Mount, db, Typed, TypeOK
    <3> QED BY <3>1, <1>b
  <2>2. ASSUME ~(\E o \in Ops : Mount(o)) PROVE UNCHANGED <<volume, vdb>>
    BY <1>3, <2>2 DEF Job, TakeJob, JobOver, PullImage, RequestVolume, Request, OpEnds, runtime, db
  <2> QED BY <1>b, <2>1, <2>2
<1>4. CASE Age
  <2>1. volume' = volume /\ \A r \in Res : Saved(r) => Saved(r)' /\ vdb'[r].volume = vdb[r].volume
    BY <1>4, Aged
  <2> QED BY <2>1, <1>a
<1>5. CASE MarketChanges \/ Crash \/ NextProcess \/ UNCHANGED vars
  BY <1>5, <1>b DEF MarketChanges, Crash, NextProcess, vars, runtime, db
<1>6. CASE Prune
  <2>1. RequiredVolume(v)
    BY <1>6 DEF Prune
  <2>2. PICK r \in Res : vdb[r] # Nothing /\ vdb[r].volume = v /\ vdb[r].required
    BY <2>1 DEF RequiredVolume
  <2>3. vdb'[r] = vdb[r]
    BY <1>6, <2>2 DEF Prune
  <2> QED BY <2>2, <2>3 DEF Saved
<1> QED BY <1>1, <1>2, <1>3, <1>4, <1>5, <1>6 DEF Next

-----------------------------------------------------------------------------
(* The theorems.                                                               *)

LEMMA InitConsistent == OwnResources /\ Init => Consistent /\ VolumesAreKnown
<1> SUFFICES ASSUME OwnResources, Init PROVE Consistent /\ VolumesAreKnown
  OBVIOUS
<1>1. /\ \A p \in Tasks : task[p].at = "idle"
      /\ \A r \in Res : ~Saved(r)
      /\ node.phase = "images" /\ node.required = {} /\ prepared = {}
  BY DEF Init, AllIdle, Idle, Working, Saved, Booted
<1>2. TasksInPhase /\ VolumesApart /\ TasksHaveTheirEntry /\ PreloadIsComplete /\ NewAndGone
  BY <1>1 DEF TasksInPhase, VolumesApart, TasksHaveTheirEntry, PreloadIsComplete, NewAndGone, Filling, Busy, Tasks
<1>3. SavedIsComplete
  BY <1>1 DEF SavedIsComplete, Saved
<1>e. EntriesStand
  BY <1>1 DEF EntriesStand, Saved
<1>4. ImagesThere /\ PreparedThere /\ VolumesThere
  BY <1>1 DEF ImagesThere, PreparedThere, VolumesThere
<1>5. VolumesAreKnown
  BY DEF Init, VolumesAreKnown
<1> QED BY <1>2, <1>3, <1>e, <1>4, <1>5, InitTyped DEF Consistent, Relied, EntriesAreTrue, RequiredIsThere

LEMMA ConsistentStep == Consistent /\ [Next]_vars => Consistent'
<1> SUFFICES ASSUME Consistent, [Next]_vars PROVE Consistent'
  OBVIOUS
<1>1. Typed' /\ TasksInPhase'
  BY TypedStep, TasksInPhaseStep DEF Consistent, Relied
<1>2. EntriesAreTrue'
  BY EntriesAreTrueStep DEF Consistent
<1>3. EntriesStand'
  BY <1>2, StandStep DEF Consistent
<1>4. NewAndGone'
  BY NewAndGoneStep DEF Consistent
<1>5. ImagesThere' /\ PreparedThere'
  BY ImagesStep DEF Consistent, Relied, RequiredIsThere
<1>6. VolumesThere'
  BY <1>2, VolumesThereStep DEF Consistent, RequiredIsThere
<1>7. OwnResources'
  BY DEF Consistent, Relied, OwnResources
<1> QED BY <1>1, <1>2, <1>3, <1>4, <1>5, <1>6, <1>7 DEF Consistent, Relied, RequiredIsThere

\* An op runs on a complete resource, whatever fails, dies, ages or is pruned before: as long as no two
\* ops of a job want the same resource (createRemoteVolume, getResourceVolumes).
THEOREM OpsHaveTheirResourceAlways == ASSUME OwnResources PROVE Spec => []OpsHaveTheirResource
<1>1. Init => Consistent
  BY InitConsistent
<1>2. Consistent => OpsHaveTheirResource
  BY DEF Consistent, Relied, EntriesAreTrue, TasksHaveTheirEntry, OpsHaveTheirResource, Tasks
<1> QED BY <1>1, <1>2, ConsistentStep, PTL DEF Spec

\* The database is true of the volumes at every moment, so that a death of the process at any of them
\* leaves nothing half filled that a preload would skip, and nothing filled that no record names: as
\* long as no two ops want the same resource and a listing that fails is not taken for a no.
THEOREM DatabaseIsTrueAlways == ASSUME OwnResources, ~ListMayFail PROVE Spec => []DatabaseIsTrue
<1>1. Init => Consistent /\ VolumesAreKnown
  BY InitConsistent
<1>2. Consistent /\ VolumesAreKnown /\ [Next]_vars => Consistent' /\ VolumesAreKnown'
  BY ConsistentStep, KnownStep DEF Consistent
<1>3. Consistent /\ VolumesAreKnown => DatabaseIsTrue
  BY DEF Consistent, Relied, EntriesAreTrue, DatabaseIsTrue
<1> QED BY <1>1, <1>2, <1>3, PTL DEF Spec

\* What the market required when the node took a job is there, complete, at that moment, and prune
\* removes no image the last preload prepared (fetchMarketRequiredResources, ImageManager.pruneImages).
LEMMA RequiredStep ==
    Consistent /\ [Next]_vars =>
        /\ node.phase = "preload" /\ node'.phase = "job" =>
              /\ node.required \cap Images \subseteq image
              /\ \A r \in node.required \cap Res : vdb[r] # Nothing /\ volume[vdb[r].volume] = "complete"
        /\ node.phase = "down" => prepared \cap image \subseteq image'
<1> SUFFICES ASSUME Consistent, [Next]_vars
             PROVE  /\ node.phase = "preload" /\ node'.phase = "job" =>
                          /\ node.required \cap Images \subseteq image
                          /\ \A r \in node.required \cap Res : vdb[r] # Nothing /\ volume[vdb[r].volume] = "complete"
                    /\ node.phase = "down" => prepared \cap image \subseteq image'
  OBVIOUS
<1> USE DEF Consistent, Relied, RequiredIsThere
<1>a. node \in NodeState
  BY DEF Typed, TypeOK
<1>1. ASSUME node.phase = "preload", node'.phase = "job" PROVE node.todo = {}
  <2>1. ASSUME NEW x, Done(x) PROVE node'.phase = node.phase
    BY <1>a, <2>1 DEF Done, NodeState
  <2>2. ~Setup
    BY <1>a, <1>1, <2>1 DEF Setup, ResyncImage, RequireImage, ResyncVolume, SkipVolume, PreloadVolume, Request,
        VolumesNext, FetchNext, Turn, Fetch, PreloadNext, PreloadEnds, SetupThrows, Again, NodeState
  <2>3. ASSUME NEW p \in Tasks, Download(p) PROVE FALSE
    BY <1>1, <2>3 DEF Download, CreateVolume, RecordVolume, StartDownload, DownloadDone, DownloadFails, DeleteVolume,
                ForgetVolume, SetVolume, CallFails, HasVolume
  <2>4. ~(Age \/ MarketChanges \/ Crash \/ NextProcess \/ Prune \/ UNCHANGED vars)
    BY <1>1 DEF Age, MarketChanges, Crash, NextProcess, Prune, vars, Booted
  <2>5. CASE Job
    BY <1>1, <2>5 DEF Job, TakeJob, JobOver, PullImage, RequestVolume, Request, Mount, OpEnds
  <2> QED BY <2>2, <2>3, <2>4, <2>5 DEF Next
<1>2. ASSUME node.phase = "down" PROVE prepared \cap image \subseteq image'
  <2>1. CASE Prune
    BY <2>1 DEF Prune, PreparedThere
  <2>2. CASE ~Prune
    <3>1. ~Setup
      <4>1. ~PreloadEnds
        BY <1>2 DEF PreloadEnds, TasksInPhase
      <4> QED BY <1>2, <4>1 DEF Setup, ResyncImage, RequireImage, ResyncVolume, SkipVolume, PreloadVolume,
          VolumesNext, FetchNext, Turn, Fetch, PreloadNext, SetupThrows
    <3>2. ASSUME NEW p \in Tasks, Download(p) PROVE image' = image
      BY <3>2 DEF Download, CreateVolume, RecordVolume, StartDownload, DownloadDone, DownloadFails, DeleteVolume,
                ForgetVolume, SetVolume, CallFails, HasVolume, runtime
    <3>3. CASE Job
      BY <1>2, <3>3 DEF Job, TakeJob, JobOver, PullImage, RequestVolume, Request, Mount, OpEnds, runtime
    <3>4. CASE Age \/ MarketChanges \/ Crash \/ NextProcess \/ UNCHANGED vars
      BY <3>4 DEF Age, MarketChanges, Crash, NextProcess, vars, runtime
    <3> QED BY <2>2, <3>1, <3>2, <3>3, <3>4 DEF Next
  <2> QED BY <2>1, <2>2
<1> QED BY <1>1, <1>2 DEF ImagesThere, VolumesThere, Complete, Saved

\* What a market requires is there when a job needs it: the preload brings it and prune leaves it
\* (fetchMarketRequiredResources, ImageManager.pruneImages).
THEOREM RequiredIsKeptAlways == ASSUME OwnResources PROVE Spec => RequiredIsKept
<1>1. Init => Consistent
  BY InitConsistent
<1> QED BY <1>1, ConsistentStep, RequiredStep, PTL DEF Spec, RequiredIsKept, JobsFindRequired, PruneKeepsImages
=============================================================================
