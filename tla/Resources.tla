------------------------------ MODULE Resources -----------------------------
(***************************************************************************)
(* The images and the volumes of remote resources a node keeps: what its   *)
(* database says of them against what the container runtime holds, through *)
(* the resync and the preload of every setup(), the downloads of the ops   *)
(* of a job, deaths of the process, and `nosana node prune`, which runs as *)
(* a process of its own on the same database.                              *)
(*                                                                         *)
(* A step of an async function between two awaits is one action.  The      *)
(* database is written on every update (NodeRepository.persist), so that   *)
(* what a dead process leaves is what it had in memory.                    *)
(*                                                                         *)
(* Left out: what is downloaded and reported, the buckets of a resource    *)
(* (its containers run one after the other, here as one), usage counts,    *)
(* private images, the renaming of old buckets, and the node's own images. *)
(***************************************************************************)
EXTENDS Naturals

CONSTANTS
    Res,          \* remote resources, by createResourceName()
    Images,       \* images
    Ops,          \* the operations of a job
    Wants,        \* the resource each needs
    Runs,         \* the image each runs
    Nothing,      \* no entry, no volume
    MaxVolumes,   \* volumes of the runtime at a time
    MaxFaults,    \* calls to docker or the market that fail, downloads included
    MaxCrashes,   \* deaths of the node process
    MaxChanges,   \* changes of what the market requires
    MaxJobs,      \* jobs
    ListMayFail   \* whether hasVolume() may be told an error, which it takes for a no

Volumes == 1..MaxVolumes

VARIABLES
    volume,    \* the runtime's volumes: none, empty, partial or complete
    image,     \* the runtime's images
    vdb,       \* resources.volumes of the database
    idb,       \* resources.images of the database
    market,    \* what the market requires
    node,      \* the node process: its phase, what is left of it, and the lists it has fetched
    task,      \* the downloads: one of the preload, one of each op
    prepared,  \* what the last preload that was completed prepared (history)
    left       \* failures, crashes, changes and jobs still to come

vars == <<volume, image, vdb, idb, market, node, task, prepared, left>>
runtime == <<volume, image>>
db == <<vdb, idb>>

Preload == "preload"
Tasks == Ops \cup {Preload}
Steps == {"idle", "pulled", "create", "record", "start", "running", "delete", "forget", "stopping", "check", "mount", "on", "done", "failed"}
VolumeEntry == [volume : Volumes, required : BOOLEAN, old : BOOLEAN, pending : BOOLEAN]
ImageEntry == [required : BOOLEAN, old : BOOLEAN]
Phases == {"down", "images", "volumes", "fetch", "pull", "preload", "job"}
Lists == SUBSET (Res \cup Images)
NodeState == [phase : Phases, todo : Lists, fetched : SUBSET {Res, Images}, required : Lists, list : Lists]
TaskState == [at : Steps, res : Res \cup {Nothing}, id : Volumes \cup {Nothing}]
Budget == [faults : 0..MaxFaults, crashes : 0..MaxCrashes, changes : 0..MaxChanges, jobs : 0..MaxJobs]

ASSUME ResourcesAssumption ==
    /\ Wants \in [Ops -> Res] /\ Runs \in [Ops -> Images]
    /\ Res \cap Images = {}
    /\ Preload \notin Ops
    /\ Nothing \notin Volumes \cup VolumeEntry \cup ImageEntry
    /\ {MaxVolumes, MaxFaults, MaxCrashes, MaxChanges, MaxJobs} \subseteq Nat
    /\ ListMayFail \in BOOLEAN

Working(at, res, id) == [at |-> at, res |-> res, id |-> id]
Idle == Working("idle", Nothing, Nothing)
AllIdle == [p \in Tasks |-> Idle]
At(p, step) == task' = [task EXCEPT ![p].at = step]
\* A container has the volume mounted.
InUse(v, but) == \E p \in Tasks \ {but} : task[p].id = v /\ task[p].at \in {"running", "stopping", "on"}
Fault == left.faults > 0 /\ left' = [left EXCEPT !.faults = @ - 1]

Booted == [phase |-> "images", todo |-> Images, fetched |-> {}, required |-> {}, list |-> {}]
Again == [node EXCEPT !.phase = "images", !.todo = Images, !.list = {}]

Init ==
    /\ volume = [v \in Volumes |-> "none"] /\ image = {}
    /\ vdb = [r \in Res |-> Nothing] /\ idb = [i \in Images |-> Nothing]
    /\ market \in SUBSET (Res \cup Images)
    /\ node = Booted
    /\ task = AllIdle
    /\ prepared = {}
    /\ left = [faults |-> MaxFaults, crashes |-> MaxCrashes, changes |-> MaxChanges, jobs |-> MaxJobs]

-----------------------------------------------------------------------------
(* resyncResourcesDB() and pullMarketRequiredImages().                         *)

\* An entry that resync leaves alone: required as of old, or by the list that has been fetched.
Kept(name, entry) ==
    \/ entry.required /\ (IF name \in Images THEN Images ELSE Res) \notin node.fetched
    \/ name \in node.required

Done(name) == node' = [node EXCEPT !.todo = @ \ {name}]

ResyncImage(i) ==
    /\ node.phase = "images" /\ i \in node.todo
    /\ IF idb[i] = Nothing \/ (i \in image /\ (Kept(i, idb[i]) \/ ~idb[i].old))
       THEN UNCHANGED <<image, idb>>
       ELSE image' = image \ {i} /\ idb' = [idb EXCEPT ![i] = Nothing]
    /\ Done(i)
    /\ UNCHANGED <<volume, vdb, market, task, prepared, left>>

\* A volume that is gone loses its entry, and one that was not used for a day goes with it.
ResyncVolume(r) ==
    /\ node.phase = "volumes" /\ r \in node.todo
    /\ LET entry == vdb[r]
           gone == entry # Nothing /\ volume[entry.volume] = "none"
           expired == entry # Nothing /\ ~gone /\ ~Kept(r, entry) /\ entry.old
       IN /\ vdb' = IF gone \/ expired THEN [vdb EXCEPT ![r] = Nothing] ELSE vdb
          /\ volume' = IF expired THEN [volume EXCEPT ![entry.volume] = "none"] ELSE volume
    /\ Done(r)
    /\ UNCHANGED <<image, idb, market, task, prepared, left>>

Turn(from, to, todo) ==
    /\ node.phase = from /\ node.todo = {}
    /\ node' = [node EXCEPT !.phase = to, !.todo = todo]
    /\ UNCHANGED <<runtime, db, market, task, prepared, left>>

VolumesNext == Turn("images", "volumes", Res)
FetchNext == Turn("volumes", "fetch", {})

\* A manager is given its half of the list, which it keeps.
Given(half, list) ==
    [node EXCEPT !.fetched = @ \cup {half}, !.required = (@ \ half) \cup (list \cap half), !.todo = list \cap half]

\* fetchMarketRequiredResources(): the images of the list come first.
Fetch ==
    /\ node.phase = "fetch"
    /\ node' = [Given(Images, market) EXCEPT !.phase = "pull", !.list = market]
    /\ UNCHANGED <<runtime, db, market, task, prepared, left>>

\* Mutant: only an image without an entry gets one.
RequireImageIfNew(i) ==
    /\ node.phase = "pull" /\ i \in node.todo
    /\ image' = image \cup {i}
    /\ idb' = [idb EXCEPT ![i] = IF @ = Nothing THEN [required |-> TRUE, old |-> FALSE] ELSE @]
    /\ Done(i)
    /\ UNCHANGED <<volume, vdb, market, task, prepared, left>>

\* The entry of a required image is written whether or not a job made one first.
RequireImage(i) ==
    /\ node.phase = "pull" /\ i \in node.todo
    /\ image' = image \cup {i}
    /\ idb' = [idb EXCEPT ![i] = [required |-> TRUE, old |-> @ # Nothing /\ @.old]]
    /\ Done(i)
    /\ UNCHANGED <<volume, vdb, market, task, prepared, left>>

PreloadNext ==
    /\ node.phase = "pull" /\ node.todo = {}
    /\ node' = [Given(Res, node.list) EXCEPT !.phase = "preload", !.list = {}]
    /\ UNCHANGED <<runtime, db, market, task, prepared, left>>

\* pullMarketRequiredVolumes(): what is saved and not pending is skipped, and not marked required.
Skipped(r) == vdb[r] # Nothing /\ ~vdb[r].pending
SkipVolume(r) ==
    /\ node.phase = "preload" /\ r \in node.todo /\ task[Preload].at = "idle"
    /\ Skipped(r)
    /\ Done(r)
    /\ UNCHANGED <<runtime, db, market, task, prepared, left>>

\* A call of setup() throws, and the node starts again.
SetupThrows ==
    /\ \/ node.phase \in {"images", "volumes", "fetch", "pull"}
       \/ node.phase = "preload" /\ task[Preload].at = "idle"
    /\ Fault
    /\ node' = Again
    /\ UNCHANGED <<runtime, db, market, task, prepared>>

-----------------------------------------------------------------------------
(* createRemoteVolume() and getResourceVolumes().                              *)

\* The entry is read: the resource is synced into the volume it names, or one is created.
Request(p, r) ==
    /\ task' = [task EXCEPT ![p] =
          IF vdb[r] # Nothing THEN Working("start", r, vdb[r].volume) ELSE Working("create", r, Nothing)]
    /\ UNCHANGED <<runtime, db, market, node, prepared, left>>

PreloadVolume(r) ==
    /\ node.phase = "preload" /\ r \in node.todo /\ task[Preload].at = "idle"
    /\ ~Skipped(r)
    /\ Request(Preload, r)

RequestVolume(o) ==
    /\ task[o].at = "pulled"
    /\ Request(o, Wants[o])

\* A volume gets a name that nothing refers to.
Recorded == {vdb[r].volume : r \in {x \in Res : vdb[x] # Nothing}}
Unknown == {v \in Volumes : volume[v] = "none" /\ v \notin Recorded /\ \A p \in Tasks : task[p].id # v}

CreateVolume(p) ==
    /\ task[p].at = "create"
    /\ Unknown # {}
    /\ LET v == CHOOSE v \in Unknown : TRUE
       IN volume' = [volume EXCEPT ![v] = "empty"] /\ task' = [task EXCEPT ![p] = Working("record", @.res, v)]
    /\ UNCHANGED <<image, db, market, node, prepared, left>>

\* Mutants: required is left undefined; pending is not written.
EntryOfUndefined(p, isPending) ==
    [volume |-> task[p].id, required |-> IF task[p].res \in node.required THEN TRUE ELSE Nothing,
     old |-> FALSE, pending |-> isPending]
EntryOfSaved(p, isPending) ==
    [volume |-> task[p].id, required |-> task[p].res \in node.required, old |-> FALSE, pending |-> FALSE]

EntryOf(p, isPending) ==
    [volume |-> task[p].id, required |-> task[p].res \in node.required, old |-> FALSE, pending |-> isPending]

\* Recorded, as pending, before anything is downloaded into it.
RecordVolume(p) ==
    /\ task[p].at = "record"
    /\ vdb' = [vdb EXCEPT ![task[p].res] = EntryOf(p, TRUE)]
    /\ At(p, "start")
    /\ UNCHANGED <<runtime, idb, market, node, prepared, left>>

\* The container starts: docker makes the volume it names anew if there is none.
StartDownload(p) ==
    /\ task[p].at = "start"
    /\ volume' = [volume EXCEPT ![task[p].id] = IF @ = "complete" THEN @ ELSE "partial"]
    /\ At(p, "running")
    /\ UNCHANGED <<image, db, market, node, prepared, left>>

DownloadDone(p) ==
    /\ task[p].at = "running"
    /\ volume' = [volume EXCEPT ![task[p].id] = "complete"]
    /\ At(p, "stopping")
    /\ UNCHANGED <<image, db, market, node, prepared, left>>

\* Mutant: the exit code is not looked at.
DownloadFailsUnnoticed(p) ==
    /\ task[p].at = "running"
    /\ Fault
    /\ At(p, "stopping")
    /\ UNCHANGED <<runtime, db, market, node, prepared>>

\* It exits with an error, or is aborted: the container is removed,
DownloadFails(p) ==
    /\ task[p].at = "running"
    /\ Fault
    /\ At(p, "delete")
    /\ UNCHANGED <<runtime, db, market, node, prepared>>

\* its volume with it, unless that fails (as it does for one that is mounted), and then its entry.
DeleteVolume(p) ==
    /\ task[p].at = "delete"
    /\ IF InUse(task[p].id, p)
       THEN At(p, "failed") /\ UNCHANGED <<volume, left>>
       ELSE \/ /\ volume' = [volume EXCEPT ![task[p].id] = "none"]
               /\ At(p, "forget")
               /\ UNCHANGED left
            \/ At(p, "failed") /\ Fault /\ UNCHANGED volume
    /\ UNCHANGED <<image, db, market, node, prepared>>

ForgetVolume(p) ==
    /\ task[p].at = "forget"
    /\ vdb' = [vdb EXCEPT ![task[p].res] = Nothing]
    /\ At(p, "failed")
    /\ UNCHANGED <<runtime, idb, market, node, prepared, left>>

\* The container is gone and setVolume() writes the entry of a completed download.
SetVolume(p) ==
    /\ task[p].at = "stopping"
    /\ vdb' = [vdb EXCEPT ![task[p].res] = EntryOf(p, FALSE)]
    /\ At(p, IF p = Preload THEN "done" ELSE "check")
    /\ UNCHANGED <<runtime, idb, market, node, prepared, left>>

\* A call that comes before the download throws, and leaves what there is.
CallFails(p) ==
    /\ task[p].at \in {"pulled", "create", "start"}
    /\ Fault
    /\ At(p, "failed")
    /\ UNCHANGED <<runtime, db, market, node, prepared>>

\* hasVolume(): an entry whose volume is not listed is deleted; getVolume() reads it once more.
HasVolume(p) ==
    /\ task[p].at = "check"
    /\ LET r == task[p].res
           listed == vdb[r] # Nothing /\ volume[vdb[r].volume] # "none"
       IN \/ /\ listed
             /\ task' = [task EXCEPT ![p] = Working("mount", r, vdb[r].volume)]
             /\ UNCHANGED <<vdb, left>>
          \/ /\ (~listed /\ UNCHANGED left) \/ (ListMayFail /\ Fault)
             /\ vdb' = [vdb EXCEPT ![r] = Nothing]
             /\ At(p, "failed")
    /\ UNCHANGED <<runtime, idb, market, node, prepared>>

-----------------------------------------------------------------------------
(* The node's phases, its jobs, and what goes on around it.                    *)

PreloadEnds ==
    /\ task[Preload].at \in {"done", "failed"}
    /\ task' = [task EXCEPT ![Preload] = Idle]
    /\ IF task[Preload].at = "done" THEN Done(task[Preload].res) ELSE node' = Again
    /\ UNCHANGED <<runtime, db, market, prepared, left>>

TakeJob ==
    /\ left.jobs > 0
    /\ left' = [left EXCEPT !.jobs = @ - 1]
    /\ node.phase = "preload" /\ node.todo = {}
    /\ node' = [node EXCEPT !.phase = "job"]
    /\ prepared' = node.required
    /\ UNCHANGED <<runtime, db, market, task>>

\* An op pulls its image and notes its use, which leaves the rest of an entry as it was.
PullImage(o) ==
    /\ node.phase = "job" /\ task[o].at = "idle"
    /\ image' = image \cup {Runs[o]}
    /\ idb' = [idb EXCEPT ![Runs[o]] = [required |-> @ # Nothing /\ @.required, old |-> FALSE]]
    /\ At(o, "pulled")
    /\ UNCHANGED <<volume, vdb, market, node, prepared, left>>

\* The container of the op starts on its volume, which docker makes anew if there is none.
Mount(o) ==
    /\ task[o].at = "mount"
    /\ volume' = [volume EXCEPT ![task[o].id] = IF @ = "none" THEN "empty" ELSE @]
    /\ At(o, "on")
    /\ UNCHANGED <<image, db, market, node, prepared, left>>

OpEnds(o) ==
    /\ task[o].at = "on"
    /\ At(o, "done")
    /\ UNCHANGED <<runtime, db, market, node, prepared, left>>

JobOver ==
    /\ node.phase = "job"
    /\ \A o \in Ops : task[o].at \in {"done", "failed"}
    /\ node' = Again
    /\ task' = AllIdle
    /\ UNCHANGED <<runtime, db, market, prepared, left>>

\* A day passes for an entry.
Age ==
    /\ node.phase # "down"
    /\ \/ \E r \in Res : /\ vdb[r] # Nothing /\ ~vdb[r].old
                         /\ vdb' = [vdb EXCEPT ![r].old = TRUE] /\ idb' = idb
       \/ \E i \in Images : /\ idb[i] # Nothing /\ ~idb[i].old
                            /\ idb' = [idb EXCEPT ![i].old = TRUE] /\ vdb' = vdb
    /\ UNCHANGED <<runtime, market, node, task, prepared, left>>

MarketChanges ==
    /\ left.changes > 0
    /\ left' = [left EXCEPT !.changes = @ - 1]
    /\ \E x \in Res \cup Images : market' = IF x \in market THEN market \ {x} ELSE market \cup {x}
    /\ UNCHANGED <<runtime, db, node, task, prepared>>

\* The process dies: its containers with it, the volumes and images remain.
Crash ==
    /\ node.phase # "down" /\ left.crashes > 0
    /\ left' = [left EXCEPT !.crashes = @ - 1]
    /\ node' = [Booted EXCEPT !.phase = "down"]
    /\ task' = AllIdle
    /\ UNCHANGED <<runtime, db, market, prepared>>

NextProcess ==
    /\ node.phase = "down"
    /\ node' = Booted
    /\ UNCHANGED <<runtime, db, market, task, prepared, left>>

\* prune(), while no node runs: all goes but what an entry says is required.
RequiredImage(i) == idb[i] # Nothing /\ idb[i].required
RequiredVolume(v) == \E r \in Res : vdb[r] # Nothing /\ vdb[r].volume = v /\ vdb[r].required
Prune ==
    /\ node.phase = "down"
    /\ image' = {i \in image : RequiredImage(i)}
    /\ idb' = [i \in Images |-> IF i \in image \ image' THEN Nothing ELSE idb[i]]
    /\ volume' = [v \in Volumes |-> IF RequiredVolume(v) THEN volume[v] ELSE "none"]
    /\ vdb' = [r \in Res |-> IF vdb[r] # Nothing /\ ~vdb[r].required /\ volume[vdb[r].volume] # "none"
                             THEN Nothing ELSE vdb[r]]
    /\ UNCHANGED <<market, node, task, prepared, left>>

Setup ==
    \/ \E i \in Images : ResyncImage(i) \/ RequireImage(i)
    \/ \E r \in Res : ResyncVolume(r) \/ SkipVolume(r) \/ PreloadVolume(r)
    \/ VolumesNext \/ FetchNext \/ Fetch \/ PreloadNext \/ PreloadEnds \/ SetupThrows

Download(p) ==
    \/ CreateVolume(p) \/ RecordVolume(p) \/ StartDownload(p) \/ DownloadDone(p) \/ DownloadFails(p)
    \/ DeleteVolume(p) \/ ForgetVolume(p) \/ SetVolume(p) \/ CallFails(p) \/ HasVolume(p)

Job == TakeJob \/ JobOver \/ \E o \in Ops : PullImage(o) \/ RequestVolume(o) \/ Mount(o) \/ OpEnds(o)

Next ==
    \/ Setup \/ Job \/ \E p \in Tasks : Download(p)
    \/ Age \/ MarketChanges \/ Crash \/ NextProcess \/ Prune

Spec == Init /\ [][Next]_vars

-----------------------------------------------------------------------------
(* Properties.                                                                 *)

\* Every variable keeps its type.
TypeOK ==
    /\ volume \in [Volumes -> {"none", "empty", "partial", "complete"}] /\ image \subseteq Images
    /\ vdb \in [Res -> VolumeEntry \cup {Nothing}] /\ idb \in [Images -> ImageEntry \cup {Nothing}]
    /\ market \subseteq Res \cup Images /\ prepared \subseteq Res \cup Images
    /\ node \in NodeState /\ task \in [Tasks -> TaskState] /\ left \in Budget

\* No volume with anything in it is unknown to the database, wherever the process dies.
VolumesAreKnown ==
    \A v \in Volumes : volume[v] \in {"partial", "complete"} => v \in Recorded

\* What the preload skips, as it is saved and not pending, is complete or no longer there.
SavedIsComplete ==
    \A r \in Res : vdb[r] # Nothing /\ ~vdb[r].pending => volume[vdb[r].volume] \in {"none", "complete"}

\* An op runs on a complete resource, though its volume is read anew after the download.
OpsHaveTheirResource == \A o \in Ops : task[o].at = "on" => volume[task[o].id] = "complete"

\* A job finds all the market required when the node took it.
JobsFindRequired ==
    [][node.phase = "preload" /\ node'.phase = "job" =>
          /\ node.required \cap Images \subseteq image
          /\ \A r \in node.required \cap Res : vdb[r] # Nothing /\ volume[vdb[r].volume] = "complete"]_vars

\* prune removes no image that the last completed preload prepared for its market.
PruneKeepsImages == [][node.phase = "down" => prepared \cap image \subseteq image']_vars

\* What the database says of a volume is true, wherever a download fails or the process dies: every
\* volume with anything in it is in it, and none that is not pending is partial (createRemoteVolume).
DatabaseIsTrue == VolumesAreKnown /\ SavedIsComplete

\* What a market requires is there when a job needs it: the preload brings it and prune leaves it
\* (fetchMarketRequiredResources, ImageManager.pruneImages).
RequiredIsKept == JobsFindRequired /\ PruneKeepsImages
=============================================================================
