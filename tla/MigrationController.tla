------------------------ MODULE MigrationController ------------------------
(***************************************************************************)
(* MigrationReconciler (internal/controller/migration_controller.go): the  *)
(* one worker of the controller takes a key, lists the pods its object     *)
(* asks for and, container by container, has the kubelet write a           *)
(* checkpoint, finds a registry, checks the original image on the          *)
(* destination and starts the job that pushes the checkpoint.  Every call  *)
(* of the API server is a step.                                            *)
(***************************************************************************)
EXTENDS Admission, RegistryPipeline

VARIABLES
    wpc,     \* step of the worker
    wkey,    \* key being reconciled
    wspec,   \* r.migrationSpec: the object as Get returned it
    wtodo,   \* pods of podList, in phase Running, whose turn is to come
    wpod,    \* the pod whose containers are being checkpointed
    wleft,   \* its containers left
    wreg     \* registryIp

workerVars == <<wpc, wkey, wspec, wtodo, wpod, wleft, wreg>>

WorkerInit ==
    /\ wpc = "idle"
    /\ wkey = Unset
    /\ wspec = NoSpec
    /\ wtodo = {}
    /\ wpod = Unset
    /\ wleft = 0
    /\ wreg = Unset

(* What a step of the worker leaves alone unless it says otherwise. *)
WorkerFrame == UNCHANGED <<migrations, requested, edits, pods, running,
                           namespaces, created, removed, registryVars, events,
                           topic, list>>
Calm == UNCHANGED <<checkpointed, faults, jobVars>>

(* Reconcile has returned; with an error only a Specify object is tried    *)
(* again, the error of the other two kinds is dropped.                     *)
Return ==
    /\ wpc' = "idle"
    /\ wkey' = Unset
    /\ wspec' = NoSpec
    /\ wtodo' = {}
    /\ wpod' = Unset
    /\ wleft' = 0
    /\ wreg' = Unset

ReturnError ==
    /\ Return
    /\ queue' = IF wspec.specify # {} THEN queue \cup {wkey} ELSE queue
    /\ UNCHANGED processPods

(* Get succeeds: the map is filled under the object's pod name, which is   *)
(* empty for the other two kinds.                                          *)
Reconcile(k) ==
    /\ wpc = "idle"
    /\ k \in queue
    /\ migrations[k] # Unset
    /\ processPods' = FillinGlobalVariables({migrations[k].podName}, migrations[k])
    /\ queue' = queue \ {k}
    /\ wpc' = "list"
    /\ wkey' = k
    /\ wspec' = migrations[k]
    /\ UNCHANGED <<wtodo, wpod, wleft, wreg>>
    /\ Calm /\ WorkerFrame

(* Get fails: the map is filled from an empty object before the error is   *)
(* looked at, and the key goes back to the queue.                          *)
ReconcileNotFound(k) ==
    /\ wpc = "idle"
    /\ k \in queue
    /\ \/ migrations[k] = Unset /\ UNCHANGED faults
       \/ Fault("api")
    /\ processPods' = FillinGlobalVariables({Unset}, NoSpec)
    /\ UNCHANGED <<queue, workerVars, checkpointed, jobVars>>
    /\ WorkerFrame

(* The list comes from the controller's cache, which may not have a pod    *)
(* just created yet, or still have one just deleted.                       *)
CachesBehind == {pods \ {c.pod} : c \in created} \cup {pods \cup {p} : p \in removed}

Listed(selected) ==
    /\ wtodo' = selected \ (pods \ running)
    /\ wpc' = "pods"
    /\ UNCHANGED <<queue, wkey, wspec, wpod, wleft, wreg>>

(* filterPods without options: among all pods of the cluster the last of   *)
(* that name, in whatever namespace; every pod when none has the name.     *)
PodsNamed(cache, x) == {p \in cache : p.name = x}
SelectedByName(cache, x) ==
    IF PodsNamed(cache, x) = {} THEN {cache} ELSE {{p} : p \in PodsNamed(cache, x)}

ListPodsByName(cache) ==
    /\ wspec.deployment = Unset
    /\ wspec.specify = {}
    /\ \E selected \in SelectedByName(cache, wspec.podName) : Listed(selected)
    /\ UNCHANGED processPods

(* filterPods for a deployment: the map is filled for every pod found. *)
PodsOfDeployment(cache, s) ==
    cache \cap Replicas[[ns |-> s.ns, name |-> s.deployment]]


ListPodsOfDeployment(cache) ==
    /\ wspec.deployment # Unset
    /\ processPods' = FillinGlobalVariables(
                          {p.name : p \in PodsOfDeployment(cache, wspec)}, wspec)
    /\ Listed(PodsOfDeployment(cache, wspec))

(* filterPods for Specify: an error unless all are found; no map entry. *)
PodsSpecified(s) == {Pod(s.ns, x) : x \in s.specify}

ListPodsSpecified(cache) ==
    /\ wspec.specify # {}
    /\ IF PodsSpecified(wspec) \subseteq cache
       THEN Listed(PodsSpecified(wspec)) /\ UNCHANGED processPods
       ELSE ReturnError

FilterPods ==
    /\ wpc = "list"
    /\ \E cache \in {pods} \cup CachesBehind :
        /\ IF cache = pods THEN UNCHANGED faults ELSE Fault("lag")
        /\ \/ ListPodsByName(cache)
           \/ ListPodsOfDeployment(cache)
           \/ ListPodsSpecified(cache)
    /\ UNCHANGED <<checkpointed, jobVars>>
    /\ WorkerFrame

(* The outer loop of checkpointSinglePod takes the next pod, or is done. *)
NextPod(p) ==
    /\ wpc = "pods"
    /\ p \in wtodo
    /\ wtodo' = wtodo \ {p}
    /\ wpod' = p
    /\ wleft' = Containers(p)
    /\ wpc' = "checkpoint"
    /\ UNCHANGED <<queue, processPods, wkey, wspec, wreg>>
    /\ Calm /\ WorkerFrame

ReconcileDone ==
    /\ wpc = "pods"
    /\ wtodo = {}
    /\ Return
    /\ UNCHANGED <<queue, processPods>>
    /\ Calm /\ WorkerFrame

(* The inner loop goes to the next container of the pod. *)
NextContainer ==
    /\ wleft' = wleft - 1
    /\ wpc' = IF wleft > 1 THEN "checkpoint" ELSE "pods"
    /\ wpod' = IF wleft > 1 THEN wpod ELSE Unset
    /\ wreg' = Unset
    /\ UNCHANGED <<queue, processPods, wkey, wspec, wtodo>>

(* CheckpointPod: the kubelet writes the archive, or its answer cannot be  *)
(* read and the container is skipped, or it reports an error.              *)
CheckpointPod ==
    /\ wpc = "checkpoint"
    /\ wpod \in pods
    /\ checkpointed' = checkpointed \cup {wpod}
    /\ \/ /\ wpc' = "registry"
          /\ UNCHANGED <<queue, processPods, wkey, wspec, wtodo, wpod, wleft,
                         wreg, faults>>
       \/ /\ Fault("answer")
          /\ NextContainer
    /\ UNCHANGED jobVars
    /\ WorkerFrame

CheckpointPodFails ==
    /\ wpc = "checkpoint"
    /\ \/ wpod \notin pods /\ UNCHANGED faults
       \/ Fault("api")
    /\ ReturnError
    /\ UNCHANGED <<checkpointed, jobVars>>
    /\ WorkerFrame

(* The registry is looked up by the destination namespace. *)
FindRegistry ==
    /\ wpc = "registry"
    /\ wreg' = ReturnRegistryIP(wspec.dst)
    /\ wpc' = "image"
    /\ UNCHANGED <<queue, processPods, wkey, wspec, wtodo, wpod, wleft>>
    /\ Calm /\ WorkerFrame

(* OriginalImageChecker polls its job until it has succeeded. *)
OriginalImageChecker ==
    /\ wpc = "image"
    /\ wpc' = "push"
    /\ UNCHANGED <<queue, processPods, wkey, wspec, wtodo, wpod, wleft, wreg>>
    /\ Calm /\ WorkerFrame

PushImage ==
    /\ wpc = "push"
    /\ BuildahPodPushImage(wpod.name, wreg)
    /\ wpc' = "clean"
    /\ UNCHANGED <<queue, processPods, wkey, wspec, wtodo, wpod, wleft, wreg,
                   checkpointed, faults>>
    /\ WorkerFrame

(* DeleteBuildahJobs; an error of its List is no error. *)
DeleteBuildahJobs ==
    /\ wpc = "clean"
    /\ \/ jobs' = jobs \ CompletedJobs /\ UNCHANGED faults
       \/ UNCHANGED jobs /\ Fault("api")
    /\ NextContainer
    /\ UNCHANGED <<checkpointed, pushes>>
    /\ WorkerFrame

(* Any other call of checkpointSinglePod, or of filterPods, fails. *)
StepFails ==
    /\ wpc \in {"list", "registry", "image", "push"}
    /\ Fault("api")
    /\ ReturnError
    /\ UNCHANGED <<checkpointed, jobVars>>
    /\ WorkerFrame

WorkerStep ==
    \/ FilterPods
    \/ \E p \in wtodo : NextPod(p)
    \/ ReconcileDone
    \/ CheckpointPod
    \/ CheckpointPodFails
    \/ FindRegistry
    \/ OriginalImageChecker
    \/ PushImage
    \/ DeleteBuildahJobs
    \/ StepFails

WorkerNext ==
    \/ \E k \in Migrations : Reconcile(k) \/ ReconcileNotFound(k)
    \/ WorkerStep
=============================================================================
