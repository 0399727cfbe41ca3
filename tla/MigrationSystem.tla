-------------------------- MODULE MigrationSystem --------------------------
(***************************************************************************)
(* The operator at work: users submit Migration objects, the two           *)
(* controllers share the manager's memory, the registries and the webhook  *)
(* carry an image from one to the other, and the restore handler deletes   *)
(* the old pod.                                                            *)
(***************************************************************************)
EXTENDS MigrationController, DaemonSetController

vars == <<clusterVars, admissionVars, pipelineVars, workerVars, goroutineVars,
          restoreVars>>

Init ==
    /\ ClusterInit
    /\ AdmissionInit
    /\ PipelineInit
    /\ WorkerInit
    /\ DeployInit
    /\ RestoreInit

(* A user acts on an object. *)
UserStep ==
    /\ \E k \in Migrations :
        \/ \E s \in Requests : ApplyMigration(k, s)
        \/ DeleteMigration(k)
    /\ UNCHANGED <<clusterVars, pipelineVars, workerVars, goroutineVars,
                   restoreVars>>

WorkerMoves == WorkerNext /\ UNCHANGED <<goroutineVars, restoreVars>>

DeployMoves == DeployNext /\ UNCHANGED workerVars

PipelineMoves ==
    PipelineNext /\ UNCHANGED <<admissionVars, workerVars, goroutineVars, restoreVars>>

RestoreMoves ==
    RestoreNext /\ UNCHANGED <<admissionVars, pipelineVars, workerVars, goroutineVars>>

(* Mutant: the objects are not listed when the manager starts. *)
ManagerCrashUnlisted ==
    /\ Fault("crash")
    /\ processPods' = {}
    /\ queue' = {}
    /\ Return
    /\ gpc' = [n \in Nodes |-> "idle"]
    /\ ginfo' = [n \in Nodes |-> Unset]
    /\ list' = [n \in Nodes |-> << >>]
    /\ UNCHANGED <<podVars, migrations, requested, edits, registryVars, jobVars,
                   events, topic, restoreVars>>

(* The manager crashes (two goroutines that touch ProcessPodsMap at once   *)
(* are enough) and starts anew: its memory is empty, the calls under way   *)
(* are gone, and the first list of the watch queues every object.          *)
ManagerCrash ==
    /\ Fault("crash")
    /\ processPods' = {}
    /\ queue' = {k \in Migrations : migrations[k] # Unset}
    /\ Return
    /\ gpc' = [n \in Nodes |-> "idle"]
    /\ ginfo' = [n \in Nodes |-> Unset]
    /\ MyTopic!Forget
    /\ UNCHANGED <<podVars, migrations, requested, edits, registryVars, jobVars,
                   events, restoreVars>>

Next ==
    \/ UserStep
    \/ WorkerMoves
    \/ DeployMoves
    \/ PipelineMoves
    \/ RestoreMoves
    \/ ManagerCrash

Spec == Init /\ [][Next]_vars

(* What is bound to happen: the single worker of a controller goes on, and *)
(* the work queue lets no key wait for ever; goroutines, jobs, registries  *)
(* and the restore handler go on; and as every round makes new readers and *)
(* the group is assigned at random, no goroutine always misses its turn.   *)
Fairness ==
    /\ WF_vars(WorkerMoves)
    /\ \A k \in Migrations :
           SF_vars(Reconcile(k) /\ UNCHANGED <<goroutineVars, restoreVars>>)
    /\ WF_vars(StartRound /\ UNCHANGED workerVars)
    /\ \A n \in Nodes :
           /\ WF_vars(DeployStep(n) /\ UNCHANGED workerVars)
           /\ SF_vars(Consume(n) /\ UNCHANGED workerVars)
    /\ WF_vars(PipelineMoves)
    /\ WF_vars(RestoreMoves)

FairSpec == Spec /\ Fairness
-----------------------------------------------------------------------------
Jobs == [id : Nat, image : Names, ip : PodIPs,
         status : {"active", "succeeded", "failed"}]
DeleteRequests == [pod : Names, ns : Namespaces]

(* The state has its types.  What reaches a pod or the restore handler is  *)
(* never an entry filled from an object that was not found, although those *)
(* are in the map too.                                                     *)
TypeOK ==
    /\ pods \subseteq PodIds
    /\ running \subseteq pods
    /\ namespaces \subseteq Namespaces
    /\ created \subseteq [pod : PodIds, node : Nodes, registry : Nodes]
    /\ removed \subseteq PodIds
    /\ checkpointed \subseteq PodIds
    /\ faults \in 0 .. MaxFaults
    /\ migrations \in [Migrations -> Requests \cup {Unset}]
    /\ queue \subseteq Migrations
    /\ processPods \subseteq Entries
    /\ requested \subseteq Requests
    /\ edits \in 0 .. MaxEdits
    /\ incarnation \in [Nodes -> Nat]
    /\ lastRegistry \in Nodes
    /\ images \subseteq [node : Nodes, image : Names]
    /\ jobs \subseteq Jobs
    /\ pushes \in 0 .. MaxPushes
    /\ events \in [Nodes -> Seq(Names)]
    /\ known \in [Webhooks -> (SUBSET PodIPs) \cup {Unset}]
    /\ topic \in Seq([key : Nodes, value : Names])
    /\ list \in [Nodes -> Seq([key : Nodes, value : Names])]
    /\ wpc \in {"idle", "list", "pods", "checkpoint", "registry", "image",
                "push", "clean"}
    /\ wkey \in Migrations \cup {Unset}
    /\ wspec \in Requests \cup {NoSpec}
    /\ wtodo \subseteq PodIds
    /\ wpod \in PodIds \cup {Unset}
    /\ wleft \in Nat
    /\ wreg \in PodIPs \cup {Unset}
    /\ gpc \in [Nodes -> {"idle", "consume", "loop", "delete", "namespace",
                          "mkns", "create", "produce"}]
    /\ ginfo \in [Nodes -> Entries \cup {Unset}]
    /\ delTopic \in Seq(DeleteRequests)
    /\ deleting \in DeleteRequests \cup {Unset}
-----------------------------------------------------------------------------
(* The object with spec s asks for pod p to be migrated. *)
AsksFor(s, p) ==
    /\ s.ns = p.ns
    /\ \/ s.podName = p.name
       \/ p.name \in s.specify
       \/ /\ DeploymentSpecified(s)
          /\ p \in Replicas[[ns |-> s.ns, name |-> s.deployment]]

(* The restore handler deletes a pod by a name and a namespace that went   *)
(* through an image name, a map without namespaces in its keys and two     *)
(* topics: a user asked for that very pod to be migrated.                  *)
RemovedAsRequested == \A p \in removed : \E s \in requested : AsksFor(s, p)

(* A pod is created where one admitted object wants that pod, whatever     *)
(* objects were overwritten, updated or deleted in between.                *)
PlacedAsRequested == \A c \in created : \E s \in requested :
    /\ c.node = s.node
    /\ c.pod.ns = s.dst
    /\ AsksFor(s, Pod(s.ns, OldName(c.pod.name)))

(* A pod is deleted only after its replacement was created, from an image  *)
(* of a checkpoint of a pod of that name.                                  *)
RemovedAfterReplacement == \A p \in removed :
    /\ \E c \in created : OldName(c.pod.name) = p.name
    /\ \E q \in checkpointed : q.name = p.name

(* A restored pod can have its image: the registry it is told to pull from *)
(* is the one the job pushed to, whatever address was looked up before the *)
(* push, unless that registry has been replaced and its images with it.    *)
ImageToPull == \A c \in created : incarnation[c.registry] = 0 =>
    [node |-> c.registry, image |-> c.pod.name] \in images

(* Initial pods that share their name with no other: the prefixes apart,   *)
(* a pod of that name is always the same workload.                         *)
Workloads == {w \in InitialPods : \A v \in InitialPods :
                  v.name.base = w.name.base => v = w}

(* However often a workload is migrated, and whichever of its pods have    *)
(* been deleted on the way, one of its later pods exists.                  *)
NoWorkloadVanishes == \A w \in Workloads, p \in removed :
    p.name.base = w.name.base =>
        \E q \in pods : q.name.base = w.name.base /\ q.name.gen > p.name.gen

(* Among namesakes too, each pod that was deleted has a replacement of its *)
(* own: when two of them move into one namespace the second cannot be      *)
(* created, and its old pod has to stay.                                   *)
NoPodLost == Cardinality(pods) >= Cardinality(InitialPods)

(* The six programs together do what one actor could promise: step by step *)
(* they hand a pod over (Handover.tla), whatever is overwritten, lost,     *)
(* repeated or restarted on the way; and no step but a hand-over creates   *)
(* or removes a pod.                                                       *)
AHandover == INSTANCE Handover WITH
    asked <- requested,
    placed <- {[pod |-> c.pod, node |-> c.node] : c \in created}

ImplementsHandover == AHandover!HandoverSpec

(* Cleaning up after one checkpoint, or a crash, never takes away a job    *)
(* that is still pushing another.                                          *)
PushNotCancelled == [][\A j \in jobs :
    j.status = "active" => \E i \in jobs' : i.id = j.id]_vars

(* DeployPodOnNewNode is about to return an error with messages left: the  *)
(* first has no entry, or what it is to create exists already.             *)
GivesUp(n) ==
    \/ /\ gpc[n] = "loop"
       /\ list[n] # << >>
       /\ EntriesOf(OldName(Message(n).value)) = {}
    \/ Conflict(n)

(* The message that was to restore p is among those behind it. *)
Abandoned(p) == \E n \in Nodes : GivesUp(n)
    /\ \E i \in 2 .. Len(list[n]) : list[n][i].value = ImageName(p.name)

(* The worker is about to give up its list, with p still on it, as the pod *)
(* whose turn it is has been deleted since.                                *)
Skipped(p) == wpc = "checkpoint" /\ wpod \notin pods /\ p \in wtodo

(* The worker cannot go on for the bound on pushes. *)
AtBound == wpc = "push" /\ pushes = MaxPushes

Queued(k, s) == k \in queue /\ migrations[k] = s
Changed(k, s) == migrations[k] # s
HasReplacement(p) == \E c \in created : OldName(c.pod.name) = p.name

NamedIn(s) == {p \in InitialPods : AsksFor(s, p)}
Naming == {s \in Requests : s.specify = {}}
Listing == Requests \ Naming


(* The pods object k names at the moment; the object may have changed      *)
(* since it was put in the work queue, or be gone.                         *)
NamedBy(k) == IF migrations[k] \in Naming THEN NamedIn(migrations[k]) ELSE {}

(* The manager crashes anywhere: the map, the reconciliation under way and *)
(* the messages it has committed are lost, but it lists the objects again, *)
(* so the replacement of each pod they name is still created, unless its   *)
(* message is abandoned.                                                   *)
NamedPodsReplaced == \A k \in Migrations : k \in queue ~>
    (AtBound \/ \A p \in NamedBy(k) : HasReplacement(p) \/ Abandoned(p))
-----------------------------------------------------------------------------
(* The inductive invariant: where everything in flight comes from, part by *)
(* part.  An image name stands for a checkpoint that was taken, an entry   *)
(* of the map and a request to delete for an object that was admitted.     *)
Checkpoints == {x \in Names : x.gen > 0 /\ \E q \in checkpointed : q.name = OldName(x)}

TracedEntries == {e \in Entries : e.pod # Unset =>
    /\ e.ns \in Namespaces /\ e.node \in Nodes /\ e.dst \in Namespaces
    /\ \E s \in requested :
        /\ s.ns = e.ns /\ s.node = e.node /\ s.dst = e.dst
        /\ AsksFor(s, Pod(e.ns, e.pod))}

TracedRequests == {m \in DeleteRequests :
    /\ m.pod \in Checkpoints
    /\ \E c \in created : c.pod.name = m.pod
    /\ \E s \in requested : AsksFor(s, OldPod(m))}

Messages == [key : Nodes, value : Checkpoints]

ClusterInv ==
    /\ pods \subseteq PodIds
    /\ running \subseteq pods
    /\ namespaces \subseteq Namespaces
    /\ created \subseteq [pod : PodIds, node : Nodes, registry : Nodes]
    /\ removed \subseteq PodIds
    /\ checkpointed \subseteq PodIds
    /\ faults \in 0 .. MaxFaults

AdmissionInv ==
    /\ migrations \in [Migrations -> requested \cup {Unset}]
    /\ queue \subseteq Migrations
    /\ processPods \subseteq TracedEntries
    /\ requested \subseteq Requests
    /\ \A s \in requested : ValidateFields(s)
    /\ edits \in 0 .. MaxEdits

PipelineInv ==
    /\ incarnation \in [Nodes -> Nat]
    /\ lastRegistry \in Nodes
    /\ images \subseteq [node : Nodes, image : Checkpoints]
    /\ jobs \subseteq [id : Nat, image : Checkpoints, ip : PodIPs,
                      status : {"active", "succeeded", "failed"}]
    /\ pushes \in 0 .. MaxPushes
    /\ events \in [Nodes -> Seq(Checkpoints)]
    /\ known \in [Webhooks -> (SUBSET PodIPs) \cup {Unset}]
    /\ topic \in Seq(Messages)
    /\ list \in [Nodes -> Seq(Messages)]

WorkerInv ==
    /\ wpc \in {"idle", "list", "pods", "checkpoint", "registry", "image",
                "push", "clean"}
    /\ wkey \in Migrations \cup {Unset}
    /\ wspec \in requested \cup {NoSpec}
    /\ wpc # "idle" => wkey \in Migrations /\ wspec \in requested
    /\ wtodo \subseteq PodIds
    /\ wpod \in PodIds \cup {Unset}
    /\ wleft \in Nat
    /\ wpc \in {"checkpoint", "registry", "image", "push", "clean"} =>
           wpod \in PodIds /\ wleft > 0
    /\ wpc \in {"registry", "image", "push"} => wpod \in checkpointed
    /\ wreg \in PodIPs \cup {Unset}
    /\ wpc \in {"image", "push"} => wreg \in PodIPs

(* A goroutine past the look-up holds the entry of its message.            *)
DeployInv ==
    /\ gpc \in [Nodes -> {"idle", "consume", "loop", "delete", "namespace",
                          "mkns", "create", "produce"}]
    /\ ginfo \in [Nodes -> TracedEntries \cup {Unset}]
    /\ \A n \in Nodes : gpc[n] \notin {"idle", "consume", "loop"} =>
        /\ list[n] # << >>
        /\ ginfo[n] \in TracedEntries
        /\ ginfo[n].pod = OldName(Message(n).value)
        /\ gpc[n] = "produce" => \E c \in created : c.pod.name = Message(n).value

RestoreInv ==
    /\ delTopic \in Seq(TracedRequests)
    /\ deleting \in TracedRequests \cup {Unset}

(* Of each pod the operator made, that pod or a later one exists. *)
DescendantLives == \A c \in created : \E q \in pods :
    q.name.base = c.pod.name.base /\ q.name.gen >= c.pod.name.gen

Invariant ==
    /\ ClusterInv /\ AdmissionInv /\ PipelineInv /\ WorkerInv /\ DeployInv
    /\ RestoreInv
    /\ PlacedAsRequested /\ RemovedAsRequested /\ RemovedAfterReplacement
-----------------------------------------------------------------------------
(* What the repository says of the program and the code does not keep.     *)

(* config/samples/api_v1alpha1_migration.yaml:16 says of the names listed  *)
(* in specify that these pods will be migrated.                            *)
ListedPodsMigrated == \A k \in Migrations, s \in Listing : \A p \in NamedIn(s) :
    Queued(k, s) ~> (p \in removed \/ Changed(k, s))

(* README.md:6: an image that was pushed becomes a message the controller  *)
(* receives, and finally the controller creates a new pod from the image.  *)
PushedPodsRestored == \A p \in InitialPods :
    (\E i \in DOMAIN topic : topic[i].value = ImageName(p.name)) ~> HasReplacement(p)

(* README.md:2: the state of the running container is kept and the new pod *)
(* restored from it.  A pod that was deleted had its own state saved.      *)
StateKept == removed \subseteq checkpointed

(* handlers/restore/README.md:1: the old pod is deleted if the new pod is  *)
(* successfully deployed on the new node.                                  *)
RemovedOnceReplacementRuns == [][\A p \in removed' \ removed :
    \E q \in running : OldName(q.name) = p.name]_vars
=============================================================================
