----------------------- MODULE MigrationSystem_proofs -----------------------
(***************************************************************************)
(* Proofs about MigrationSystem, for any nodes, namespaces, pods, objects, *)
(* failures and bounds: the types, and the three invariants that say what  *)
(* the operator creates and deletes.  Invariant is inductive: every image  *)
(* name on its way stands for a checkpoint, every entry and every request  *)
(* to delete for an admitted object, and the histories only grow.          *)
(***************************************************************************)
EXTENDS MigrationSystem, SequenceTheorems, TLAPS

USE DEF clusterVars, podVars, admissionVars, pipelineVars, registryVars, jobVars,
        workerVars, goroutineVars, restoreVars, vars
-----------------------------------------------------------------------------
(* Facts about data. *)

(* A sequence over a set is one over every larger set. *)
LEMMA SeqGrows ==
    ASSUME NEW S, NEW T, S \subseteq T
    PROVE  Seq(S) \subseteq Seq(T)
  <1> SUFFICES ASSUME NEW s \in Seq(S) PROVE s \in Seq(T)
      OBVIOUS
  <1>1. Len(s) \in Nat /\ s \in [1 .. Len(s) -> S]
      OBVIOUS
  <1>2. s \in [1 .. Len(s) -> T]
      BY <1>1
  <1> QED
      BY <1>1, <1>2, SeqDef

(* What a committed message leaves of a topic is a topic. *)
LEMMA RestIsSeq ==
    ASSUME NEW S, NEW s \in Seq(S), NEW i \in 1 .. Len(s)
    PROVE  SubSeq(s, i + 1, Len(s)) \in Seq(S)
  <1>1. \A j \in i + 1 .. Len(s) : s[j] \in S
      OBVIOUS
  <1> QED
      BY <1>1, SubSeqProperties

(* Head and Tail of a sequence that is not empty. *)
LEMMA HeadTail ==
    ASSUME NEW S, NEW s \in Seq(S), s # << >>
    PROVE  Head(s) \in S /\ Tail(s) \in Seq(S)
  BY HeadTailProperties

(* The name of an image and the name it was made from. *)
LEMMA NamesInverse ==
    ASSUME NEW x \in Names
    PROVE  /\ ImageName(x) \in Names
           /\ ImageName(x).gen > 0
           /\ OldName(ImageName(x)) = x
           /\ x.gen > 0 => OldName(x) \in Names
           /\ x # Unset
  BY ClusterAssumption DEF Names, ImageName, OldName

(* The assumptions in the form the proofs use. *)
LEMMA Constants ==
    /\ Unset \notin Nodes /\ Unset \notin Namespaces /\ Unset \notin Deployments
    /\ Unset \notin Names /\ Unset \notin Migrations /\ Unset \notin Specs
    /\ Requests \subseteq Specs
    /\ MaxFaults \in Nat /\ MaxEdits \in Nat
    /\ InitialPods \subseteq PodIds
    /\ \A p \in InitialPods : ContainerCount[p] \in Nat \ {0}
    /\ NoSpec \in Specs
  BY ClusterAssumption, AdmissionAssumption DEF Specs, NoSpec
-----------------------------------------------------------------------------
(* The histories only grow, and with them what may be in flight. *)

HistoriesGrow ==
    /\ checkpointed \subseteq checkpointed'
    /\ created \subseteq created'
    /\ requested \subseteq requested'

LEMMA CheckpointsGrow ==
    ASSUME checkpointed \subseteq checkpointed'
    PROVE  /\ Checkpoints \subseteq Checkpoints'
           /\ Messages \subseteq Messages'
           /\ Seq(Checkpoints) \subseteq Seq(Checkpoints')
           /\ Seq(Messages) \subseteq Seq(Messages')
  <1>1. Checkpoints \subseteq Checkpoints'
      BY DEF Checkpoints
  <1>2. Messages \subseteq Messages'
      BY <1>1 DEF Messages
  <1> QED
      BY <1>1, <1>2, SeqGrows

LEMMA EntriesGrow ==
    ASSUME requested \subseteq requested'
    PROVE  TracedEntries \subseteq TracedEntries'
  BY DEF TracedEntries

LEMMA RequestsGrow ==
    ASSUME HistoriesGrow
    PROVE  TracedRequests \subseteq TracedRequests' /\ Seq(TracedRequests) \subseteq Seq(TracedRequests')
  <1>1. TracedRequests \subseteq TracedRequests'
      BY CheckpointsGrow DEF HistoriesGrow, TracedRequests
  <1> QED
      BY <1>1, SeqGrows
-----------------------------------------------------------------------------
(* A part of the invariant holds on while its own variables stay the same. *)

LEMMA ClusterStable ==
    ASSUME ClusterInv, UNCHANGED clusterVars
    PROVE  ClusterInv'
  BY DEF ClusterInv

LEMMA AdmissionStable ==
    ASSUME AdmissionInv, UNCHANGED admissionVars
    PROVE  AdmissionInv'
  <1>1. TracedEntries' = TracedEntries
      BY DEF TracedEntries
  <1> QED
      BY <1>1 DEF AdmissionInv

LEMMA PipelineStable ==
    ASSUME PipelineInv, HistoriesGrow, UNCHANGED pipelineVars
    PROVE  PipelineInv'
  BY CheckpointsGrow DEF PipelineInv, HistoriesGrow

LEMMA WorkerStable ==
    ASSUME WorkerInv, HistoriesGrow, UNCHANGED workerVars
    PROVE  WorkerInv'
  BY DEF WorkerInv, HistoriesGrow

LEMMA DeployStable ==
    ASSUME DeployInv, HistoriesGrow, UNCHANGED <<goroutineVars, list>>
    PROVE  DeployInv'
  <1>1. TracedEntries \subseteq TracedEntries'
      BY EntriesGrow DEF HistoriesGrow
  <1>2. \A n \in Nodes : Message(n)' = Message(n)
      BY DEF Message
  <1> QED
      BY <1>1, <1>2 DEF DeployInv, HistoriesGrow

LEMMA RestoreStable ==
    ASSUME RestoreInv, HistoriesGrow, UNCHANGED restoreVars
    PROVE  RestoreInv'
  BY RequestsGrow DEF RestoreInv

LEMMA PromisesStable ==
    ASSUME PlacedAsRequested, RemovedAsRequested, RemovedAfterReplacement,
           HistoriesGrow, UNCHANGED <<created, removed>>
    PROVE  PlacedAsRequested' /\ RemovedAsRequested' /\ RemovedAfterReplacement'
  BY DEF PlacedAsRequested, RemovedAsRequested, RemovedAfterReplacement,
         HistoriesGrow

LEMMA FaultsBounded ==
    ASSUME faults \in 0 .. MaxFaults, NEW kind, Fault(kind)
    PROVE  faults' \in 0 .. MaxFaults
  BY Constants DEF Fault
-----------------------------------------------------------------------------
(* The map keeps to admitted objects when it is filled from one. *)
LEMMA FillTraced ==
    ASSUME processPods \subseteq TracedEntries,
           NEW s \in requested, s \in Specs, ValidateFields(s),
           NEW keys \in SUBSET (Names \cup {Unset}),
           \A x \in keys : x # Unset => AsksFor(s, Pod(s.ns, x))
    PROVE  FillinGlobalVariables(keys, s) \subseteq TracedEntries
  <1>1. s.ns \in Namespaces /\ s.node \in Nodes /\ s.dst \in Namespaces
      BY DEF Specs, ValidateFields
  <1>2. ASSUME NEW x \in keys
        PROVE  [pod |-> x, ns |-> s.ns, node |-> s.node, dst |-> s.dst]
                   \in TracedEntries
      BY <1>1 DEF TracedEntries, Entries
  <1> QED
      BY <1>2 DEF FillinGlobalVariables

LEMMA FillFromNothing ==
    ASSUME processPods \subseteq TracedEntries
    PROVE  FillinGlobalVariables({Unset}, NoSpec) \subseteq TracedEntries
  BY DEF FillinGlobalVariables, NoSpec, TracedEntries, Entries

(* The admission webhook lets in only objects whose fields are there. *)
LEMMA UserPreserves ==
    ASSUME Invariant, UserStep
    PROVE  Invariant'
  <1>1. HistoriesGrow
      BY DEF UserStep, HistoriesGrow, ApplyMigration, DeleteMigration
  <1>2. AdmissionInv'
    <2>1. processPods' = processPods /\ edits' \in 0 .. MaxEdits
        BY Constants DEF UserStep, ApplyMigration, DeleteMigration, Edit,
                         Invariant, AdmissionInv
    <2>2. processPods' \subseteq TracedEntries'
        BY <1>1, <2>1, EntriesGrow DEF HistoriesGrow, Invariant, AdmissionInv
    <2>3. CASE \E k \in Migrations, s \in Requests : ApplyMigration(k, s)
        BY <2>1, <2>2, <2>3 DEF ApplyMigration, ValidateMigration, Invariant, AdmissionInv
    <2>4. CASE \E k \in Migrations : DeleteMigration(k)
        BY <2>1, <2>2, <2>4 DEF DeleteMigration, Invariant, AdmissionInv
    <2> QED
        BY <2>3, <2>4 DEF UserStep
  <1>3. UNCHANGED <<clusterVars, pipelineVars, workerVars, goroutineVars, restoreVars>>
      BY DEF UserStep
  <1> QED
      BY <1>1, <1>2, <1>3, ClusterStable, PipelineStable, WorkerStable, DeployStable,
         RestoreStable, PromisesStable
      DEF Invariant
-----------------------------------------------------------------------------
(* The MigrationController. *)

(* However old the list is, it has pods in it. *)
LEMMA CachesHavePods ==
    ASSUME Invariant
    PROVE  \A cache \in {pods} \cup CachesBehind : cache \subseteq PodIds
  BY DEF CachesBehind, Invariant, ClusterInv

LEMMA WorkerKeepsMap ==
    ASSUME Invariant, WorkerNext
    PROVE  queue' \subseteq Migrations /\ processPods' \subseteq TracedEntries
  <1>1. ASSUME NEW k \in Migrations, Reconcile(k)
        PROVE  processPods' \subseteq TracedEntries
    <2>1. migrations[k] \in requested /\ ValidateFields(migrations[k])
        BY <1>1 DEF Reconcile, Invariant, AdmissionInv
    <2>2. migrations[k] \in Specs
        BY <2>1, Constants DEF Invariant, AdmissionInv
    <2>3. migrations[k].podName # Unset =>
              AsksFor(migrations[k], Pod(migrations[k].ns, migrations[k].podName))
        BY DEF AsksFor, Pod
    <2>4. {migrations[k].podName} \in SUBSET (Names \cup {Unset})
        BY <2>2 DEF Specs
    <2> QED
        BY <1>1, <2>1, <2>2, <2>3, <2>4, FillTraced DEF Reconcile, Invariant, AdmissionInv
  <1>2. ASSUME FilterPods
        PROVE  processPods' \subseteq TracedEntries
    <2>1. wspec \in requested /\ ValidateFields(wspec) /\ wspec \in Specs
        BY <1>2, Constants DEF FilterPods, Invariant, WorkerInv, AdmissionInv
    <2>2. ASSUME NEW cache, ListPodsOfDeployment(cache)
          PROVE  processPods' \subseteq TracedEntries
      <3>1. \A p \in PodsOfDeployment(cache, wspec) :
                p \in PodIds /\ p.ns = wspec.ns /\ AsksFor(wspec, p)
          BY <2>1, <2>2, ClusterAssumption
          DEF ListPodsOfDeployment, PodsOfDeployment, AsksFor, DeploymentSpecified,
              ValidateFields
      <3>2. \A p \in PodsOfDeployment(cache, wspec) :
                p.name \in Names /\ AsksFor(wspec, Pod(wspec.ns, p.name))
          BY <3>1 DEF PodIds, Pod
      <3> QED
          BY <2>1, <2>2, <3>2, FillTraced DEF ListPodsOfDeployment, Invariant, AdmissionInv
    <2>3. ASSUME NEW cache, ListPodsByName(cache) \/ ListPodsSpecified(cache)
          PROVE  processPods' \subseteq TracedEntries
        BY <2>3 DEF ListPodsByName, ListPodsSpecified, ReturnError, Invariant, AdmissionInv
    <2> QED
        BY <1>2, <2>2, <2>3 DEF FilterPods
  <1>3. ASSUME NEW k \in Migrations, ReconcileNotFound(k)
        PROVE  processPods' \subseteq TracedEntries
      BY <1>3, FillFromNothing DEF ReconcileNotFound, Invariant, AdmissionInv
  <1>4. WorkerStep /\ ~ FilterPods => UNCHANGED processPods
      BY DEF WorkerStep, NextPod, ReconcileDone, CheckpointPod, CheckpointPodFails,
             FindRegistry, OriginalImageChecker, PushImage, DeleteBuildahJobs,
             StepFails, ReturnError, NextContainer
  <1>5. queue' \subseteq Migrations
      BY DEF WorkerNext, WorkerStep, NextPod, ReconcileDone, CheckpointPod,
             CheckpointPodFails, FindRegistry, OriginalImageChecker, PushImage,
             DeleteBuildahJobs, StepFails, ReturnError, NextContainer, Reconcile,
             ReconcileNotFound, FilterPods, ListPodsByName, ListPodsSpecified,
             ListPodsOfDeployment, Listed, Invariant, AdmissionInv, WorkerInv
  <1> QED
      BY <1>1, <1>2, <1>3, <1>4, <1>5 DEF WorkerNext, Invariant, AdmissionInv

(* A worker step changes nothing outside its own variables, the map, the   *)
(* queue, the jobs and the checkpoints.                                    *)
LEMMA WorkerFrames ==
    ASSUME Invariant, WorkerNext
    PROVE  /\ WorkerFrame
           /\ checkpointed \subseteq checkpointed'
           /\ checkpointed' \subseteq PodIds
           /\ faults' \in 0 .. MaxFaults
  <1>1. WorkerFrame
      BY DEF WorkerNext, WorkerStep, NextPod, ReconcileDone, CheckpointPod,
             CheckpointPodFails, FindRegistry, OriginalImageChecker, PushImage,
             DeleteBuildahJobs, StepFails, Reconcile, ReconcileNotFound, FilterPods
  <1>2. /\ checkpointed \subseteq checkpointed'
        /\ checkpointed' \subseteq PodIds
    <2>1. CASE CheckpointPod
        BY <2>1 DEF CheckpointPod, Invariant, WorkerInv, ClusterInv
    <2>2. CASE ~ CheckpointPod
      <3>1. UNCHANGED checkpointed
          BY <2>2 DEF WorkerNext, WorkerStep, NextPod, ReconcileDone,
             CheckpointPodFails, FindRegistry, OriginalImageChecker, PushImage,
             DeleteBuildahJobs, StepFails, Reconcile, ReconcileNotFound, FilterPods,
             Calm
      <3> QED
          BY <3>1 DEF Invariant, ClusterInv
    <2> QED
        BY <2>1, <2>2
  <1>3. UNCHANGED faults \/ \E kind \in {"api", "answer", "lag"} : Fault(kind)
      BY DEF WorkerNext, WorkerStep, NextPod, ReconcileDone, CheckpointPod,
             CheckpointPodFails, FindRegistry, OriginalImageChecker, PushImage,
             DeleteBuildahJobs, StepFails, Reconcile, ReconcileNotFound, FilterPods,
             Calm
  <1> QED
      BY <1>1, <1>2, <1>3, FaultsBounded DEF Invariant, ClusterInv

LEMMA JobsTraced ==
    ASSUME Invariant, WorkerNext
    PROVE  /\ pushes' \in 0 .. MaxPushes
           /\ jobs' \subseteq [id : Nat, image : Checkpoints', ip : PodIPs,
                               status : {"active", "succeeded", "failed"}]
  <1>1. Checkpoints \subseteq Checkpoints'
      BY WorkerFrames, CheckpointsGrow
  <1>2. ASSUME PushImage
        PROVE  /\ pushes' \in 0 .. MaxPushes
               /\ jobs' \subseteq [id : Nat, image : Checkpoints, ip : PodIPs,
                                   status : {"active", "succeeded", "failed"}]
    <2>1. wpod \in checkpointed /\ wpod.name \in Names /\ wreg \in PodIPs
        BY <1>2 DEF PushImage, Invariant, WorkerInv, PodIds
    <2>2. ImageName(wpod.name) \in Checkpoints
        BY <2>1, NamesInverse DEF Checkpoints
    <2>3. pushes \in Nat /\ pushes' \in 0 .. MaxPushes
        BY <1>2, AdmissionAssumption, PipelineAssumption
        DEF PushImage, BuildahPodPushImage, Invariant, PipelineInv
    <2> QED
        BY <1>2, <2>1, <2>2, <2>3
        DEF PushImage, BuildahPodPushImage, Invariant, PipelineInv
  <1>3. ~ PushImage => jobs' \subseteq jobs /\ UNCHANGED pushes
      BY DEF WorkerNext, WorkerStep, NextPod, ReconcileDone, CheckpointPod,
             CheckpointPodFails, FindRegistry, OriginalImageChecker,
             DeleteBuildahJobs, StepFails, Reconcile, ReconcileNotFound, FilterPods,
             Calm
  <1> QED
      BY <1>1, <1>2, <1>3 DEF Invariant, PipelineInv

(* The worker's own state: the object it reconciles was admitted, the pod  *)
(* whose image it pushes was checkpointed.                                 *)
LEMMA WorkerKeepsState ==
    ASSUME Invariant, WorkerNext
    PROVE  WorkerInv'
  <1> USE DEF Invariant
  <1>1. requested' = requested /\ checkpointed \subseteq checkpointed'
      BY WorkerFrames DEF WorkerFrame
  <1>2. ASSUME Return PROVE WorkerInv'
      BY <1>2 DEF Return, WorkerInv
  <1>3. ASSUME NextContainer, wpc \in {"checkpoint", "clean"} PROVE WorkerInv'
      BY <1>1, <1>3 DEF NextContainer, WorkerInv
  <1>4. ASSUME NEW selected, selected \subseteq PodIds, Listed(selected), wpc = "list"
        PROVE  WorkerInv'
      BY <1>1, <1>4 DEF Listed, WorkerInv
  <1>5. ASSUME NEW k \in Migrations, Reconcile(k) PROVE WorkerInv'
      BY <1>1, <1>5 DEF Reconcile, WorkerInv, AdmissionInv
  <1>6. ASSUME NEW k \in Migrations, ReconcileNotFound(k) PROVE WorkerInv'
      BY <1>1, <1>6 DEF ReconcileNotFound, WorkerInv
  <1>7. ASSUME FilterPods PROVE WorkerInv'
    <2>1. PICK cache \in {pods} \cup CachesBehind :
              ListPodsByName(cache) \/ ListPodsOfDeployment(cache) \/ ListPodsSpecified(cache)
        BY <1>7 DEF FilterPods
    <2>2. wpc = "list" /\ cache \subseteq PodIds
        BY <1>7, CachesHavePods DEF FilterPods
    <2>3. CASE ListPodsByName(cache)
        BY <1>4, <2>2, <2>3 DEF ListPodsByName, SelectedByName, PodsNamed
    <2>4. CASE ListPodsOfDeployment(cache)
        BY <1>4, <2>2, <2>4 DEF ListPodsOfDeployment, PodsOfDeployment
    <2>5. CASE ListPodsSpecified(cache)
        BY <1>2, <1>4, <2>2, <2>5 DEF ListPodsSpecified, ReturnError
    <2> QED
        BY <2>1, <2>3, <2>4, <2>5
  <1>8. ASSUME NEW p \in wtodo, NextPod(p) PROVE WorkerInv'
    <2>1. p \in PodIds /\ Containers(p) \in Nat \ {0}
        BY Constants DEF Containers, WorkerInv
    <2> QED
        BY <1>1, <1>8, <2>1 DEF NextPod, WorkerInv
  <1>9. ASSUME ReconcileDone \/ CheckpointPodFails \/ StepFails PROVE WorkerInv'
      BY <1>2, <1>9 DEF ReconcileDone, CheckpointPodFails, StepFails, ReturnError
  <1>10. ASSUME CheckpointPod PROVE WorkerInv'
      BY <1>1, <1>3, <1>10 DEF CheckpointPod, WorkerInv
  <1>11. ASSUME FindRegistry PROVE WorkerInv'
    <2>1. ReturnRegistryIP(wspec.dst) \in PodIPs
        BY DEF ReturnRegistryIP, PodIP, PodIPs, PipelineInv
    <2> QED
        BY <1>1, <1>11, <2>1 DEF FindRegistry, WorkerInv
  <1>12. ASSUME OriginalImageChecker PROVE WorkerInv'
      BY <1>1, <1>12 DEF OriginalImageChecker, WorkerInv
  <1>13. ASSUME PushImage PROVE WorkerInv'
      BY <1>1, <1>13 DEF PushImage, WorkerInv
  <1>14. ASSUME DeleteBuildahJobs PROVE WorkerInv'
      BY <1>3, <1>14 DEF DeleteBuildahJobs
  <1> QED
      BY <1>5, <1>6, <1>7, <1>8, <1>9, <1>10, <1>11, <1>12, <1>13, <1>14
      DEF WorkerNext, WorkerStep

LEMMA WorkerPreserves ==
    ASSUME Invariant, WorkerMoves
    PROVE  Invariant'
  <1>1. WorkerNext /\ UNCHANGED <<goroutineVars, restoreVars>>
      BY DEF WorkerMoves
  <1>2. WorkerFrame
      BY <1>1, WorkerFrames
  <1>3. HistoriesGrow
      BY <1>1, <1>2, WorkerFrames DEF HistoriesGrow, WorkerFrame
  <1>4. ClusterInv'
      BY <1>1, <1>2, WorkerFrames DEF ClusterInv, Invariant, WorkerFrame
  <1>5. AdmissionInv'
    <2>1. TracedEntries' = TracedEntries
        BY <1>2 DEF TracedEntries, WorkerFrame
    <2> QED
        BY <1>1, <1>2, <2>1, WorkerKeepsMap DEF AdmissionInv, Invariant, WorkerFrame
  <1>6. PipelineInv'
    <2>1. Checkpoints \subseteq Checkpoints' /\ Seq(Checkpoints) \subseteq Seq(Checkpoints')
          /\ Seq(Messages) \subseteq Seq(Messages')
        BY <1>3, CheckpointsGrow DEF HistoriesGrow
    <2> QED
        BY <1>1, <1>2, <2>1, JobsTraced DEF PipelineInv, Invariant, WorkerFrame
  <1>7. WorkerInv'
      BY <1>1, WorkerKeepsState
  <1>8. UNCHANGED <<created, removed, list>>
      BY <1>2 DEF WorkerFrame
  <1> QED
      BY <1>1, <1>3, <1>4, <1>5, <1>6, <1>7, <1>8, DeployStable, RestoreStable,
         PromisesStable
      DEF Invariant
-----------------------------------------------------------------------------
(* Jobs, registries and the webhook. *)

(* No step of theirs touches the histories or the lists of the goroutines. *)
LEMMA PipelineFrames ==
    ASSUME Invariant, PipelineNext
    PROVE  /\ UNCHANGED <<pods, namespaces, created, removed, checkpointed, list>>
           /\ running \subseteq running' /\ running' \subseteq pods
           /\ faults' \in 0 .. MaxFaults
  <1>1. UNCHANGED <<pods, namespaces, created, removed, checkpointed, list>>
      BY DEF PipelineNext, PushSucceeds, PushFails, ExpireJob, RegistryRestart,
             WebhookHandler, WebhookLate, WebhookRestart, PodStarts, MyTopic!Publish
  <1>2. running \subseteq running' /\ running' \subseteq pods
      BY DEF PipelineNext, PushSucceeds, PushFails, ExpireJob, RegistryRestart,
             WebhookHandler, WebhookLate, WebhookRestart, PodStarts, Invariant, ClusterInv
  <1>3. UNCHANGED faults \/ \E kind \in {"push", "registry", "produce", "late", "webhook"} : Fault(kind)
      BY DEF PipelineNext, PushSucceeds, PushFails, ExpireJob, RegistryRestart,
             WebhookHandler, WebhookLate, WebhookRestart, PodStarts
  <1> QED
      BY <1>1, <1>2, <1>3, FaultsBounded DEF Invariant, ClusterInv

(* A notification and a message carry the name of a checkpoint. *)
LEMMA PipelineKeepsNames ==
    ASSUME PipelineInv, UNCHANGED checkpointed, PipelineNext
    PROVE  PipelineInv'
  <1> USE DEF PipelineInv
  <1>1. Checkpoints' = Checkpoints /\ Messages' = Messages
      BY DEF Checkpoints, Messages
  <1>2. ASSUME NEW j \in jobs, NEW status \in {"succeeded", "failed"}
        PROVE  /\ [j EXCEPT !.status = status] \in
                      [id : Nat, image : Checkpoints, ip : PodIPs,
                       status : {"active", "succeeded", "failed"}]
               /\ j.ip.node \in Nodes /\ j.image \in Checkpoints
      BY DEF PodIPs
  <1>3. ASSUME NEW j \in jobs, PushSucceeds(j) PROVE PipelineInv'
    <2>1. j.ip.node \in Nodes /\ j.image \in Checkpoints
        BY <1>2
    <2>2. events' \in [Nodes -> Seq(Checkpoints)]
        BY <1>3, <2>1, AppendProperties DEF PushSucceeds
    <2>3. jobs' \subseteq [id : Nat, image : Checkpoints, ip : PodIPs,
                           status : {"active", "succeeded", "failed"}]
        BY <1>2, <1>3 DEF PushSucceeds, SetStatus
    <2>4. images' \subseteq [node : Nodes, image : Checkpoints]
        BY <1>3, <2>1 DEF PushSucceeds
    <2> QED
        BY <1>1, <1>3, <2>2, <2>3, <2>4 DEF PushSucceeds
  <1>4. ASSUME NEW j \in jobs, PushFails(j) PROVE PipelineInv'
      BY <1>1, <1>2, <1>4 DEF PushFails, SetStatus
  <1>5. ASSUME NEW j \in jobs, ExpireJob(j) PROVE PipelineInv'
      BY <1>1, <1>5 DEF ExpireJob
  <1>6. ASSUME NEW n \in Nodes, RegistryRestart(n) PROVE PipelineInv'
      BY <1>1, <1>6 DEF RegistryRestart
  <1>7. ASSUME NEW n \in Nodes, events[n] # << >>
        PROVE  /\ PushMessage(n) \in Messages
               /\ Append(topic, PushMessage(n)) \in Seq(Messages)
               /\ Acknowledge(n) => events' \in [Nodes -> Seq(Checkpoints)]
    <2>1. Head(events[n]) \in Checkpoints /\ Tail(events[n]) \in Seq(Checkpoints)
        BY <1>7, HeadTail
    <2>2. PushMessage(n) \in Messages
        BY <2>1 DEF PushMessage, Messages
    <2> QED
        BY <2>1, <2>2, AppendProperties DEF Acknowledge
  <1>8. ASSUME NEW w \in Webhooks, NEW n \in Nodes,
               WebhookHandler(w, n) \/ WebhookLate(w, n)
        PROVE  PipelineInv'
      BY <1>1, <1>7, <1>8 DEF WebhookHandler, WebhookLate, MyTopic!Publish
  <1>9. ASSUME NEW w \in Webhooks, WebhookRestart(w) PROVE PipelineInv'
    <2>1. ListPods \in SUBSET PodIPs
        BY DEF ListPods, PodIP, PodIPs
    <2> QED
        BY <1>1, <1>9, <2>1 DEF WebhookRestart
  <1>10. ASSUME NEW c \in created, PodStarts(c) PROVE PipelineInv'
      BY <1>1, <1>10 DEF PodStarts
  <1> QED
      BY <1>3, <1>4, <1>5, <1>6, <1>8, <1>9, <1>10 DEF PipelineNext

LEMMA PipelinePreserves ==
    ASSUME Invariant, PipelineMoves
    PROVE  Invariant'
  <1>1. PipelineNext /\ UNCHANGED <<admissionVars, workerVars, goroutineVars, restoreVars>>
      BY DEF PipelineMoves
  <1>2. UNCHANGED <<pods, namespaces, created, removed, checkpointed, list>>
      BY <1>1, PipelineFrames
  <1>3. HistoriesGrow
      BY <1>1, <1>2 DEF HistoriesGrow
  <1>4. ClusterInv'
      BY <1>1, <1>2, PipelineFrames DEF ClusterInv, Invariant
  <1>5. PipelineInv'
      BY <1>1, <1>2, PipelineKeepsNames DEF Invariant
  <1> QED
      BY <1>1, <1>2, <1>3, <1>4, <1>5, AdmissionStable, WorkerStable, DeployStable,
         RestoreStable, PromisesStable
      DEF Invariant
-----------------------------------------------------------------------------
(* The goroutines of the DaemonSetController. *)

(* What a goroutine past the look-up knows of its message and its entry. *)
LEMMA Holding ==
    ASSUME Invariant, NEW n \in Nodes, gpc[n] \notin {"idle", "consume", "loop"}
    PROVE  /\ list[n] \in Seq(Messages) /\ list[n] # << >>
           /\ Message(n).value \in Checkpoints
           /\ Message(n).value \in Names /\ OldName(Message(n).value) \in Names
           /\ ginfo[n] \in TracedEntries
           /\ ginfo[n].pod = OldName(Message(n).value)
           /\ ginfo[n].ns \in Namespaces /\ ginfo[n].node \in Nodes
           /\ ginfo[n].dst \in Namespaces
           /\ \E s \in requested :
               /\ s.ns = ginfo[n].ns /\ s.node = ginfo[n].node /\ s.dst = ginfo[n].dst
               /\ AsksFor(s, Pod(ginfo[n].ns, OldName(Message(n).value)))
  <1>1. /\ list[n] \in Seq(Messages) /\ list[n] # << >>
        /\ ginfo[n] \in TracedEntries
        /\ ginfo[n].pod = OldName(Message(n).value)
      BY DEF Invariant, PipelineInv, DeployInv
  <1>2. Message(n) \in Messages
      BY <1>1, HeadTail DEF Message
  <1>3. Message(n).value \in Checkpoints
      BY <1>2 DEF Messages
  <1>4. Message(n).value \in Names /\ OldName(Message(n).value) \in Names
      BY <1>3, NamesInverse DEF Checkpoints
  <1>5. ginfo[n].pod # Unset
      BY <1>1, <1>4, NamesInverse
  <1> QED
      BY <1>1, <1>3, <1>4, <1>5 DEF TracedEntries

LEMMA DeployFrames ==
    ASSUME Invariant, DeployNext
    PROVE  /\ DeployFrame
           /\ created \subseteq created'
           /\ processPods' \subseteq processPods
           /\ faults' \in 0 .. MaxFaults
  <1>1. DeployFrame
      BY DEF DeployNext, StartRound, Consume, DeployStep, EndConsume, ConsumeFails,
             Done, LookUp, LookUpFails, DeleteEntry, GetNamespace, CreateNamespace,
             CreateNewPod, ProduceDelete, DeployFails
  <1>2. created \subseteq created' /\ processPods' \subseteq processPods
      BY DEF DeployNext, StartRound, Consume, DeployStep, EndConsume, ConsumeFails,
             Done, LookUp, LookUpFails, DeleteEntry, GetNamespace, CreateNamespace,
             CreateNewPod, ProduceDelete, DeployFails, ClusterFrame
  <1>3. UNCHANGED faults \/ \E kind \in {"deadline", "commit", "api"} : Fault(kind)
      BY DEF DeployNext, StartRound, Consume, DeployStep, EndConsume, ConsumeFails,
             Done, LookUp, LookUpFails, DeleteEntry, GetNamespace, CreateNamespace,
             CreateNewPod, ProduceDelete, DeployFails
  <1> QED
      BY <1>1, <1>2, <1>3, FaultsBounded DEF Invariant, ClusterInv

(* The pod created is the one an admitted object asks for, where it asks   *)
(* for it.                                                                 *)
LEMMA DeployCreates ==
    ASSUME Invariant, DeployNext
    PROVE  ClusterInv' /\ PlacedAsRequested'
  <1> USE DEF Invariant
  <1>1. /\ UNCHANGED <<running, removed, checkpointed, requested>>
        /\ faults' \in 0 .. MaxFaults
      BY DeployFrames DEF DeployFrame
  <1>2. ASSUME NEW n \in Nodes, CreateNewPod(n) PROVE ClusterInv' /\ PlacedAsRequested'
    <2> DEFINE c == [pod |-> NewPod(n), node |-> ginfo[n].node, registry |-> ImageRegistry(n)]
    <2>1. gpc[n] \notin {"idle", "consume", "loop"}
        BY <1>2 DEF CreateNewPod
    <2>2. NewPod(n) \in PodIds /\ c.node \in Nodes /\ c.registry \in Nodes
        BY <2>1, Holding DEF NewPod, Pod, PodIds, ImageRegistry
    <2>3. \E s \in requested :
            /\ c.node = s.node
            /\ c.pod.ns = s.dst
            /\ AsksFor(s, Pod(s.ns, OldName(c.pod.name)))
      <3>1. PICK s \in requested :
                /\ s.ns = ginfo[n].ns /\ s.node = ginfo[n].node /\ s.dst = ginfo[n].dst
                /\ AsksFor(s, Pod(ginfo[n].ns, OldName(Message(n).value)))
          BY <2>1, Holding
      <3>2. c.pod.ns = ginfo[n].dst /\ c.pod.name = Message(n).value
          BY DEF NewPod, Pod
      <3> QED
          BY <3>1, <3>2
    <2>4. created' = created \cup {c} /\ pods' = pods \cup {NewPod(n)}
          /\ namespaces' = namespaces
        BY <1>2 DEF CreateNewPod
    <2>5. ClusterInv'
        BY <1>1, <2>2, <2>4 DEF ClusterInv
    <2>6. PlacedAsRequested'
      <3>1. created' = created \cup {c} /\ requested' = requested
          BY <1>1, <2>4
      <3> HIDE DEF c
      <3> QED
          BY <2>3, <3>1 DEF PlacedAsRequested
    <2> QED
        BY <2>5, <2>6
  <1>3. ASSUME NEW n \in Nodes, CreateNamespace(n) PROVE ClusterInv' /\ PlacedAsRequested'
    <2>1. gpc[n] \notin {"idle", "consume", "loop"}
        BY <1>3 DEF CreateNamespace
    <2>2. ginfo[n].dst \in Namespaces
        BY <2>1, Holding
    <2> QED
        BY <1>1, <1>3, <2>2 DEF CreateNamespace, ClusterInv, PlacedAsRequested
  <1>4. ASSUME ClusterFrame PROVE ClusterInv' /\ PlacedAsRequested'
      BY <1>1, <1>4 DEF ClusterFrame, ClusterInv, PlacedAsRequested
  <1> QED
      BY <1>2, <1>3, <1>4
      DEF DeployNext, StartRound, Consume, DeployStep, EndConsume, ConsumeFails,
          Done, LookUp, LookUpFails, DeleteEntry, GetNamespace, ProduceDelete,
          DeployFails

(* What the goroutines take from the topic. *)
LEMMA DeployKeepsTopic ==
    ASSUME Invariant, DeployNext
    PROVE  topic' \in Seq(Messages) /\ list' \in [Nodes -> Seq(Messages)]
  <1> DEFINE Kept == topic' \in Seq(Messages) /\ list' \in [Nodes -> Seq(Messages)]
  <1>1. topic \in Seq(Messages) /\ list \in [Nodes -> Seq(Messages)]
      BY DEF Invariant, PipelineInv
  <1>2. << >> \in Seq(Messages)
      OBVIOUS
  <1>3. ASSUME NEW i \in 1 .. Len(topic)
        PROVE  topic[i] \in Messages /\ MyTopic!Rest(i) \in Seq(Messages)
      BY <1>1, RestIsSeq DEF MyTopic!Rest
  <1>4. ASSUME NEW n \in Nodes, MyTopic!Take(n) PROVE Kept
      BY <1>1, <1>3, <1>4, AppendProperties DEF MyTopic!Take
  <1>5. ASSUME NEW n \in Nodes, MyTopic!Lose(n) \/ MyTopic!Finish(n) PROVE Kept
      BY <1>1, <1>2, <1>3, <1>5 DEF MyTopic!Lose, MyTopic!Finish
  <1>6. ASSUME NEW n \in Nodes, ProduceDelete(n) PROVE Kept
    <2>1. Tail(list[n]) \in Seq(Messages)
        BY <1>6, Holding, HeadTail DEF ProduceDelete
    <2> QED
        BY <1>1, <1>6, <2>1 DEF ProduceDelete
  <1>7. ASSUME UNCHANGED <<topic, list>> PROVE Kept
      BY <1>1, <1>7
  <1> QED
      BY <1>4, <1>5, <1>6, <1>7
      DEF DeployNext, StartRound, Consume, DeployStep, EndConsume, ConsumeFails,
          Done, LookUp, LookUpFails, DeleteEntry, GetNamespace, CreateNamespace,
          CreateNewPod, DeployFails, End

(* The part of DeployInv that is about goroutine n. *)
Holds(n) == gpc[n] \notin {"idle", "consume", "loop"} =>
    /\ list[n] # << >>
    /\ ginfo[n] \in TracedEntries
    /\ ginfo[n].pod = OldName(Message(n).value)
    /\ gpc[n] = "produce" => \E c \in created : c.pod.name = Message(n).value

(* What one goroutine does leaves the others with what they hold. *)
LEMMA OthersHold ==
    ASSUME DeployInv, created \subseteq created', requested' = requested,
           NEW m \in Nodes, gpc'[m] = gpc[m], ginfo'[m] = ginfo[m], list'[m] = list[m]
    PROVE  Holds(m)'
  <1>1. TracedEntries' = TracedEntries /\ Message(m)' = Message(m)
      BY DEF TracedEntries, Message
  <1> QED
      BY <1>1 DEF DeployInv, Holds

LEMMA DeployKeepsEntries ==
    ASSUME Invariant, DeployNext
    PROVE  DeployInv'
  <1> DEFINE Steps == {"idle", "consume", "loop", "delete", "namespace", "mkns",
                       "create", "produce"}
  <1>1. /\ requested' = requested /\ created \subseteq created'
        /\ TracedEntries' = TracedEntries
      BY DeployFrames DEF DeployFrame, TracedEntries
  <1>2. DeployInv /\ list \in [Nodes -> Seq(Messages)]
        /\ gpc \in [Nodes -> Steps] /\ ginfo \in [Nodes -> TracedEntries \cup {Unset}]
      BY DEF Invariant, PipelineInv, DeployInv
  <1>3. SUFFICES /\ gpc' \in [Nodes -> Steps]
                 /\ ginfo' \in [Nodes -> TracedEntries \cup {Unset}]
                 /\ \A m \in Nodes : Holds(m)'
      BY <1>1 DEF DeployInv, Holds
  <1>4. CASE StartRound
      BY <1>2, <1>4 DEF StartRound, Holds
  (* Goroutine n moves to step x and leaves the entries as they are, or    *)
  (* drops its own.                                                        *)
  <1>5. ASSUME NEW n \in Nodes, NEW x \in Steps, gpc' = [gpc EXCEPT ![n] = x],
               \/ ginfo' = ginfo
               \/ ginfo' = [ginfo EXCEPT ![n] = Unset],
               \A m \in Nodes \ {n} : list'[m] = list[m],
               Holds(n)'
        PROVE  /\ gpc' \in [Nodes -> Steps]
               /\ ginfo' \in [Nodes -> TracedEntries \cup {Unset}]
               /\ \A m \in Nodes : Holds(m)'
    <2>1. gpc' \in [Nodes -> Steps] /\ ginfo' \in [Nodes -> TracedEntries \cup {Unset}]
        BY <1>2, <1>5
    <2>2. \A m \in Nodes \ {n} : gpc'[m] = gpc[m] /\ ginfo'[m] = ginfo[m]
        BY <1>2, <1>5
    <2>3. \A m \in Nodes \ {n} : Holds(m)'
        BY <1>1, <1>2, <1>5, <2>2, OthersHold
    <2> QED
        BY <1>5, <2>1, <2>3
  (* Before the look-up there is nothing to hold. *)
  <1>6. ASSUME NEW n \in Nodes, NEW x \in {"idle", "loop"}, Goto(n, x)
        PROVE  Holds(n)'
      BY <1>2, <1>6 DEF Goto, Holds
  <1>7. ASSUME NEW n \in Nodes, Consume(n)
        PROVE  \A m \in Nodes : Holds(m)'
    <2>1. gpc' = gpc /\ ginfo' = ginfo /\ gpc[n] = "consume"
          /\ \A m \in Nodes \ {n} : list'[m] = list[m]
        BY <1>2, <1>7 DEF Consume, MyTopic!Take
    <2> QED
        BY <1>1, <1>2, <2>1, OthersHold DEF Holds
  <1>8. ASSUME NEW n \in Nodes, EndConsume(n) \/ ConsumeFails(n) \/ Done(n)
                                 \/ LookUpFails(n) \/ ProduceDelete(n) \/ DeployFails(n)
        PROVE  /\ \E x \in {"idle", "loop"} : Goto(n, x)
               /\ ginfo' = ginfo \/ ginfo' = [ginfo EXCEPT ![n] = Unset]
               /\ \A m \in Nodes \ {n} : list'[m] = list[m]
    <2>1. /\ \E x \in {"idle", "loop"} : Goto(n, x)
          /\ ginfo' = ginfo \/ ginfo' = [ginfo EXCEPT ![n] = Unset]
        BY <1>8 DEF EndConsume, ConsumeFails, Done, LookUpFails, ProduceDelete,
                    DeployFails, End
    <2>2. list' = list \/ \E x : list' = [list EXCEPT ![n] = x]
        BY <1>8 DEF EndConsume, ConsumeFails, Done, LookUpFails, ProduceDelete,
                    DeployFails, End, MyTopic!Finish, MyTopic!Lose
    <2> QED
        BY <1>2, <2>1, <2>2
  <1>9. ASSUME NEW n \in Nodes, LookUp(n)
         PROVE  /\ gpc' \in [Nodes -> Steps]
                /\ ginfo' \in [Nodes -> TracedEntries \cup {Unset}]
                /\ \A m \in Nodes : Holds(m)'
    <2>1. PICK e \in EntriesOf(OldName(Message(n).value)) :
              ginfo' = [ginfo EXCEPT ![n] = e]
        BY <1>9 DEF LookUp
    <2>2. e \in TracedEntries /\ e.pod = OldName(Message(n).value)
        BY <2>1 DEF EntriesOf, Invariant, AdmissionInv
    <2>3. gpc' = [gpc EXCEPT ![n] = "delete"] /\ list' = list /\ list[n] # << >>
        BY <1>9 DEF LookUp, Goto
    <2>4. Message(n)' = Message(n)
        BY <2>3 DEF Message
    <2>5. Holds(n)'
        BY <1>1, <1>2, <2>1, <2>2, <2>3, <2>4 DEF Holds
    <2>6. \A m \in Nodes \ {n} : Holds(m)'
        BY <1>1, <1>2, <2>1, <2>3, OthersHold
    <2> QED
        BY <1>2, <2>1, <2>2, <2>3, <2>5, <2>6
  <1>10. ASSUME NEW n \in Nodes,
                DeleteEntry(n) \/ GetNamespace(n) \/ CreateNamespace(n) \/ CreateNewPod(n)
         PROVE  /\ \E x \in Steps : gpc' = [gpc EXCEPT ![n] = x]
                /\ ginfo' = ginfo /\ list' = list
                /\ Holds(n)'
    <2>1. gpc[n] \in {"delete", "namespace", "mkns", "create"}
        BY <1>10 DEF DeleteEntry, GetNamespace, CreateNamespace, CreateNewPod
    <2>2. ginfo' = ginfo /\ list' = list
        BY <1>10 DEF DeleteEntry, GetNamespace, CreateNamespace, CreateNewPod
    <2>3. \E x \in Steps : gpc' = [gpc EXCEPT ![n] = x] /\ (x = "produce" => CreateNewPod(n))
        BY <1>10 DEF DeleteEntry, GetNamespace, CreateNamespace, CreateNewPod, Goto
    <2>4. ASSUME CreateNewPod(n)
          PROVE  \E c \in created' : c.pod.name = Message(n).value
      <3> DEFINE c == [pod |-> NewPod(n), node |-> ginfo[n].node, registry |-> ImageRegistry(n)]
      <3>1. c \in created'
          BY <2>4 DEF CreateNewPod
      <3>2. c.pod.name = Message(n).value
          BY DEF NewPod, Pod
      <3> HIDE DEF c
      <3> QED
          BY <3>1, <3>2
    <2>5. Message(n)' = Message(n)
        BY <2>2 DEF Message
    <2>6. Holds(n)'
        BY <1>1, <1>2, <2>1, <2>2, <2>3, <2>4, <2>5, Holding DEF Holds
    <2> QED
        BY <2>2, <2>3, <2>6
  <1> QED
      BY <1>2, <1>4, <1>5, <1>6, <1>7, <1>8, <1>9, <1>10
      DEF DeployNext, DeployStep, Goto, Consume

(* A request to delete follows a pod created from the message's image.     *)
LEMMA DeployKeepsRequests ==
    ASSUME Invariant, DeployNext
    PROVE  RestoreInv'
  <1>1. /\ HistoriesGrow /\ requested' = requested /\ deleting' = deleting
        /\ checkpointed' = checkpointed
      BY DeployFrames DEF DeployFrame, HistoriesGrow
  <1>2. TracedRequests \subseteq TracedRequests'
        /\ Seq(TracedRequests) \subseteq Seq(TracedRequests')
      BY <1>1, RequestsGrow
  <1>3. delTopic \in Seq(TracedRequests) /\ deleting \in TracedRequests \cup {Unset}
      BY DEF Invariant, RestoreInv
  <1>4. ASSUME NEW n \in Nodes, ProduceDelete(n) PROVE RestoreInv'
    <2>1. gpc[n] = "produce" /\ delTopic' = Append(delTopic, DeleteRequest(n))
        BY <1>4 DEF ProduceDelete
    <2>2. \E c \in created : c.pod.name = Message(n).value
        BY <2>1 DEF Invariant, DeployInv
    <2>3. DeleteRequest(n) \in TracedRequests
        BY <2>1, <2>2, Holding
        DEF TracedRequests, DeleteRequests, DeleteRequest, OldPod
    <2> QED
        BY <1>1, <1>2, <1>3, <2>1, <2>3, AppendProperties DEF RestoreInv
  <1>5. ASSUME UNCHANGED delTopic PROVE RestoreInv'
      BY <1>1, <1>2, <1>3, <1>5 DEF RestoreInv
  <1> QED
      BY <1>4, <1>5
      DEF DeployNext, StartRound, Consume, DeployStep, EndConsume, ConsumeFails,
          Done, LookUp, LookUpFails, DeleteEntry, GetNamespace, CreateNamespace,
          CreateNewPod, DeployFails

LEMMA DeployPreserves ==
    ASSUME Invariant, DeployMoves
    PROVE  Invariant'
  <1>1. DeployNext /\ UNCHANGED workerVars
      BY DEF DeployMoves
  <1>2. DeployFrame /\ HistoriesGrow /\ processPods' \subseteq processPods
      BY <1>1, DeployFrames DEF DeployFrame, HistoriesGrow
  <1>3. UNCHANGED <<migrations, queue, requested, edits, removed, checkpointed,
                    registryVars, jobVars, events>>
      BY <1>2 DEF DeployFrame
  <1>4. ClusterInv' /\ PlacedAsRequested'
      BY <1>1, DeployCreates
  <1>5. AdmissionInv'
    <2>1. TracedEntries' = TracedEntries
        BY <1>3 DEF TracedEntries
    <2> QED
        BY <1>2, <1>3, <2>1 DEF AdmissionInv, Invariant
  <1>6. PipelineInv'
    <2>1. Checkpoints' = Checkpoints /\ Messages' = Messages
        BY <1>3 DEF Checkpoints, Messages
    <2>2. topic' \in Seq(Messages) /\ list' \in [Nodes -> Seq(Messages)]
        BY <1>1, DeployKeepsTopic
    <2> QED
        BY <1>3, <2>1, <2>2 DEF PipelineInv, Invariant
  <1>7. DeployInv' /\ RestoreInv'
      BY <1>1, DeployKeepsEntries, DeployKeepsRequests
  <1>8. RemovedAsRequested' /\ RemovedAfterReplacement'
      BY <1>2, <1>3
      DEF Invariant, RemovedAsRequested, RemovedAfterReplacement, HistoriesGrow
  <1> QED
      BY <1>1, <1>2, <1>4, <1>5, <1>6, <1>7, <1>8, WorkerStable DEF Invariant
-----------------------------------------------------------------------------
(* The restore handler and a crash of the manager. *)

(* The handler deletes the pod a traced request names. *)
LEMMA RestorePreserves ==
    ASSUME Invariant, RestoreMoves
    PROVE  Invariant'
  <1> USE DEF Invariant
  <1>1. RestoreNext /\ UNCHANGED <<admissionVars, pipelineVars, workerVars, goroutineVars>>
      BY DEF RestoreMoves
  <1>2. UNCHANGED <<namespaces, created, checkpointed>>
      BY <1>1 DEF RestoreNext, ConsumeDelete, DeleteOldPod, DeleteOldPodFails
  <1>3. HistoriesGrow
      BY <1>1, <1>2 DEF HistoriesGrow
  <1>4. RestoreInv'
    <2>1. TracedRequests' = TracedRequests
        BY <1>1, <1>2 DEF TracedRequests, Checkpoints
    <2>2. delTopic # << >> => Head(delTopic) \in TracedRequests
                              /\ Tail(delTopic) \in Seq(TracedRequests)
        BY HeadTail DEF RestoreInv
    <2> QED
        BY <1>1, <2>1, <2>2
        DEF RestoreNext, ConsumeDelete, DeleteOldPod, DeleteOldPodFails, RestoreInv
  <1>5. ASSUME DeleteOldPod
        PROVE  ClusterInv' /\ RemovedAsRequested' /\ RemovedAfterReplacement'
    <2>1. deleting \in TracedRequests /\ deleting # Unset
        BY <1>5 DEF DeleteOldPod, RestoreInv
    <2>2. removed' \subseteq removed \cup {OldPod(deleting)}
          /\ (OldPod(deleting) \in removed' \ removed => OldPod(deleting) \in PodIds)
        BY <1>5 DEF DeleteOldPod, ClusterInv
    <2>3. ClusterInv'
        BY <1>2, <1>5, <2>2 DEF DeleteOldPod, ClusterInv
    <2>4. OldPod(deleting).name = OldName(deleting.pod)
        BY DEF OldPod, Pod
    <2>5. /\ \E s \in requested : AsksFor(s, OldPod(deleting))
          /\ \E c \in created : c.pod.name = deleting.pod
          /\ \E q \in checkpointed : q.name = OldName(deleting.pod)
        BY <2>1 DEF TracedRequests, Checkpoints
    <2>6. RemovedAsRequested'
        BY <1>1, <2>2, <2>5 DEF RemovedAsRequested
    <2>7. RemovedAfterReplacement'
        BY <1>2, <2>2, <2>4, <2>5 DEF RemovedAfterReplacement
    <2> QED
        BY <2>3, <2>6, <2>7
  <1>6. ASSUME ConsumeDelete \/ DeleteOldPodFails
        PROVE  ClusterInv' /\ RemovedAsRequested' /\ RemovedAfterReplacement'
    <2>1. UNCHANGED podVars /\ faults' \in 0 .. MaxFaults
        BY <1>6, FaultsBounded DEF ConsumeDelete, DeleteOldPodFails, ClusterInv
    <2> QED
        BY <1>3, <2>1, PromisesStable DEF ClusterInv
  <1>7. PlacedAsRequested'
      BY <1>1, <1>2 DEF PlacedAsRequested
  <1>8. ClusterInv' /\ RemovedAsRequested' /\ RemovedAfterReplacement'
      BY <1>1, <1>5, <1>6 DEF RestoreNext
  <1> QED
      BY <1>1, <1>3, <1>4, <1>7, <1>8, AdmissionStable, PipelineStable, WorkerStable,
         DeployStable

(* What the manager remembers after a crash is nothing. *)
LEMMA CrashPreserves ==
    ASSUME Invariant, ManagerCrash
    PROVE  Invariant'
  <1> USE DEF Invariant
  <1>1. /\ UNCHANGED <<podVars, migrations, requested, edits, registryVars, jobVars,
                       events, topic, restoreVars>>
        /\ processPods' = {} /\ queue' \subseteq Migrations
        /\ Return
        /\ gpc' = [n \in Nodes |-> "idle"] /\ ginfo' = [n \in Nodes |-> Unset]
        /\ list' = [n \in Nodes |-> << >>]
        /\ faults' \in 0 .. MaxFaults
      BY FaultsBounded DEF ManagerCrash, ClusterInv, MyTopic!Forget
  <1>2. HistoriesGrow
      BY <1>1 DEF HistoriesGrow
  <1>3. ClusterInv'
      BY <1>1 DEF ClusterInv
  <1>4. AdmissionInv'
      BY <1>1 DEF AdmissionInv
  <1>5. PipelineInv'
    <2>1. Checkpoints' = Checkpoints /\ Messages' = Messages
        BY <1>1 DEF Checkpoints, Messages
    <2> QED
        BY <1>1, <2>1 DEF PipelineInv
  <1>6. WorkerInv'
      BY <1>1 DEF Return, WorkerInv
  <1>7. DeployInv'
      BY <1>1 DEF DeployInv
  <1>8. RestoreInv' /\ PlacedAsRequested' /\ RemovedAsRequested' /\ RemovedAfterReplacement'
      BY <1>1, <1>2, RestoreStable, PromisesStable
  <1> QED
      BY <1>3, <1>4, <1>5, <1>6, <1>7, <1>8
-----------------------------------------------------------------------------
LEMMA InitInvariant ==
    ASSUME Init
    PROVE  Invariant
  <1> USE DEF Init
  <1>1. ClusterInv
      BY Constants DEF ClusterInit, ClusterInv, PodIds
  <1>2. AdmissionInv
      BY Constants DEF AdmissionInit, AdmissionInv
  <1>3. PipelineInv
      BY PipelineAssumption
      DEF PipelineInit, PipelineInv, MyTopic!TopicInit, ListPods, PodIP, PodIPs
  <1>4. WorkerInv
      BY DEF WorkerInit, WorkerInv
  <1>5. DeployInv /\ RestoreInv
      BY DEF DeployInit, DeployInv, RestoreInit, RestoreInv
  <1>6. PlacedAsRequested /\ RemovedAsRequested /\ RemovedAfterReplacement
      BY DEF ClusterInit, PlacedAsRequested, RemovedAsRequested, RemovedAfterReplacement
  <1> QED
      BY <1>1, <1>2, <1>3, <1>4, <1>5, <1>6 DEF Invariant

LEMMA NextInvariant ==
    ASSUME Invariant, [Next]_vars
    PROVE  Invariant'
  <1>1. CASE UNCHANGED vars
    <2>1. /\ UNCHANGED clusterVars /\ UNCHANGED admissionVars
          /\ UNCHANGED pipelineVars /\ UNCHANGED workerVars
          /\ UNCHANGED goroutineVars /\ UNCHANGED restoreVars
          /\ UNCHANGED <<created, removed>> /\ UNCHANGED <<goroutineVars, list>>
        BY <1>1
    <2>2. HistoriesGrow
        BY <2>1 DEF HistoriesGrow
    <2>3. ClusterInv' /\ AdmissionInv'
        BY <2>1, ClusterStable, AdmissionStable DEF Invariant
    <2>4. PipelineInv' /\ WorkerInv'
        BY <2>1, <2>2, PipelineStable, WorkerStable DEF Invariant
    <2>5. DeployInv' /\ RestoreInv'
        BY <2>1, <2>2, DeployStable, RestoreStable DEF Invariant
    <2> QED
        BY <2>1, <2>2, <2>3, <2>4, <2>5, PromisesStable DEF Invariant
  <1>2. CASE Next
      BY <1>2, UserPreserves, WorkerPreserves, DeployPreserves, PipelinePreserves,
         RestorePreserves, CrashPreserves
      DEF Next
  <1> QED
      BY <1>1, <1>2

(* The invariant implies the types. *)
LEMMA InvariantTypes ==
    ASSUME Invariant
    PROVE  TypeOK
  <1> USE DEF Invariant
  <1>1. Checkpoints \subseteq Names /\ Messages \subseteq [key : Nodes, value : Names]
        /\ TracedEntries \subseteq Entries /\ TracedRequests \subseteq DeleteRequests
      BY DEF Checkpoints, Messages, TracedEntries, TracedRequests
  <1>2. /\ Seq(Checkpoints) \subseteq Seq(Names)
        /\ Seq(Messages) \subseteq Seq([key : Nodes, value : Names])
        /\ Seq(TracedRequests) \subseteq Seq(DeleteRequests)
      BY <1>1, SeqGrows
  <1>3. /\ pods \subseteq PodIds /\ running \subseteq pods /\ namespaces \subseteq Namespaces
        /\ created \subseteq [pod : PodIds, node : Nodes, registry : Nodes]
        /\ removed \subseteq PodIds /\ checkpointed \subseteq PodIds
        /\ faults \in 0 .. MaxFaults
      BY DEF ClusterInv
  <1>4. /\ migrations \in [Migrations -> Requests \cup {Unset}] /\ queue \subseteq Migrations
        /\ processPods \subseteq Entries /\ requested \subseteq Requests
        /\ edits \in 0 .. MaxEdits
      BY <1>1 DEF AdmissionInv
  <1>5. /\ incarnation \in [Nodes -> Nat] /\ lastRegistry \in Nodes
        /\ images \subseteq [node : Nodes, image : Names] /\ jobs \subseteq Jobs
        /\ pushes \in 0 .. MaxPushes
        /\ known \in [Webhooks -> (SUBSET PodIPs) \cup {Unset}]
      BY <1>1 DEF PipelineInv, Jobs
  <1>6. /\ events \in [Nodes -> Seq(Names)]
        /\ topic \in Seq([key : Nodes, value : Names])
        /\ list \in [Nodes -> Seq([key : Nodes, value : Names])]
      BY <1>2 DEF PipelineInv
  <1>7. /\ wpc \in {"idle", "list", "pods", "checkpoint", "registry", "image",
                    "push", "clean"}
        /\ wkey \in Migrations \cup {Unset} /\ wspec \in Requests \cup {NoSpec}
        /\ wtodo \subseteq PodIds /\ wpod \in PodIds \cup {Unset} /\ wleft \in Nat
        /\ wreg \in PodIPs \cup {Unset}
      BY <1>4 DEF WorkerInv
  <1>8. /\ gpc \in [Nodes -> {"idle", "consume", "loop", "delete", "namespace",
                              "mkns", "create", "produce"}]
        /\ ginfo \in [Nodes -> Entries \cup {Unset}]
      BY <1>1 DEF DeployInv
  <1>9. delTopic \in Seq(DeleteRequests) /\ deleting \in DeleteRequests \cup {Unset}
      BY <1>1, <1>2 DEF RestoreInv
  <1> QED
      BY <1>3, <1>4, <1>5, <1>6, <1>7, <1>8, <1>9 DEF TypeOK
-----------------------------------------------------------------------------
(* Everything in flight comes from a checkpoint and an admitted object: an *)
(* image name, a message, an entry of the map, a request to delete.        *)
THEOREM InvariantHolds == Spec => []Invariant
  <1>1. Init => Invariant
      BY InitInvariant
  <1>2. Invariant /\ [Next]_vars => Invariant'
      BY NextInvariant
  <1> QED
      BY <1>1, <1>2, PTL DEF Spec

(* The state of the operator has its types. *)
THEOREM TypesHold == Spec => []TypeOK
  <1>1. Invariant => TypeOK
      BY InvariantTypes
  <1> QED
      BY <1>1, InvariantHolds, PTL

(* DeployPodOnNewNode creates a pod only on the node and in the namespace  *)
(* of one admitted object that asks for that very pod.                     *)
THEOREM Placement == Spec => []PlacedAsRequested
  <1>1. Invariant => PlacedAsRequested
      BY DEF Invariant
  <1> QED
      BY <1>1, InvariantHolds, PTL

(* The restore handler deletes only pods an admitted object asks for.      *)
THEOREM Removal == Spec => []RemovedAsRequested
  <1>1. Invariant => RemovedAsRequested
      BY DEF Invariant
  <1> QED
      BY <1>1, InvariantHolds, PTL

(* The restore handler deletes a pod only after a replacement was created  *)
(* from a checkpoint of a pod of that name.                                *)
THEOREM RemovalAfterReplacement == Spec => []RemovedAfterReplacement
  <1>1. Invariant => RemovedAfterReplacement
      BY DEF Invariant
  <1> QED
      BY <1>1, InvariantHolds, PTL
-----------------------------------------------------------------------------
(* A job that pushes is there after the step, under the same name. *)
PushesStay == \A j \in jobs : j.status = "active" => \E i \in jobs' : i.id = j.id

LEMMA StepKeepsPushes ==
    ASSUME Invariant, [Next]_vars
    PROVE  PushesStay
  <1>1. ASSUME jobs \subseteq jobs' PROVE PushesStay
      BY <1>1 DEF PushesStay
  <1>2. ASSUME NEW j \in jobs, NEW status, SetStatus(j, status) PROVE PushesStay
    <2>1. [j EXCEPT !.status = status].id = j.id
        BY DEF Invariant, PipelineInv
    <2>2. \A x \in jobs : x \in jobs' \/ x = j
        BY <1>2 DEF SetStatus
    <2>3. [j EXCEPT !.status = status] \in jobs'
        BY <1>2 DEF SetStatus
    <2> QED
        BY <2>1, <2>2, <2>3 DEF PushesStay
  <1>3. CASE WorkerMoves
    <2>1. CASE DeleteBuildahJobs
        BY <2>1 DEF DeleteBuildahJobs, CompletedJobs, PushesStay
    <2>2. CASE ~ DeleteBuildahJobs
      <3>1. jobs \subseteq jobs'
          BY <1>3, <2>2
          DEF WorkerMoves, WorkerNext, WorkerStep, NextPod, ReconcileDone,
              CheckpointPod, CheckpointPodFails, FindRegistry, OriginalImageChecker,
              PushImage, BuildahPodPushImage, StepFails, Reconcile,
              ReconcileNotFound, FilterPods, Calm
      <3> QED
          BY <1>1, <3>1
    <2> QED
        BY <2>1, <2>2
  <1>4. CASE PipelineMoves
    <2>1. ASSUME NEW j \in jobs, PushSucceeds(j) \/ PushFails(j) PROVE PushesStay
        BY <1>2, <2>1 DEF PushSucceeds, PushFails
    <2>2. ASSUME NEW j \in jobs, ExpireJob(j) PROVE PushesStay
        BY <2>2 DEF ExpireJob, PushesStay
    <2>3. ASSUME NEW j \in jobs, PushSucceeds(j) \/ PushFails(j) \/ ExpireJob(j)
          PROVE  PushesStay
        BY <2>1, <2>2, <2>3
    <2>4. (\E j \in jobs : PushSucceeds(j) \/ PushFails(j) \/ ExpireJob(j))
              \/ UNCHANGED jobs
        BY <1>4 DEF PipelineMoves, PipelineNext, RegistryRestart, WebhookHandler,
                    WebhookLate, WebhookRestart, PodStarts
    <2> QED
        BY <1>1, <2>3, <2>4
  <1>5. CASE UserStep \/ DeployMoves \/ RestoreMoves \/ ManagerCrash \/ UNCHANGED vars
    <2>1. UNCHANGED jobs
        BY <1>5, DeployFrames
        DEF UserStep, DeployMoves, DeployFrame, RestoreMoves, ManagerCrash
    <2> QED
        BY <1>1, <2>1
  <1> QED
      BY <1>3, <1>4, <1>5 DEF Next

(* DeleteBuildahJobs cleans up after one container, jobs finish and expire *)
(* and the manager crashes: none of it takes away a job that still pushes. *)
THEOREM PushesKept == Spec => PushNotCancelled
  <1>1. Invariant /\ [Next]_vars =>
            [\A j \in jobs : j.status = "active" => \E i \in jobs' : i.id = j.id]_vars
      BY StepKeepsPushes DEF PushesStay
  <1> QED
      BY <1>1, InvariantHolds, PTL DEF Spec, PushNotCancelled
-----------------------------------------------------------------------------
(* A set of records stands for a map: ProcessPodsMap has one entry under a *)
(* key.                                                                    *)
OneEntryPerKey == \A e, f \in processPods : e.pod = f.pod => e = f

LEMMA FillKeepsKeys ==
    ASSUME OneEntryPerKey, NEW keys, NEW s, processPods' = FillinGlobalVariables(keys, s)
    PROVE  OneEntryPerKey'
  <1> DEFINE new == {[pod |-> x, ns |-> s.ns, node |-> s.node, dst |-> s.dst] : x \in keys}
  <1>1. \A e \in new : e.pod \in keys
      OBVIOUS
  <1>2. \A e, f \in new : e.pod = f.pod => e = f
      OBVIOUS
  <1>3. \A e \in processPods' : e \in new \/ (e \in processPods /\ e.pod \notin keys)
      BY DEF FillinGlobalVariables
  <1> HIDE DEF new
  <1> QED
      BY <1>1, <1>2, <1>3 DEF OneEntryPerKey

LEMMA StepKeepsKeys ==
    ASSUME Invariant, OneEntryPerKey, [Next]_vars
    PROVE  OneEntryPerKey'
  <1>1. ASSUME processPods' \subseteq processPods PROVE OneEntryPerKey'
      BY <1>1 DEF OneEntryPerKey
  <1>2. CASE WorkerMoves
    <2>1. processPods' = processPods
              \/ \E keys, s : processPods' = FillinGlobalVariables(keys, s)
        BY <1>2
        DEF WorkerMoves, WorkerNext, WorkerStep, NextPod, ReconcileDone, CheckpointPod,
            CheckpointPodFails, FindRegistry, OriginalImageChecker, PushImage,
            DeleteBuildahJobs, StepFails, Reconcile, ReconcileNotFound, FilterPods,
            ListPodsByName, ListPodsOfDeployment, ListPodsSpecified, NextContainer,
            ReturnError
    <2> QED
        BY <1>1, <2>1, FillKeepsKeys
  <1>3. CASE DeployMoves
      BY <1>1, <1>3, DeployFrames DEF DeployMoves
  <1>4. CASE UserStep \/ PipelineMoves \/ RestoreMoves \/ ManagerCrash \/ UNCHANGED vars
    <2>1. processPods' \subseteq processPods
        BY <1>4 DEF UserStep, ApplyMigration, DeleteMigration, Edit, PipelineMoves,
                    RestoreMoves, ManagerCrash
    <2> QED
        BY <1>1, <2>1
  <1> QED
      BY <1>2, <1>3, <1>4 DEF Next

(* The map has one entry per name, so what DeployPodOnNewNode looks up is  *)
(* what was last filled in, and deleting by name deletes what was read or  *)
(* what has overwritten it.                                                *)
THEOREM EntriesAreAMap == Spec => []OneEntryPerKey
  <1>1. Init => Invariant /\ OneEntryPerKey
      BY InitInvariant DEF Init, AdmissionInit, OneEntryPerKey
  <1>2. Invariant /\ OneEntryPerKey /\ [Next]_vars => (Invariant /\ OneEntryPerKey)'
      BY NextInvariant, StepKeepsKeys
  <1> QED
      BY <1>1, <1>2, PTL DEF Spec
=============================================================================
