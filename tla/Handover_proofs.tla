--------------------------- MODULE Handover_proofs ---------------------------
(***************************************************************************)
(* Proofs that a workload with a name of its own never loses its last pod, *)
(* and that MigrationSystem implements Handover: each of its steps is a    *)
(* step of a hand-over, or changes nothing a hand-over is about.           *)
(***************************************************************************)
EXTENDS MigrationSystem_proofs

USE DEF clusterVars, podVars, admissionVars, pipelineVars, registryVars, jobVars,
        workerVars, goroutineVars, restoreVars, vars

(* What a hand-over is about, in the variables of the system. *)
HandoverFrame == UNCHANGED <<requested, pods, checkpointed, created, removed>>

(* The pods [pod, node] that were created. *)
Placed == {[pod |-> c.pod, node |-> c.node] : c \in created}

LEMMA FrameStutters ==
    ASSUME HandoverFrame
    PROVE  UNCHANGED AHandover!handoverVars
  BY DEF HandoverFrame, AHandover!handoverVars
-----------------------------------------------------------------------------
(* Which actions change pods. *)

(* Of the goroutines only CreateNewPod does. *)
LEMMA DeployFramesOrCreates ==
    ASSUME Invariant, DeployNext
    PROVE  HandoverFrame \/ \E n \in Nodes : CreateNewPod(n)
  <1>1. UNCHANGED <<requested, checkpointed, removed>>
      BY DeployFrames DEF DeployFrame
  <1>2. UNCHANGED <<pods, created>> \/ \E n \in Nodes : CreateNewPod(n)
      BY DEF DeployNext, StartRound, Consume, DeployStep, EndConsume, ConsumeFails,
             Done, LookUp, LookUpFails, DeleteEntry, GetNamespace, CreateNamespace,
             ProduceDelete, DeployFails, ClusterFrame
  <1> QED
      BY <1>1, <1>2 DEF HandoverFrame

(* Of the worker's only CheckpointPod has to do with a hand-over. *)
LEMMA WorkerFramesOrCheckpoints ==
    ASSUME Invariant, WorkerNext
    PROVE  HandoverFrame \/ CheckpointPod
  <1>1. UNCHANGED <<requested, pods, created, removed>>
      BY WorkerFrames DEF WorkerFrame
  <1>2. ~ CheckpointPod => UNCHANGED checkpointed
      BY DEF WorkerNext, WorkerStep, NextPod, ReconcileDone,
             CheckpointPodFails, FindRegistry, OriginalImageChecker, PushImage,
             DeleteBuildahJobs, StepFails, Reconcile, ReconcileNotFound, FilterPods,
             Calm
  <1> QED
      BY <1>1, <1>2 DEF HandoverFrame

(* The pipeline, a crash and a commit change none. *)
LEMMA OthersFrame ==
    ASSUME Invariant, PipelineMoves \/ ManagerCrash
    PROVE  HandoverFrame
  <1>1. CASE PipelineMoves
      BY <1>1, PipelineFrames DEF PipelineMoves, HandoverFrame
  <1>2. CASE ManagerCrash
      BY <1>2 DEF ManagerCrash, HandoverFrame
  <1> QED
      BY <1>1, <1>2

(* What CreateNewPod makes: the replacement of a pod that was checkpointed, *)
(* where an admitted object wants it.                                      *)
LEMMA Creates ==
    ASSUME Invariant, NEW n \in Nodes, CreateNewPod(n), DeployFrame
    PROVE  \E q \in checkpointed, s \in requested :
               /\ AHandover!Create(q, s)
               /\ \A c \in created' \ created : c.pod \in pods'
  <1>1. gpc[n] \notin {"idle", "consume", "loop"}
      BY DEF CreateNewPod
  <1>2. Message(n).value \in Checkpoints /\ Message(n).value \in Names
      BY <1>1, Holding
  <1>3. PICK q \in checkpointed : q.name = OldName(Message(n).value)
      BY <1>2 DEF Checkpoints
  <1>4. PICK s \in requested :
            /\ s.ns = ginfo[n].ns /\ s.node = ginfo[n].node /\ s.dst = ginfo[n].dst
            /\ AsksFor(s, Pod(ginfo[n].ns, OldName(Message(n).value)))
      BY <1>1, Holding
  <1>5. AHandover!Replacement(q, s) = NewPod(n)
    <2>1. Message(n).value = [base |-> q.name.base, gen |-> q.name.gen + 1]
        BY <1>2, <1>3 DEF Names, OldName
    <2> QED
        BY <1>4, <2>1 DEF AHandover!Replacement, NewPod, Pod
  <1>6. AsksFor(s, [ns |-> s.ns, name |-> q.name])
      BY <1>3, <1>4 DEF Pod
  <1> DEFINE c == [pod |-> NewPod(n), node |-> ginfo[n].node, registry |-> ImageRegistry(n)]
  <1>7. /\ NewPod(n) \notin pods /\ pods' = pods \cup {NewPod(n)}
        /\ created' = created \cup {c}
        /\ UNCHANGED <<requested, checkpointed, removed>>
      BY DEF CreateNewPod, DeployFrame
  <1>8. c.pod = NewPod(n) /\ c.node = s.node
      BY <1>4
  <1> HIDE DEF c
  <1>9. Placed' = Placed \cup {[pod |-> NewPod(n), node |-> s.node]}
    <2>1. Placed' = {[pod |-> x.pod, node |-> x.node] : x \in created \cup {c}}
        BY <1>7 DEF Placed
    <2> QED
        BY <1>8, <2>1 DEF Placed
  <1>10. AHandover!Create(q, s)
      BY <1>5, <1>6, <1>7, <1>9 DEF AHandover!Create, Placed
  <1> QED
      BY <1>7, <1>8, <1>10
-----------------------------------------------------------------------------
(* What the restore handler removes has a later pod beside it. *)
LEMMA RemovesOlder ==
    ASSUME Invariant, DescendantLives, DeleteOldPod
    PROVE  /\ deleting \in TracedRequests
           /\ OldPod(deleting).name \in Names
           /\ OldPod(deleting).name.gen + 1 = deleting.pod.gen
           /\ OldPod(deleting).name.base = deleting.pod.base
           /\ \E q \in pods : AHandover!Later(q, OldPod(deleting))
  <1>1. deleting \in TracedRequests
      BY DEF DeleteOldPod, Invariant, RestoreInv
  <1>2. deleting.pod \in Names /\ deleting.pod.gen > 0
        /\ \E c \in created : c.pod.name = deleting.pod
      BY <1>1 DEF TracedRequests, Checkpoints
  <1>3. OldPod(deleting).name = OldName(deleting.pod)
      BY DEF OldPod, Pod
  <1>4. /\ OldPod(deleting).name \in Names
        /\ OldPod(deleting).name.gen + 1 = deleting.pod.gen
        /\ OldPod(deleting).name.base = deleting.pod.base
      BY <1>2, <1>3 DEF Names, OldName
  <1>5. PICK q \in pods : q.name.base = deleting.pod.base /\ q.name.gen >= deleting.pod.gen
      BY <1>2 DEF DescendantLives
  <1>6. q.name.gen \in Nat /\ deleting.pod.gen \in Nat /\ OldPod(deleting).name.gen \in Nat
      BY <1>2, <1>4 DEF Invariant, ClusterInv, PodIds, Names
  <1> QED
      BY <1>1, <1>4, <1>5, <1>6 DEF AHandover!Later

(* However pods come and go, what the operator made lives on. *)
LEMMA DescendantsStay ==
    ASSUME Invariant, DescendantLives, [Next]_vars
    PROVE  DescendantLives'
  <1>1. ASSUME HandoverFrame PROVE DescendantLives'
      BY <1>1 DEF HandoverFrame, DescendantLives
  <1>2. ASSUME pods \subseteq pods', \A c \in created' \ created : c.pod \in pods'
        PROVE  DescendantLives'
    <2>1. ASSUME NEW c \in created' \ created
          PROVE  c.pod.name.gen \in Nat /\ c.pod \in pods'
      <3>1. ClusterInv'
          BY NextInvariant DEF Invariant
      <3> QED
          BY <1>2, <3>1 DEF ClusterInv, PodIds, Names
    <2> QED
        BY <1>2, <2>1 DEF DescendantLives
  <1>3. CASE UserStep
      BY <1>2, <1>3 DEF UserStep
  <1>4. CASE WorkerMoves
      BY <1>2, <1>4, WorkerFrames DEF WorkerMoves, WorkerFrame
  <1>5. CASE DeployMoves
    <2>1. DeployNext /\ DeployFrame
        BY <1>5, DeployFrames DEF DeployMoves
    <2>2. ASSUME NEW n \in Nodes, CreateNewPod(n) PROVE DescendantLives'
        BY <1>2, <2>1, <2>2, Creates DEF CreateNewPod
    <2> QED
        BY <1>1, <2>1, <2>2, DeployFramesOrCreates
  <1>6. CASE PipelineMoves \/ ManagerCrash
      BY <1>1, <1>6, OthersFrame
  <1>7. ASSUME DeleteOldPod PROVE DescendantLives'
    <2> DEFINE r == OldPod(deleting)
    <2>1. PICK q \in pods : AHandover!Later(q, r)
        BY <1>7, RemovesOlder
    <2>2. pods' = pods \ {r} /\ created' = created /\ r.name \in Names
        BY <1>7, RemovesOlder DEF DeleteOldPod
    <2>3. q.name.base = r.name.base /\ q.name.gen > r.name.gen
        BY <2>1 DEF AHandover!Later
    <2>4. r.name.gen \in Nat /\ q.name.gen \in Nat
        BY <2>2 DEF Invariant, ClusterInv, PodIds, Names
    <2> HIDE DEF r
    <2>5. q \in pods'
        BY <2>2, <2>3, <2>4
    <2>6. ASSUME NEW c \in created
          PROVE  \E p \in pods' : p.name.base = c.pod.name.base /\ p.name.gen >= c.pod.name.gen
      <3>1. PICK p \in pods : p.name.base = c.pod.name.base /\ p.name.gen >= c.pod.name.gen
          BY DEF DescendantLives
      <3>2. p.name.gen \in Nat /\ c.pod.name.gen \in Nat
          BY DEF Invariant, ClusterInv, PodIds, Names
      <3>3. CASE p = r
          BY <2>3, <2>4, <2>5, <3>1, <3>2, <3>3
      <3>4. CASE p # r
          BY <2>2, <3>1, <3>4
      <3> QED
          BY <3>3, <3>4
    <2> QED
        BY <2>2, <2>6 DEF DescendantLives
  <1>8. CASE RestoreMoves
      BY <1>2, <1>7, <1>8 DEF RestoreMoves, RestoreNext, ConsumeDelete, DeleteOldPodFails
  <1>9. CASE UNCHANGED vars
      BY <1>2, <1>9
  <1> QED
      BY <1>3, <1>4, <1>5, <1>6, <1>8, <1>9 DEF Next

LEMMA DescendantsAlways == Spec => [](Invariant /\ DescendantLives)
  <1>1. Init => Invariant /\ DescendantLives
      BY InitInvariant DEF Init, ClusterInit, DescendantLives
  <1>2. Invariant /\ DescendantLives /\ [Next]_vars => (Invariant /\ DescendantLives)'
      BY NextInvariant, DescendantsStay
  <1> QED
      BY <1>1, <1>2, PTL DEF Spec

(* A workload whose name no other initial pod has is never left without a  *)
(* pod: beside each of its pods that was removed a later one exists, in    *)
(* any order of requests and with any failures.                            *)
THEOREM WorkloadsStay == Spec => []NoWorkloadVanishes
  <1>1. Invariant /\ DescendantLives => NoWorkloadVanishes
    <2> SUFFICES ASSUME Invariant, DescendantLives,
                        NEW w \in Workloads, NEW p \in removed, p.name.base = w.name.base
                 PROVE  \E q \in pods : q.name.base = w.name.base /\ q.name.gen > p.name.gen
        BY DEF NoWorkloadVanishes
    <2>1. PICK c \in created : OldName(c.pod.name) = p.name
        BY DEF Invariant, RemovedAfterReplacement
    <2>2. PICK q \in pods : q.name.base = c.pod.name.base /\ q.name.gen >= c.pod.name.gen
        BY DEF DescendantLives
    <2>3. c.pod.name \in Names /\ q.name.gen \in Nat
        BY DEF Invariant, ClusterInv, PodIds, Names
    <2>4. p.name.base = c.pod.name.base /\ p.name.gen = c.pod.name.gen - 1
        BY <2>1 DEF OldName
    <2> QED
        BY <2>2, <2>3, <2>4 DEF Names
  <1> QED
      BY <1>1, DescendantsAlways, PTL
-----------------------------------------------------------------------------
(* Each step of the system is a step of a hand-over, or none. *)
LEMMA StepSimulation ==
    ASSUME Invariant, DescendantLives, [Next]_vars
    PROVE  [AHandover!HandoverNext]_(AHandover!handoverVars)
  <1>1. ASSUME HandoverFrame PROVE UNCHANGED AHandover!handoverVars
      BY <1>1, FrameStutters
  <1>2. CASE UserStep
    <2>1. UNCHANGED <<pods, checkpointed, created, removed>>
        BY <1>2 DEF UserStep
    <2>2. ASSUME NEW k \in Migrations, NEW s \in Requests, ApplyMigration(k, s)
          PROVE  AHandover!HandoverNext
      <3>1. AHandover!Ask(s)
          BY <2>1, <2>2 DEF ApplyMigration, AHandover!Ask
      <3> QED
          BY <3>1 DEF AHandover!HandoverNext
    <2>3. ASSUME NEW k \in Migrations, DeleteMigration(k) PROVE HandoverFrame
        BY <2>1, <2>3 DEF DeleteMigration, HandoverFrame
    <2> QED
        BY <1>1, <1>2, <2>2, <2>3 DEF UserStep
  <1>3. CASE WorkerMoves
    <2>1. WorkerNext /\ WorkerFrame
        BY <1>3, WorkerFrames DEF WorkerMoves
    <2>2. ASSUME CheckpointPod PROVE AHandover!HandoverNext
      <3>1. wpod \in pods /\ AHandover!Checkpoint(wpod)
          BY <2>1, <2>2 DEF CheckpointPod, WorkerFrame, AHandover!Checkpoint
      <3> QED
          BY <3>1 DEF AHandover!HandoverNext
    <2> QED
        BY <1>1, <2>1, <2>2, WorkerFramesOrCheckpoints
  <1>4. CASE DeployMoves
    <2>1. DeployNext /\ DeployFrame
        BY <1>4, DeployFrames DEF DeployMoves
    <2>2. ASSUME NEW n \in Nodes, CreateNewPod(n) PROVE AHandover!HandoverNext
        BY <2>1, <2>2, Creates DEF AHandover!HandoverNext
    <2> QED
        BY <1>1, <2>1, <2>2, DeployFramesOrCreates
  <1>5. CASE PipelineMoves \/ ManagerCrash
      BY <1>1, <1>5, OthersFrame
  <1>6. CASE RestoreMoves
    <2>1. UNCHANGED <<requested, checkpointed, created>>
        BY <1>6 DEF RestoreMoves, RestoreNext, ConsumeDelete, DeleteOldPod, DeleteOldPodFails
    <2>2. ASSUME ConsumeDelete \/ DeleteOldPodFails PROVE HandoverFrame
        BY <2>1, <2>2 DEF ConsumeDelete, DeleteOldPodFails, HandoverFrame
    <2>3. ASSUME DeleteOldPod, OldPod(deleting) \notin pods PROVE HandoverFrame
        BY <2>1, <2>3 DEF DeleteOldPod, HandoverFrame
    <2>4. ASSUME DeleteOldPod, OldPod(deleting) \in pods PROVE AHandover!HandoverNext
      <3> DEFINE r == OldPod(deleting)
      <3>1. /\ \E s \in requested : AsksFor(s, r)
            /\ \E c \in created : c.pod.name = deleting.pod
            /\ deleting.pod \in Names
          BY <2>4, RemovesOlder DEF TracedRequests, Checkpoints
      <3>2. deleting.pod = [base |-> r.name.base, gen |-> r.name.gen + 1]
          BY <2>4, <3>1, RemovesOlder DEF Names
      <3>3. \E c \in Placed : c.pod.name = deleting.pod
        <4>1. PICK c \in created : c.pod.name = deleting.pod
            BY <3>1
        <4>2. [pod |-> c.pod, node |-> c.node] \in Placed
            BY DEF Placed
        <4> QED
            BY <4>1, <4>2
      <3>4. \E q \in pods : AHandover!Later(q, r)
          BY <2>4, RemovesOlder
      <3>5. pods' = pods \ {r} /\ removed' = removed \cup {r}
          BY <2>4 DEF DeleteOldPod
      <3>6. Placed' = Placed
          BY <2>1 DEF Placed
      <3> HIDE DEF r
      <3>7. AHandover!Remove(r)
          BY <2>1, <3>1, <3>2, <3>3, <3>4, <3>5, <3>6 DEF AHandover!Remove, Placed
      <3> QED
          BY <2>4, <3>7 DEF AHandover!HandoverNext, r
    <2> QED
        BY <1>1, <1>6, <2>2, <2>3, <2>4 DEF RestoreMoves, RestoreNext
  <1>7. CASE UNCHANGED vars
      BY <1>1, <1>7 DEF HandoverFrame
  <1> QED
      BY <1>2, <1>3, <1>4, <1>5, <1>6, <1>7 DEF Next

(* The six programs keep the promise of a single hand-over: whatever the   *)
(* system does is something Handover may do.                               *)
THEOREM Implements == Spec => ImplementsHandover
  <1>1. Init => AHandover!HandoverInit
      BY DEF Init, ClusterInit, AdmissionInit, AHandover!HandoverInit
  <1>2. Invariant /\ DescendantLives /\ [Next]_vars
            => [AHandover!HandoverNext]_(AHandover!handoverVars)
      BY StepSimulation
  <1> QED
      BY <1>1, <1>2, DescendantsAlways, PTL DEF Spec, ImplementsHandover,
         AHandover!HandoverSpec
=============================================================================
