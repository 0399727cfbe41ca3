--------------------------- MODULE Counting_proofs ---------------------------
(***************************************************************************)
(* Proof that pods are replaced one for one, namesakes too.  A request to  *)
(* delete a pod is an answer to a pod that was created: from the creation  *)
(* to the deletion exactly one goroutine, one message of "delete-pod" or   *)
(* one message in the hands of the restore handler stands for it.  A       *)
(* failed commit breaks the count, as the handler does not look at its     *)
(* error and has the request twice.                                        *)
(***************************************************************************)
EXTENDS MigrationSystem_proofs, FiniteSetTheorems

USE DEF clusterVars, podVars, admissionVars, pipelineVars, registryVars, jobVars,
        workerVars, goroutineVars, restoreVars, vars

(* Goroutines that have created a pod and not yet asked for the deletion. *)
Producing == {n \in Nodes : gpc[n] = "produce"}

(* Deletions that are still to come. *)
Due == Len(delTopic) + (IF deleting = Unset THEN 0 ELSE 1) + Cardinality(Producing)

PodsCounted ==
    /\ IsFiniteSet(pods)
    /\ Cardinality(pods) >= Cardinality(InitialPods) + Due

(* The numbers are numbers. *)
LEMMA CountsFinite ==
    ASSUME Invariant, IsFiniteSet(pods)
    PROVE  /\ Cardinality(pods) \in Nat /\ Cardinality(InitialPods) \in Nat
           /\ IsFiniteSet(Producing) /\ Cardinality(Producing) \in Nat
           /\ delTopic \in Seq(TracedRequests) /\ Len(delTopic) \in Nat
           /\ gpc \in [Nodes -> {"idle", "consume", "loop", "delete", "namespace",
                                 "mkns", "create", "produce"}]
  <1>1. Producing \subseteq Nodes /\ IsFiniteSet(Nodes) /\ IsFiniteSet(InitialPods)
      BY ClusterAssumption DEF Producing
  <1>2. IsFiniteSet(Producing)
      BY <1>1, FS_Subset
  <1>3. /\ Cardinality(pods) \in Nat /\ Cardinality(InitialPods) \in Nat
        /\ Cardinality(Producing) \in Nat
      BY <1>1, <1>2, FS_CardinalityType
  <1>4. delTopic \in Seq(TracedRequests)
      BY DEF Invariant, RestoreInv
  <1> QED
      BY <1>2, <1>3, <1>4 DEF Invariant, DeployInv

(* A step that deletes nothing and has no new deletion to come. *)
LEMMA CountStable ==
    ASSUME Invariant, PodsCounted, pods' = pods, Producing' \subseteq Producing,
           Len(delTopic') = Len(delTopic), deleting' = deleting
    PROVE  PodsCounted'
  <1>1. Cardinality(Producing') \in Nat /\ Cardinality(Producing') <= Cardinality(Producing)
      BY CountsFinite, FS_Subset, FS_CardinalityType DEF PodsCounted
  <1>2. /\ Cardinality(pods) \in Nat /\ Cardinality(InitialPods) \in Nat
        /\ Cardinality(Producing) \in Nat /\ Len(delTopic) \in Nat
      BY CountsFinite DEF PodsCounted
  <1> QED
      BY <1>1, <1>2 DEF PodsCounted, Due

(* One more pod, one more deletion to come. *)
LEMMA CreationCounted ==
    ASSUME Invariant, PodsCounted, NEW n \in Nodes, CreateNewPod(n), DeployFrame
    PROVE  PodsCounted'
  <1>1. NewPod(n) \notin pods /\ pods' = pods \cup {NewPod(n)}
        /\ delTopic' = delTopic /\ deleting' = deleting
      BY DEF CreateNewPod, DeployFrame
  <1>2. n \notin Producing /\ Producing' = Producing \cup {n}
      BY CountsFinite DEF CreateNewPod, Goto, Producing, PodsCounted
  <1>3. /\ IsFiniteSet(pods') /\ Cardinality(pods') = Cardinality(pods) + 1
        /\ Cardinality(Producing') = Cardinality(Producing) + 1
      BY <1>1, <1>2, CountsFinite, FS_AddElement DEF PodsCounted
  <1>4. /\ Cardinality(pods) \in Nat /\ Cardinality(InitialPods) \in Nat
        /\ Cardinality(Producing) \in Nat /\ Len(delTopic) \in Nat
      BY CountsFinite DEF PodsCounted
  <1> QED
      BY <1>1, <1>3, <1>4 DEF PodsCounted, Due

(* The deletion a goroutine had to ask for is a message. *)
LEMMA RequestCounted ==
    ASSUME Invariant, PodsCounted, NEW n \in Nodes, ProduceDelete(n), DeployFrame
    PROVE  PodsCounted'
  <1>1. pods' = pods /\ deleting' = deleting /\ delTopic' = Append(delTopic, DeleteRequest(n))
      BY DEF ProduceDelete, ClusterFrame, DeployFrame
  <1>2. n \in Producing /\ Producing' = Producing \ {n}
      BY CountsFinite DEF ProduceDelete, Goto, Producing, PodsCounted
  <1>3. Cardinality(Producing') = Cardinality(Producing) - 1
      BY <1>2, CountsFinite, FS_RemoveElement DEF PodsCounted
  <1>4. /\ Cardinality(pods) \in Nat /\ Cardinality(InitialPods) \in Nat
        /\ Cardinality(Producing) \in Nat /\ Len(delTopic) \in Nat
      BY CountsFinite DEF PodsCounted
  <1>5. Len(delTopic') = Len(delTopic) + 1
      BY <1>1, CountsFinite DEF PodsCounted
  <1> QED
      BY <1>1, <1>3, <1>4, <1>5 DEF PodsCounted, Due

LEMMA DeployCounted ==
    ASSUME Invariant, PodsCounted, DeployNext
    PROVE  PodsCounted'
  <1>1. DeployFrame
      BY DeployFrames
  <1>2. ASSUME NEW n \in Nodes, CreateNewPod(n) \/ ProduceDelete(n) PROVE PodsCounted'
      BY <1>1, <1>2, CreationCounted, RequestCounted
  <1>3. ASSUME NEW n \in Nodes, NEW x,
               x # "produce", Goto(n, x), UNCHANGED <<pods, delTopic>>
        PROVE  PodsCounted'
    <2>1. Producing' \subseteq Producing
        BY <1>3, CountsFinite DEF Goto, Producing, PodsCounted
    <2> QED
        BY <1>1, <1>3, <2>1, CountStable DEF DeployFrame
  <1>4. ASSUME gpc' = gpc \/ gpc' = [n \in Nodes |-> "consume"], UNCHANGED <<pods, delTopic>>
        PROVE  PodsCounted'
    <2>1. Producing' \subseteq Producing
        BY <1>4 DEF Producing
    <2> QED
        BY <1>1, <1>4, <2>1, CountStable DEF DeployFrame
  <1>5. ASSUME NEW n \in Nodes, DeployStep(n) PROVE PodsCounted'
    <2>1. CASE CreateNewPod(n) \/ ProduceDelete(n)
        BY <1>2, <2>1
    <2>2. CASE ~ (CreateNewPod(n) \/ ProduceDelete(n))
      <3>1. /\ \E x \in {"idle", "loop", "delete", "namespace", "mkns", "create"} : Goto(n, x)
            /\ UNCHANGED <<pods, delTopic>>
          BY <1>5, <2>2
          DEF DeployStep, EndConsume, ConsumeFails, Done, LookUp, LookUpFails,
              DeleteEntry, GetNamespace, CreateNamespace, DeployFails, End, ClusterFrame
      <3> QED
          BY <1>3, <3>1
    <2> QED
        BY <2>1, <2>2
  <1> QED
      BY <1>4, <1>5 DEF DeployNext, StartRound, Consume, ClusterFrame

(* A request is in one pair of hands, and deletes at most one pod. *)
LEMMA RestoreCounted ==
    ASSUME "commit" \notin Faults, Invariant, PodsCounted, RestoreMoves
    PROVE  PodsCounted'
  <1>1. Producing' = Producing
      BY DEF RestoreMoves, Producing
  <1>2. /\ IsFiniteSet(pods)
        /\ Cardinality(pods) \in Nat /\ Cardinality(InitialPods) \in Nat
        /\ Cardinality(Producing) \in Nat /\ Len(delTopic) \in Nat
        /\ delTopic \in Seq(TracedRequests)
      BY CountsFinite DEF PodsCounted
  <1>3. CASE ConsumeDelete
    <2>1. deleting = Unset /\ delTopic # << >> /\ delTopic' = Tail(delTopic) /\ pods' = pods
        BY <1>3 DEF ConsumeDelete, Fault
    <2>2. Len(delTopic') = Len(delTopic) - 1
        BY <1>2, <2>1, HeadTailProperties
    <2> QED
        BY <1>1, <1>2, <2>1, <2>2 DEF PodsCounted, Due
  <1>4. CASE DeleteOldPod
    <2>1. /\ deleting # Unset /\ deleting' = Unset /\ delTopic' = delTopic
          /\ pods' = pods \ {OldPod(deleting)}
        BY <1>4 DEF DeleteOldPod
    <2>2. IsFiniteSet(pods') /\ Cardinality(pods') \in Nat
          /\ Cardinality(pods') >= Cardinality(pods) - 1
        BY <1>2, <2>1, FS_RemoveElement, FS_CardinalityType
    <2> QED
        BY <1>1, <1>2, <2>1, <2>2 DEF PodsCounted, Due
  <1>5. CASE DeleteOldPodFails
    <2>1. deleting # Unset /\ deleting' = Unset /\ delTopic' = delTopic /\ pods' = pods
        BY <1>5 DEF DeleteOldPodFails
    <2> QED
        BY <1>1, <1>2, <2>1 DEF PodsCounted, Due
  <1> QED
      BY <1>3, <1>4, <1>5 DEF RestoreMoves, RestoreNext

LEMMA NextCounted ==
    ASSUME "commit" \notin Faults, Invariant, PodsCounted, [Next]_vars
    PROVE  PodsCounted'
  <1>1. CASE UserStep \/ WorkerMoves \/ PipelineMoves \/ UNCHANGED vars
    <2>1. UNCHANGED <<pods, delTopic, deleting, gpc>>
        BY <1>1, WorkerFrames, PipelineFrames
        DEF UserStep, WorkerMoves, WorkerFrame, PipelineMoves
    <2> QED
        BY <2>1, CountStable DEF Producing
  <1>2. CASE ManagerCrash
    <2>1. UNCHANGED <<pods, delTopic, deleting>> /\ Producing' = {}
        BY <1>2 DEF ManagerCrash, Producing
    <2> QED
        BY <2>1, CountStable
  <1>3. CASE DeployMoves
      BY <1>3, DeployCounted DEF DeployMoves
  <1>4. CASE RestoreMoves
      BY <1>4, RestoreCounted
  <1> QED
      BY <1>1, <1>2, <1>3, <1>4 DEF Next

(* As long as no commit of the restore handler fails, every pod it deletes *)
(* has a replacement of its own: there are never fewer pods than at first, *)
(* whatever namesakes meet in a namespace and whatever else fails.         *)
THEOREM PodsReplacedOneForOne ==
    ASSUME "commit" \notin Faults
    PROVE  Spec => []NoPodLost
  <1>1. Init => Invariant /\ PodsCounted
    <2>1. ASSUME Init PROVE PodsCounted
      <3>1. /\ pods = InitialPods /\ delTopic = << >> /\ deleting = Unset
            /\ Producing = {}
          BY <2>1 DEF Init, ClusterInit, RestoreInit, DeployInit, Producing
      <3>2. IsFiniteSet(InitialPods) /\ Cardinality(InitialPods) \in Nat
          BY ClusterAssumption, FS_CardinalityType
      <3>3. Cardinality(Producing) = 0 /\ Len(delTopic) = 0
          BY <3>1, FS_EmptySet
      <3> QED
          BY <3>1, <3>2, <3>3 DEF PodsCounted, Due
    <2> QED
        BY <2>1, InitInvariant
  <1>2. Invariant /\ PodsCounted /\ [Next]_vars => (Invariant /\ PodsCounted)'
      BY NextInvariant, NextCounted
  <1>3. Invariant /\ PodsCounted => NoPodLost
    <2> SUFFICES ASSUME Invariant, PodsCounted PROVE NoPodLost
        OBVIOUS
    <2>1. /\ Cardinality(pods) \in Nat /\ Cardinality(InitialPods) \in Nat
          /\ Cardinality(Producing) \in Nat /\ Len(delTopic) \in Nat
        BY CountsFinite DEF PodsCounted
    <2> QED
        BY <2>1 DEF PodsCounted, Due, NoPodLost
  <1> QED
      BY <1>1, <1>2, <1>3, PTL DEF Spec
=============================================================================
