-------------------------- MODULE Registry_proofs --------------------------
(***************************************************************************)
(* Proof that the image of a restored pod is in the registry the pod is    *)
(* told to pull from.  The image, its notification and its message go      *)
(* three ways through four programs; what ties them together is the node   *)
(* of the registry, the key of the message.                                *)
(***************************************************************************)
EXTENDS MigrationSystem_proofs

USE DEF clusterVars, podVars, admissionVars, pipelineVars, registryVars, jobVars,
        workerVars, goroutineVars, restoreVars, vars

(* Registry n has image x, unless it was replaced. *)
Held(n, x) == incarnation[n] = 0 => [node |-> n, image |-> x] \in images

HeldNames(n) == {x \in Names : Held(n, x)}
HeldMessages == {m \in [key : Nodes, value : Names] : Held(m.key, m.value)}
MessagesFor(n) == {m \in HeldMessages : m.key = n}

(* Wherever a name is on its way from the registry to a pod, the registry  *)
(* holds its image.                                                        *)
RegistryInv ==
    /\ \A n \in Nodes : events[n] \in Seq(HeldNames(n))
    /\ topic \in Seq(HeldMessages)
    /\ \A n \in Nodes : list[n] \in Seq(MessagesFor(n))
    /\ ImageToPull

(* A registry keeps its images while it is not replaced. *)
ImagesKept == \A n \in Nodes : incarnation'[n] = 0 =>
    /\ incarnation[n] = 0
    /\ \A x \in Names : [node |-> n, image |-> x] \in images
                            => [node |-> n, image |-> x] \in images'

LEMMA HeldGrows ==
    ASSUME ImagesKept
    PROVE  /\ \A n \in Nodes : Seq(HeldNames(n)) \subseteq Seq(HeldNames(n)')
           /\ HeldMessages \subseteq HeldMessages'
           /\ Seq(HeldMessages) \subseteq Seq(HeldMessages')
           /\ \A n \in Nodes : MessagesFor(n) \subseteq MessagesFor(n)'
           /\ \A n \in Nodes : Seq(MessagesFor(n)) \subseteq Seq(MessagesFor(n)')
  <1>1. \A n \in Nodes : HeldNames(n) \subseteq HeldNames(n)'
      BY DEF ImagesKept, HeldNames, Held
  <1>2. HeldMessages \subseteq HeldMessages'
      BY DEF ImagesKept, HeldMessages, Held
  <1>3. \A n \in Nodes : MessagesFor(n) \subseteq MessagesFor(n)'
      BY <1>2 DEF MessagesFor
  <1> QED
      BY <1>1, <1>2, <1>3, SeqGrows

(* What was created can still be pulled. *)
LEMMA PullsStay ==
    ASSUME Invariant, ImageToPull, ImagesKept, UNCHANGED created
    PROVE  ImageToPull'
  <1>1. ASSUME NEW c \in created, incarnation'[c.registry] = 0
        PROVE  [node |-> c.registry, image |-> c.pod.name] \in images'
    <2>1. c.registry \in Nodes /\ c.pod.name \in Names
        BY DEF Invariant, ClusterInv, PodIds
    <2> QED
        BY <1>1, <2>1 DEF ImageToPull, ImagesKept
  <1> QED
      BY <1>1 DEF ImageToPull

(* A step that sends no notification and no message, and takes none. *)
LEMMA RegistryStable ==
    ASSUME Invariant, RegistryInv, UNCHANGED <<incarnation, images, events, topic, created>>,
           list' = list \/ list' = [n \in Nodes |-> << >>]
    PROVE  RegistryInv'
  <1>1. ImagesKept
      BY DEF ImagesKept
  <1>2. \A n \in Nodes : << >> \in Seq(MessagesFor(n)')
      OBVIOUS
  <1> QED
      BY <1>1, <1>2, HeldGrows, PullsStay DEF RegistryInv
-----------------------------------------------------------------------------
(* The job pushes to the registry that then sends the notification, and    *)
(* the webhook's message has the key of that registry's node.              *)
LEMMA PipelineKeepsHeld ==
    ASSUME Invariant, RegistryInv, PipelineNext
    PROVE  RegistryInv'
  <1>1. UNCHANGED <<created, list>>
      BY PipelineFrames
  <1>2. /\ incarnation \in [Nodes -> Nat]
        /\ events \in [Nodes -> Seq(Checkpoints)]
        /\ Checkpoints \subseteq Names
      BY DEF Invariant, PipelineInv, Checkpoints
  <1>3. ASSUME ImagesKept,
               \A n \in Nodes : events'[n] \in Seq(HeldNames(n)'),
               topic' \in Seq(HeldMessages')
        PROVE  RegistryInv'
      BY <1>1, <1>3, HeldGrows, PullsStay DEF RegistryInv
  <1>4. ASSUME NEW j \in jobs, PushSucceeds(j) PROVE RegistryInv'
    <2> DEFINE r == j.ip.node
    <2>1. r \in Nodes /\ j.image \in Names
        BY <1>2 DEF Invariant, PipelineInv, PodIPs
    <2>2. /\ UNCHANGED <<incarnation, topic>>
          /\ images' = images \cup {[node |-> r, image |-> j.image]}
          /\ events' = [events EXCEPT ![r] = Append(@, j.image)]
        BY <1>4 DEF PushSucceeds
    <2> HIDE DEF r
    <2>3. ImagesKept
        BY <2>2 DEF ImagesKept
    <2>4. j.image \in HeldNames(r)'
        BY <2>1, <2>2 DEF HeldNames, Held
    <2>5. \A n \in Nodes : events[n] \in Seq(HeldNames(n)')
        BY <2>3, HeldGrows DEF RegistryInv
    <2>6. \A n \in Nodes : events'[n] \in Seq(HeldNames(n)')
      <3>1. events'[r] = Append(events[r], j.image)
            /\ \A n \in Nodes \ {r} : events'[n] = events[n]
          BY <1>2, <2>1, <2>2
      <3>2. events'[r] \in Seq(HeldNames(r)')
          BY <2>1, <2>4, <2>5, <3>1, AppendProperties
      <3> QED
          BY <2>5, <3>1, <3>2
    <2> QED
        BY <1>3, <2>2, <2>3, <2>6, HeldGrows DEF RegistryInv
  <1>5. ASSUME NEW n \in Nodes, RegistryRestart(n) PROVE RegistryInv'
    <2>1. /\ incarnation' = [incarnation EXCEPT ![n] = @ + 1]
          /\ images' = {i \in images : i.node # n}
          /\ events' = [events EXCEPT ![n] = << >>]
          /\ UNCHANGED topic
        BY <1>5 DEF RegistryRestart
    <2>2. incarnation'[n] # 0 /\ \A m \in Nodes \ {n} : incarnation'[m] = incarnation[m]
        BY <1>2, <2>1
    <2>3. ImagesKept
        BY <2>1, <2>2 DEF ImagesKept
    <2>4. events'[n] = << >> /\ \A m \in Nodes \ {n} : events'[m] = events[m]
        BY <1>2, <2>1
    <2>5. << >> \in Seq(HeldNames(n)')
        OBVIOUS
    <2> QED
        BY <1>3, <2>1, <2>3, <2>4, <2>5, HeldGrows DEF RegistryInv
  <1>6. ASSUME NEW w \in Webhooks, NEW n \in Nodes,
               WebhookHandler(w, n) \/ WebhookLate(w, n)
        PROVE  RegistryInv'
    <2>1. /\ events[n] # << >>
          /\ UNCHANGED <<incarnation, images>>
          /\ events' = events \/ Acknowledge(n)
          /\ topic' = topic \/ topic' = Append(topic, PushMessage(n))
        BY <1>6 DEF WebhookHandler, WebhookLate, MyTopic!Publish
    <2>2. ImagesKept
        BY <2>1 DEF ImagesKept
    <2>3. Head(events[n]) \in HeldNames(n) /\ Tail(events[n]) \in Seq(HeldNames(n))
        BY <2>1, HeadTail DEF RegistryInv
    <2>4. PushMessage(n) \in HeldMessages
        BY <2>3 DEF PushMessage, HeldMessages, HeldNames
    <2>5. topic' \in Seq(HeldMessages)
        BY <2>1, <2>4, AppendProperties DEF RegistryInv
    <2>6. \A m \in Nodes : events'[m] \in Seq(HeldNames(m))
        BY <1>2, <2>1, <2>3 DEF Acknowledge, RegistryInv
    <2> QED
        BY <1>3, <2>2, <2>5, <2>6, HeldGrows
  <1>7. ASSUME UNCHANGED <<incarnation, images, events, topic>> PROVE RegistryInv'
      BY <1>1, <1>7, RegistryStable
  <1> QED
      BY <1>4, <1>5, <1>6, <1>7
      DEF PipelineNext, PushFails, ExpireJob, WebhookRestart, PodStarts
-----------------------------------------------------------------------------
(* A goroutine takes the messages of its own node, and the pod it creates  *)
(* pulls from the registry of that node.                                   *)
LEMMA DeployKeepsHeld ==
    ASSUME Invariant, RegistryInv, DeployNext
    PROVE  RegistryInv'
  <1>1. UNCHANGED <<incarnation, images, events>>
      BY DeployFrames DEF DeployFrame
  <1>2. ImagesKept
      BY <1>1 DEF ImagesKept
  <1>3. /\ topic \in Seq(HeldMessages)
        /\ \A n \in Nodes : list[n] \in Seq(MessagesFor(n)) /\ << >> \in Seq(MessagesFor(n))
        /\ list \in [Nodes -> Seq(Messages)]
      BY DEF RegistryInv, Invariant, PipelineInv
  <1> DEFINE Kept == /\ topic' \in Seq(HeldMessages)
                     /\ \A n \in Nodes : list'[n] \in Seq(MessagesFor(n))
  <1>4. Kept
    <2>1. ASSUME NEW i \in 1 .. Len(topic)
          PROVE  topic[i] \in HeldMessages /\ MyTopic!Rest(i) \in Seq(HeldMessages)
        BY <1>3, RestIsSeq DEF MyTopic!Rest
    <2>2. ASSUME NEW n \in Nodes, MyTopic!Take(n) PROVE Kept
      <3>1. PICK i \in 1 .. Len(topic) :
                /\ topic[i].key = n
                /\ topic' = MyTopic!Rest(i)
                /\ list' = [list EXCEPT ![n] = Append(@, topic[i])]
          BY <2>2 DEF MyTopic!Take, MyTopic!First
      <3>2. topic[i] \in MessagesFor(n)
          BY <2>1, <3>1 DEF MessagesFor
      <3>3. Append(list[n], topic[i]) \in Seq(MessagesFor(n))
          BY <1>3, <3>2, AppendProperties
      <3> QED
          BY <1>3, <2>1, <3>1, <3>3
    <2>3. ASSUME NEW n \in Nodes, MyTopic!Lose(n) \/ MyTopic!Finish(n) PROVE Kept
        BY <1>3, <2>1, <2>3 DEF MyTopic!Lose, MyTopic!Finish
    <2>4. ASSUME NEW n \in Nodes, ProduceDelete(n) PROVE Kept
      <3>1. Tail(list[n]) \in Seq(MessagesFor(n))
          BY <1>3, <2>4, Holding, HeadTail DEF ProduceDelete
      <3> QED
          BY <1>3, <2>4, <3>1 DEF ProduceDelete
    <2>5. ASSUME UNCHANGED <<topic, list>> PROVE Kept
        BY <1>3, <2>5
    <2> QED
        BY <2>2, <2>3, <2>4, <2>5
        DEF DeployNext, StartRound, Consume, DeployStep, EndConsume, ConsumeFails,
            Done, LookUp, LookUpFails, DeleteEntry, GetNamespace, CreateNamespace,
            CreateNewPod, DeployFails, End
  <1>5. ImageToPull'
    <2>1. ASSUME NEW n \in Nodes, CreateNewPod(n) PROVE ImageToPull'
      <3> DEFINE c == [pod |-> NewPod(n), node |-> ginfo[n].node, registry |-> ImageRegistry(n)]
      <3>1. created' = created \cup {c}
          BY <2>1 DEF CreateNewPod
      <3>2. list[n] # << >>
          BY <2>1, Holding DEF CreateNewPod
      <3>3. Message(n) \in MessagesFor(n)
          BY <1>3, <3>2, HeadTail DEF Message
      <3>4. Held(n, Message(n).value)
          BY <3>3 DEF MessagesFor, HeldMessages
      <3>5. c.registry = n /\ c.pod.name = Message(n).value
          BY DEF ImageRegistry, NewPod, Pod
      <3> HIDE DEF c
      <3> QED
          BY <1>1, <3>1, <3>4, <3>5 DEF RegistryInv, ImageToPull, Held
    <2>2. ASSUME UNCHANGED created PROVE ImageToPull'
        BY <1>2, <2>2, PullsStay DEF RegistryInv
    <2> QED
        BY <2>1, <2>2
        DEF DeployNext, StartRound, Consume, DeployStep, EndConsume, ConsumeFails,
            Done, LookUp, LookUpFails, DeleteEntry, GetNamespace, CreateNamespace,
            ProduceDelete, DeployFails, ClusterFrame
  <1> QED
      BY <1>1, <1>2, <1>4, <1>5, HeldGrows DEF RegistryInv
-----------------------------------------------------------------------------
LEMMA NextRegistry ==
    ASSUME Invariant, RegistryInv, [Next]_vars
    PROVE  RegistryInv'
  <1>1. CASE UserStep \/ RestoreMoves \/ ManagerCrash \/ UNCHANGED vars
    <2>1. UNCHANGED <<incarnation, images, events, topic, created>>
          /\ (list' = list \/ list' = [n \in Nodes |-> << >>])
        BY <1>1 DEF UserStep, RestoreMoves, RestoreNext, ConsumeDelete, DeleteOldPod,
                    DeleteOldPodFails, ManagerCrash, MyTopic!Forget
    <2> QED
        BY <2>1, RegistryStable
  <1>2. CASE WorkerMoves
    <2>1. UNCHANGED <<incarnation, images, events, topic, created, list>>
        BY <1>2, WorkerFrames DEF WorkerMoves, WorkerFrame
    <2> QED
        BY <2>1, RegistryStable
  <1>3. CASE PipelineMoves
      BY <1>3, PipelineKeepsHeld DEF PipelineMoves
  <1>4. CASE DeployMoves
      BY <1>4, DeployKeepsHeld DEF DeployMoves
  <1> QED
      BY <1>1, <1>2, <1>3, <1>4 DEF Next

(* The image of every pod DeployPodOnNewNode has created is in the         *)
(* registry the pod pulls from, however addresses were looked up, messages *)
(* repeated, dropped and passed over, until that registry is replaced.     *)
THEOREM ImagesToPull == Spec => []ImageToPull
  <1>1. Init => Invariant /\ RegistryInv
    <2>1. Init => RegistryInv
      <3> SUFFICES ASSUME Init PROVE RegistryInv
          OBVIOUS
      <3>1. /\ events = [n \in Nodes |-> << >>] /\ topic = << >>
            /\ list = [n \in Nodes |-> << >>] /\ created = {}
          BY DEF Init, PipelineInit, ClusterInit, MyTopic!TopicInit
      <3> QED
          BY <3>1 DEF RegistryInv, ImageToPull
    <2> QED
        BY <2>1, InitInvariant
  <1>2. Invariant /\ RegistryInv /\ [Next]_vars => (Invariant /\ RegistryInv)'
      BY NextInvariant, NextRegistry
  <1>3. RegistryInv => ImageToPull
      BY DEF RegistryInv
  <1> QED
      BY <1>1, <1>2, <1>3, PTL DEF Spec
-----------------------------------------------------------------------------
(* Where a push goes while nothing has failed: FindRegistry gives          *)
(* ReturnRegistryIP a namespace, which no registry pod has for its node, so *)
(* it is the last of the list, and everything after the push has its node. *)
LastMessages == [key : {lastRegistry}, value : Names]

LastOnly ==
    /\ wpc \in {"image", "push"} => wreg.node = lastRegistry
    /\ \A j \in jobs : j.ip.node = lastRegistry
    /\ \A n \in Nodes : events[n] # << >> => n = lastRegistry
    /\ topic \in Seq(LastMessages)
    /\ \A n \in Nodes : list[n] # << >> => n = lastRegistry
    /\ \A c \in created : c.registry = lastRegistry

LEMMA FaultsCount ==
    ASSUME Invariant, [Next]_vars, faults' = 0
    PROVE  faults = 0 /\ ~ \E kind : Fault(kind)
  <1>1. faults \in Nat
      BY Constants DEF Invariant, ClusterInv
  <1>2. ~ \E kind : Fault(kind)
      BY <1>1 DEF Fault
  <1>3. CASE WorkerMoves
      BY <1>2, <1>3
      DEF WorkerMoves, WorkerNext, WorkerStep, Reconcile, ReconcileNotFound, FilterPods,
          NextPod, ReconcileDone, CheckpointPod, CheckpointPodFails, FindRegistry,
          OriginalImageChecker, PushImage, DeleteBuildahJobs, StepFails, Calm
  <1>4. CASE PipelineMoves
      BY <1>2, <1>4
      DEF PipelineMoves, PipelineNext, PushSucceeds, PushFails, ExpireJob,
          RegistryRestart, WebhookHandler, WebhookLate, WebhookRestart, PodStarts
  <1>5. CASE DeployMoves
      BY <1>2, <1>5
      DEF DeployMoves, DeployNext, DeployStep, StartRound, Consume, EndConsume,
          ConsumeFails, Done, LookUp, LookUpFails, DeleteEntry, GetNamespace,
          CreateNamespace, CreateNewPod, ProduceDelete, DeployFails
  <1>6. CASE UserStep \/ RestoreMoves \/ ManagerCrash \/ UNCHANGED vars
      BY <1>2, <1>6
      DEF UserStep, RestoreMoves, RestoreNext, ConsumeDelete, DeleteOldPod,
          DeleteOldPodFails, ManagerCrash
  <1> QED
      BY <1>2, <1>3, <1>4, <1>5, <1>6 DEF Next

LEMMA WorkerKeepsLast ==
    ASSUME Invariant, LastOnly, WorkerNext, Namespaces \cap Nodes = {},
           ~ \E kind : Fault(kind)
    PROVE  LastOnly'
  <1>1. UNCHANGED <<incarnation, lastRegistry, events, topic, list, created>>
      BY WorkerFrames DEF WorkerFrame
  <1>2. wpc' \in {"image", "push"} =>
            FindRegistry \/ (wpc \in {"image", "push"} /\ wreg' = wreg)
      BY DEF WorkerNext, WorkerStep, Reconcile, ReconcileNotFound, FilterPods, Listed,
          ListPodsByName, ListPodsOfDeployment, ListPodsSpecified, NextPod,
          ReconcileDone, Return, ReturnError, CheckpointPod, CheckpointPodFails,
          OriginalImageChecker, PushImage, DeleteBuildahJobs, NextContainer, StepFails
  <1>3. FindRegistry => wreg'.node = lastRegistry
    <2>1. SUFFICES ASSUME FindRegistry PROVE wreg'.node = lastRegistry
        OBVIOUS
    <2>2. wspec \in requested
        BY <2>1 DEF FindRegistry, Invariant, WorkerInv
    <2>3. wspec.dst \in Namespaces
        BY <2>2, AdmissionAssumption DEF Invariant, AdmissionInv, ValidateFields, Specs
    <2> QED
        BY <2>1, <2>3 DEF FindRegistry, ReturnRegistryIP, PodIP
  <1>4. \A j \in jobs' : j \in jobs \/ (PushImage /\ j.ip = wreg)
    <2>1. PushImage => \A j \in jobs' : j \in jobs \/ j.ip = wreg
        BY DEF PushImage, BuildahPodPushImage
    <2>2. ~ PushImage => jobs' \subseteq jobs
        BY DEF WorkerNext, WorkerStep, Reconcile, ReconcileNotFound, FilterPods, NextPod,
            ReconcileDone, CheckpointPod, CheckpointPodFails, FindRegistry, Calm,
            OriginalImageChecker, DeleteBuildahJobs, StepFails
    <2> QED
        BY <2>1, <2>2
  <1>5. PushImage => wreg.node = lastRegistry
      BY DEF PushImage, LastOnly
  <1> QED
      BY <1>1, <1>2, <1>3, <1>4, <1>5 DEF LastOnly, LastMessages

LEMMA PipelineKeepsLast ==
    ASSUME Invariant, LastOnly, PipelineNext, UNCHANGED workerVars,
           ~ \E kind : Fault(kind)
    PROVE  LastOnly'
  <1>1. UNCHANGED <<created, list>>
      BY PipelineFrames
  <1>2. UNCHANGED lastRegistry
      BY DEF PipelineNext, PushSucceeds, PushFails, ExpireJob, RegistryRestart,
          WebhookHandler, WebhookLate, WebhookRestart, PodStarts
  <1>3. ASSUME NEW j \in jobs', j \notin jobs PROVE j.ip.node = lastRegistry
    <2>1. PICK i \in jobs, status \in {"succeeded", "failed"} : j = [i EXCEPT !.status = status]
        BY <1>3 DEF PipelineNext, PushSucceeds, PushFails, ExpireJob, SetStatus,
            RegistryRestart, WebhookHandler, WebhookLate, WebhookRestart, PodStarts
    <2>2. i.ip.node = lastRegistry
        BY DEF LastOnly
    <2>3. j.ip = i.ip
        BY <2>1 DEF Invariant, PipelineInv
    <2> QED
        BY <2>2, <2>3
  <1>4. ASSUME NEW n \in Nodes, events'[n] # << >> PROVE n = lastRegistry
    <2>1. events \in [Nodes -> Seq(Checkpoints)]
        BY DEF Invariant, PipelineInv
    <2>2. ASSUME NEW j \in jobs, PushSucceeds(j) PROVE n = lastRegistry
        BY <1>4, <2>1, <2>2 DEF PushSucceeds, LastOnly
    <2>3. ASSUME NEW m \in Nodes, events[m] # << >>, Acknowledge(m) PROVE n = lastRegistry
        BY <1>4, <2>1, <2>3 DEF Acknowledge, LastOnly
    <2>4. ASSUME UNCHANGED events PROVE n = lastRegistry
        BY <1>4, <2>4 DEF LastOnly
    <2> QED
        BY <2>2, <2>3, <2>4
        DEF PipelineNext, PushFails, ExpireJob, RegistryRestart, WebhookHandler,
            WebhookLate, WebhookRestart, PodStarts
  <1>5. topic' \in Seq(LastMessages)
    <2>1. topic \in Seq(LastMessages)
        BY DEF LastOnly
    <2>2. ASSUME NEW n \in Nodes, events[n] # << >>, topic' = Append(topic, PushMessage(n))
          PROVE  topic' \in Seq(LastMessages)
      <3>1. n = lastRegistry
          BY <2>2 DEF LastOnly
      <3>2. Head(events[n]) \in Names
          BY <2>2, HeadTail DEF Invariant, PipelineInv, Checkpoints
      <3>3. PushMessage(n) \in LastMessages
          BY <3>1, <3>2 DEF PushMessage, LastMessages
      <3> QED
          BY <2>1, <2>2, <3>3, AppendProperties
    <2> QED
        BY <2>1, <2>2
        DEF PipelineNext, PushSucceeds, PushFails, ExpireJob, RegistryRestart,
            WebhookHandler, WebhookLate, WebhookRestart, PodStarts, MyTopic!Publish
  <1> QED
      BY <1>1, <1>2, <1>3, <1>4, <1>5 DEF LastOnly, LastMessages

LEMMA DeployKeepsLast ==
    ASSUME Invariant, LastOnly, DeployNext, UNCHANGED workerVars
    PROVE  LastOnly'
  <1>1. UNCHANGED <<lastRegistry, events, jobs>>
      BY DeployFrames DEF DeployFrame
  <1>2. /\ topic \in Seq(LastMessages) /\ LastMessages' = LastMessages
        /\ list \in [Nodes -> Seq(Messages)]
      BY <1>1 DEF LastOnly, LastMessages, Invariant, PipelineInv
  <1> DEFINE Kept == /\ topic' \in Seq(LastMessages)
                     /\ \A n \in Nodes : list'[n] # << >> => n = lastRegistry
  <1>3. Kept
    <2>1. ASSUME NEW i \in 1 .. Len(topic)
          PROVE  topic[i].key = lastRegistry /\ MyTopic!Rest(i) \in Seq(LastMessages)
      <3>1. topic[i] \in LastMessages
          BY <1>2, ElementOfSeq
      <3>2. topic[i].key = lastRegistry
          BY <3>1 DEF LastMessages
      <3> QED
          BY <1>2, <3>2, RestIsSeq DEF MyTopic!Rest
    <2>2. ASSUME NEW n \in Nodes, MyTopic!Take(n) \/ MyTopic!Lose(n) \/ MyTopic!Finish(n)
          PROVE  Kept
        BY <1>2, <2>1, <2>2
        DEF MyTopic!Take, MyTopic!Lose, MyTopic!Finish, MyTopic!First, LastOnly
    <2>3. ASSUME NEW n \in Nodes, ProduceDelete(n) PROVE Kept
      <3>1. list[n] # << >>
          BY <2>3, Holding DEF ProduceDelete
      <3> QED
          BY <1>2, <2>3, <3>1 DEF ProduceDelete, LastOnly
    <2>4. ASSUME UNCHANGED <<topic, list>> PROVE Kept
        BY <1>2, <2>4 DEF LastOnly
    <2> QED
        BY <2>2, <2>3, <2>4
        DEF DeployNext, StartRound, Consume, DeployStep, EndConsume, ConsumeFails,
            Done, LookUp, LookUpFails, DeleteEntry, GetNamespace, CreateNamespace,
            CreateNewPod, DeployFails, End
  <1>4. ASSUME NEW c \in created', c \notin created PROVE c.registry = lastRegistry
    <2>1. PICK n \in Nodes : CreateNewPod(n)
        BY <1>4
        DEF DeployNext, StartRound, Consume, DeployStep, EndConsume, ConsumeFails,
            Done, LookUp, LookUpFails, DeleteEntry, GetNamespace, CreateNamespace,
            ProduceDelete, DeployFails, ClusterFrame
    <2>2. c.registry = n
        BY <1>4, <2>1 DEF CreateNewPod, ImageRegistry
    <2>3. list[n] # << >>
        BY <2>1, Holding DEF CreateNewPod
    <2> QED
        BY <2>2, <2>3 DEF LastOnly
  <1> QED
      BY <1>1, <1>2, <1>3, <1>4 DEF LastOnly

LEMMA NextLast ==
    ASSUME Invariant, faults = 0 => LastOnly, [Next]_vars, Namespaces \cap Nodes = {},
           faults' = 0
    PROVE  LastOnly'
  <1>1. LastOnly /\ ~ \E kind : Fault(kind)
      BY FaultsCount
  <1>2. CASE UserStep \/ RestoreMoves \/ ManagerCrash \/ UNCHANGED vars
    <2>1. UNCHANGED <<lastRegistry, events, topic, created, jobs, list, wpc, wreg>>
        BY <1>1, <1>2 DEF UserStep, RestoreMoves, RestoreNext, ConsumeDelete, DeleteOldPod,
                          DeleteOldPodFails, ManagerCrash
    <2> QED
        BY <1>1, <2>1 DEF LastOnly, LastMessages
  <1>3. CASE WorkerMoves
      BY <1>1, <1>3, WorkerKeepsLast DEF WorkerMoves
  <1>4. CASE PipelineMoves
      BY <1>1, <1>4, PipelineKeepsLast DEF PipelineMoves
  <1>5. CASE DeployMoves
      BY <1>1, <1>5, DeployKeepsLast DEF DeployMoves
  <1> QED
      BY <1>2, <1>3, <1>4, <1>5 DEF Next

(* While nothing has failed, all pods are restored from one registry, and  *)
(* all messages are for the goroutine of its node: the look-up by a        *)
(* namespace falls back to one registry, so no goroutine's message waits   *)
(* behind, or is passed over for, another's (deploy-new-pod.go:120).       *)
THEOREM OneRegistry ==
    ASSUME Namespaces \cap Nodes = {}
    PROVE  Spec => [](faults = 0 => LastOnly)
  <1>1. Init => Invariant /\ (faults = 0 => LastOnly)
    <2>1. Init => LastOnly
        BY DEF Init, PipelineInit, ClusterInit, WorkerInit, MyTopic!TopicInit, LastOnly
    <2> QED
        BY <2>1, InitInvariant
  <1>2. Invariant /\ (faults = 0 => LastOnly) /\ [Next]_vars
            => (Invariant /\ (faults = 0 => LastOnly))'
      BY NextInvariant, NextLast
  <1> QED
      BY <1>1, <1>2, PTL DEF Spec
=============================================================================
