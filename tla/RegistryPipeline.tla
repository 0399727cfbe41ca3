-------------------------- MODULE RegistryPipeline --------------------------
(***************************************************************************)
(* From a checkpoint to a message: the buildah job that pushes the image   *)
(* (handlers/buildah.go), the registry pod of each node and the            *)
(* notifications it sends, the webhook that turns a notification into a    *)
(* message (testwebhook/), and "my-topic" as Topic.tla abstracts it.       *)
(* Jobs, registries and Kafka are external; the webhook is the code's.     *)
(***************************************************************************)
EXTENDS Cluster

CONSTANTS
    Webhooks,    \* replicas of the webhook
    MaxPushes    \* bound: buildah jobs ever created

ASSUME PipelineAssumption == MaxPushes \in Nat

VARIABLES
    incarnation,  \* how often the registry pod of a node was replaced
    lastRegistry, \* node of the last pod in the API server's registry list
    images,       \* [node, image] of each image a registry holds
    jobs,         \* buildah jobs that exist
    pushes,       \* buildah jobs ever created
    events,       \* events[n]: notifications registry n has still to send
    known,        \* known[w]: registryPodList, read once when w starts; or Unset
    topic,        \* messages the manager's consumer group has still to read
    list          \* list[n]: messages goroutine n has taken

registryVars == <<incarnation, lastRegistry, images, known>>
jobVars == <<jobs, pushes>>
pipelineVars == <<registryVars, jobVars, events, topic, list>>

MyTopic == INSTANCE Topic

(* The pod IP of the registry on node n: a replacement gets a new one. *)
PodIP(n) == [node |-> n, inc |-> incarnation[n]]
PodIPs == [node : Nodes, inc : Nat]
ListPods == {PodIP(n) : n \in Nodes}

PipelineInit ==
    /\ incarnation = [n \in Nodes |-> 0]
    /\ lastRegistry \in Nodes
    /\ images = {}
    /\ jobs = {}
    /\ pushes = 0
    /\ events = [n \in Nodes |-> << >>]
    /\ known = [w \in Webhooks |-> ListPods]
    /\ MyTopic!TopicInit

(* ReturnRegistryIP: the loop stops at the pod on the node it is given; if *)
(* there is none it has gone through the list and holds the last one.      *)
ReturnRegistryIP(nodeName) ==
    PodIP(IF nodeName \in Nodes THEN nodeName ELSE lastRegistry)

(* BuildahPodPushImage creates a job, named after the time. *)
BuildahPodPushImage(x, ip) ==
    /\ pushes < MaxPushes
    /\ pushes' = pushes + 1
    /\ jobs' = jobs \cup {[id |-> pushes, image |-> ImageName(x), ip |-> ip,
                           status |-> "active"]}

(* Mutant: every job of the namespace is deleted. *)
AllJobs == jobs

(* DeleteBuildahJobs deletes the jobs that have succeeded. *)
CompletedJobs == {j \in jobs : j.status = "succeeded"}

SetStatus(j, status) ==
    jobs' = (jobs \ {j}) \cup {[j EXCEPT !.status = status]}

(* The job pushes the image and the registry queues a notification. *)
PushSucceeds(j) ==
    /\ j.status = "active"
    /\ j.ip = PodIP(j.ip.node)
    /\ SetStatus(j, "succeeded")
    /\ images' = images \cup {[node |-> j.ip.node, image |-> j.image]}
    /\ events' = [events EXCEPT ![j.ip.node] = Append(@, j.image)]
    /\ UNCHANGED <<clusterVars, incarnation, lastRegistry, known, pushes,
                   topic, list>>

(* Nothing answers at the address, or the job's two attempts fail. *)
PushFails(j) ==
    /\ j.status = "active"
    /\ \/ j.ip # PodIP(j.ip.node) /\ UNCHANGED faults
       \/ Fault("push")
    /\ SetStatus(j, "failed")
    /\ UNCHANGED <<podVars, registryVars, pushes, events, topic, list>>

(* A finished job outlives its thirty seconds. *)
ExpireJob(j) ==
    /\ j.status # "active"
    /\ jobs' = jobs \ {j}
    /\ UNCHANGED <<clusterVars, registryVars, pushes, events, topic, list>>

(* A registry pod is replaced: its images and the notifications it had not *)
(* sent are gone, it has a new IP, and the list comes in another order.    *)
RegistryRestart(n) ==
    /\ Fault("registry")
    /\ incarnation' = [incarnation EXCEPT ![n] = @ + 1]
    /\ lastRegistry' \in Nodes
    /\ images' = {i \in images : i.node # n}
    /\ events' = [events EXCEPT ![n] = << >>]
    /\ UNCHANGED <<podVars, known, jobVars, topic, list>>

(* The registry has an answer to its oldest notification. *)
Acknowledge(n) == events' = [events EXCEPT ![n] = Tail(@)]

(* GetNodeNameByHostIP finds the address the image was pushed to. *)
HasList(w) == known[w] # Unset
NodeKnown(w, n) == HasList(w) /\ PodIP(n) \in known[w]

PushMessage(n) == [key |-> n, value |-> Head(events[n])]

(* webhookHandler answers 200 to everything it can decode: when the        *)
(* message is published, when the registry is not in its list (the         *)
(* notification is skipped), and when the producer reports an error.       *)
(* Without a list it panics, which net/http turns into no answer at all:   *)
(* the registry has to send the notification again.                        *)
WebhookHandler(w, n) ==
    /\ events[n] # << >>
    /\ HasList(w)
    /\ Acknowledge(n)
    /\ \/ /\ NodeKnown(w, n)
          /\ MyTopic!Publish(PushMessage(n))
          /\ UNCHANGED faults
       \/ /\ ~ NodeKnown(w, n)
          /\ UNCHANGED <<topic, list, faults>>
       \/ /\ NodeKnown(w, n)
          /\ Fault("produce")
          /\ UNCHANGED <<topic, list>>
    /\ UNCHANGED <<podVars, registryVars, jobVars>>

(* The answer comes after the registry's timeout of five seconds, so the   *)
(* registry sends the notification again.                                  *)
WebhookLate(w, n) ==
    /\ events[n] # << >>
    /\ NodeKnown(w, n)
    /\ Fault("late")
    /\ MyTopic!Publish(PushMessage(n))
    /\ UNCHANGED <<podVars, registryVars, jobVars, events>>

(* A webhook replica starts anew and lists the registry pods; when it      *)
(* cannot, it logs the error and goes on serving, without a list.          *)
WebhookRestart(w) ==
    /\ \/ /\ known[w] # ListPods
          /\ known' = [known EXCEPT ![w] = ListPods]
          /\ UNCHANGED faults
       \/ /\ Fault("webhook")
          /\ known' = [known EXCEPT ![w] = Unset]
    /\ UNCHANGED <<podVars, incarnation, lastRegistry, images, jobVars,
                   events, topic, list>>

(* The kubelet has pulled the image of a pod and starts it. *)
PodStarts(c) ==
    /\ c.pod \in pods \ running
    /\ [node |-> c.registry, image |-> c.pod.name] \in images
    /\ running' = running \cup {c.pod}
    /\ UNCHANGED <<pods, namespaces, created, removed, checkpointed, faults,
                   pipelineVars>>

PipelineNext ==
    \/ \E j \in jobs : PushSucceeds(j) \/ PushFails(j) \/ ExpireJob(j)
    \/ \E n \in Nodes : RegistryRestart(n)
    \/ \E w \in Webhooks :
        \/ WebhookRestart(w)
        \/ \E n \in Nodes : WebhookHandler(w, n) \/ WebhookLate(w, n)
    \/ \E c \in created : PodStarts(c)
=============================================================================
