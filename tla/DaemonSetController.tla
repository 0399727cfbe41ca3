------------------------ MODULE DaemonSetController ------------------------
(***************************************************************************)
(* DaemonSetReconciler (internal/controller/daemonset_controller.go) and   *)
(* DeployPodOnNewNode (handlers/deploy-new-pod.go): in rounds, one         *)
(* goroutine per registry pod consumes the messages of its node and, for   *)
(* each, takes the migration out of ProcessPodsMap, creates the pod on the *)
(* destination and asks for the old pod to be deleted.  The goroutines     *)
(* share the map, the topic and the namespaces of the cluster.             *)
(***************************************************************************)
EXTENDS Admission, RegistryPipeline, RestoreHandler

VARIABLES
    gpc,       \* gpc[n]: step of goroutine n
    ginfo      \* ginfo[n]: the MigrationInfo it read from the map

goroutineVars == <<gpc, ginfo>>

DeployInit ==
    /\ gpc = [n \in Nodes |-> "idle"]
    /\ ginfo = [n \in Nodes |-> Unset]

Goto(n, step) == gpc' = [gpc EXCEPT ![n] = step]

(* What a step of a goroutine leaves alone unless it says otherwise. *)
DeployFrame == UNCHANGED <<migrations, queue, requested, edits, running,
                           removed, checkpointed, registryVars, jobVars, events,
                           deleting>>
ClusterFrame == UNCHANGED <<pods, namespaces, created>>

(* Reconcile: a round starts when every goroutine of the last has ended. *)
StartRound ==
    /\ \A n \in Nodes : gpc[n] = "idle"
    /\ gpc' = [n \in Nodes |-> "consume"]
    /\ UNCHANGED <<processPods, ginfo, delTopic, topic, list, faults>>
    /\ ClusterFrame /\ DeployFrame

Message(n) == Head(list[n])

Consume(n) ==
    /\ gpc[n] = "consume"
    /\ MyTopic!Take(n)
    /\ UNCHANGED <<processPods, goroutineVars, delTopic, faults>>
    /\ ClusterFrame /\ DeployFrame

(* The deadline of ConsumeMessage passes while it waits for a message. *)
EndConsume(n) ==
    /\ gpc[n] = "consume"
    /\ Goto(n, "loop")
    /\ UNCHANGED <<processPods, ginfo, delTopic, topic, list, faults>>
    /\ ClusterFrame /\ DeployFrame

(* DeployPodOnNewNode has returned, with the rest of its list. *)
End(n) ==
    /\ Goto(n, "idle")
    /\ ginfo' = [ginfo EXCEPT ![n] = Unset]
    /\ MyTopic!Finish(n)

(* ConsumeMessage returns an error: the deadline fell between two fetches, *)
(* or the commit of a message failed that the broker had taken.            *)
ConsumeFails(n) ==
    /\ gpc[n] = "consume"
    /\ \/ Fault("deadline") /\ End(n)
       \/ /\ Fault("commit")
          /\ MyTopic!Lose(n)
          /\ Goto(n, "idle")
          /\ UNCHANGED ginfo
    /\ UNCHANGED <<processPods, delTopic>>
    /\ ClusterFrame /\ DeployFrame

Done(n) ==
    /\ gpc[n] = "loop"
    /\ list[n] = << >>
    /\ End(n)
    /\ UNCHANGED <<processPods, delTopic, faults>>
    /\ ClusterFrame /\ DeployFrame

(* The map is read under the old pod's name; without an entry the rest of  *)
(* the list is abandoned.                                                  *)
EntriesOf(x) == {e \in processPods : e.pod = x}

LookUp(n) ==
    /\ gpc[n] = "loop"
    /\ list[n] # << >>
    /\ \E e \in EntriesOf(OldName(Message(n).value)) :
           ginfo' = [ginfo EXCEPT ![n] = e]
    /\ Goto(n, "delete")
    /\ UNCHANGED <<processPods, delTopic, topic, list, faults>>
    /\ ClusterFrame /\ DeployFrame

LookUpFails(n) ==
    /\ gpc[n] = "loop"
    /\ list[n] # << >>
    /\ EntriesOf(OldName(Message(n).value)) = {}
    /\ End(n)
    /\ UNCHANGED <<processPods, delTopic, faults>>
    /\ ClusterFrame /\ DeployFrame

(* delete(ProcessPodsMap, oldPodName), before the pod is created. *)
DeleteEntry(n) ==
    /\ gpc[n] = "delete"
    /\ processPods' = processPods \ EntriesOf(OldName(Message(n).value))
    /\ Goto(n, "namespace")
    /\ UNCHANGED <<ginfo, delTopic, topic, list, faults>>
    /\ ClusterFrame /\ DeployFrame

(* Mutant: the pod is created only when its namespace had to be. *)
GetNamespaceSkips(n) ==
    /\ gpc[n] = "namespace"
    /\ Goto(n, IF ginfo[n].dst \in namespaces THEN "produce" ELSE "mkns")
    /\ UNCHANGED <<processPods, ginfo, delTopic, topic, list, faults>>
    /\ ClusterFrame /\ DeployFrame

(* checkDestinationNameSpaceExists: Get, *)
GetNamespace(n) ==
    /\ gpc[n] = "namespace"
    /\ Goto(n, IF ginfo[n].dst \in namespaces THEN "create" ELSE "mkns")
    /\ UNCHANGED <<processPods, ginfo, delTopic, topic, list, faults>>
    /\ ClusterFrame /\ DeployFrame

(* then Create, an error when another goroutine was faster. *)
CreateNamespace(n) ==
    /\ gpc[n] = "mkns"
    /\ ginfo[n].dst \notin namespaces
    /\ namespaces' = namespaces \cup {ginfo[n].dst}
    /\ Goto(n, "create")
    /\ UNCHANGED <<pods, created, processPods, ginfo, delTopic, topic, list,
                   faults>>
    /\ DeployFrame

(* Mutant: the pod is created in the namespace it comes from. *)
NewPodInSource(n) == Pod(ginfo[n].ns, Message(n).value)

(* migratePod: its place comes from the map, its image from the registry   *)
(* of the goroutine.                                                       *)
NewPod(n) == Pod(ginfo[n].dst, Message(n).value)

(* Mutant: the image is taken from the registry of the destination. *)
RegistryOfDestination(n) == ginfo[n].node

(* imageLocation: the address of the registry pod the goroutine is for. *)
ImageRegistry(n) == n

CreateNewPod(n) ==
    /\ gpc[n] = "create"
    /\ NewPod(n) \notin pods
    /\ pods' = pods \cup {NewPod(n)}
    /\ created' = created \cup {[pod |-> NewPod(n), node |-> ginfo[n].node,
                                 registry |-> ImageRegistry(n)]}
    /\ Goto(n, "produce")
    /\ UNCHANGED <<namespaces, processPods, ginfo, delTopic, topic, list, faults>>
    /\ DeployFrame

(* Mutant: the namespace in the request is the new pod's. *)
DeleteRequestAtDestination(n) == [pod |-> Message(n).value, ns |-> ginfo[n].dst]

(* The new pod's name and the old pod's namespace go to "delete-pod". *)
DeleteRequest(n) == [pod |-> Message(n).value, ns |-> ginfo[n].ns]

ProduceDelete(n) ==
    /\ gpc[n] = "produce"
    /\ delTopic' = Append(delTopic, DeleteRequest(n))
    /\ list' = [list EXCEPT ![n] = Tail(@)]
    /\ ginfo' = [ginfo EXCEPT ![n] = Unset]
    /\ Goto(n, "loop")
    /\ UNCHANGED <<processPods, topic, faults>>
    /\ ClusterFrame /\ DeployFrame

(* The namespace or the pod exists already, the node's metrics, the API    *)
(* server or Kafka cannot be reached: the goroutine returns the error.     *)
Conflict(n) ==
    \/ gpc[n] = "mkns" /\ ginfo[n].dst \in namespaces
    \/ gpc[n] = "create" /\ NewPod(n) \in pods

(* Mutant: the error is logged, and the request to delete still sent. *)
DeployFailsAndGoesOn(n) ==
    /\ \/ Conflict(n) /\ UNCHANGED faults
       \/ gpc[n] \in {"namespace", "mkns", "create"} /\ Fault("api")
    /\ Goto(n, "produce")
    /\ UNCHANGED <<ginfo, processPods, delTopic, topic, list>>
    /\ ClusterFrame /\ DeployFrame

DeployFails(n) ==
    /\ \/ Conflict(n) /\ UNCHANGED faults
       \/ gpc[n] \in {"namespace", "mkns", "create", "produce"} /\ Fault("api")
    /\ End(n)
    /\ UNCHANGED <<processPods, delTopic>>
    /\ ClusterFrame /\ DeployFrame

DeployStep(n) ==
    \/ EndConsume(n)
    \/ ConsumeFails(n)
    \/ Done(n)
    \/ LookUp(n)
    \/ LookUpFails(n)
    \/ DeleteEntry(n)
    \/ GetNamespace(n)
    \/ CreateNamespace(n)
    \/ CreateNewPod(n)
    \/ ProduceDelete(n)
    \/ DeployFails(n)

DeployNext == StartRound \/ \E n \in Nodes : Consume(n) \/ DeployStep(n)
=============================================================================
