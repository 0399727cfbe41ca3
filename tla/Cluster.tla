------------------------------ MODULE Cluster ------------------------------
(***************************************************************************)
(* The cluster the operator acts on: pods and namespaces of the API        *)
(* server, the names the pipeline gives to checkpoints, and the budget of  *)
(* failures.  The API server is external: it is modelled by the calls the  *)
(* controllers make of it.                                                 *)
(***************************************************************************)
EXTENDS Integers, Sequences, FiniteSets

CONSTANTS
    Nodes,            \* worker nodes; each runs one registry pod
    Namespaces,       \* namespaces a migration may name
    Bases,            \* pod names before any migration
    Unset,            \* the empty string
    Deployments,      \* names of deployments
    InitialPods,      \* pods that run before the first migration
    Replicas,         \* pods the selector of deployment [ns, name] finds
    ContainerCount,   \* containers of each initial pod
    Faults,           \* kinds of failure a run explores
    MaxFaults         \* bound: failures in one behaviour

(* A pod's name and how many times "checkpoint-" has been put before it.   *)
Names == [base : Bases, gen : Nat]
PodIds == [ns : Namespaces, name : Names]
Pod(ns, x) == [ns |-> ns, name |-> x]

ASSUME ClusterAssumption ==
    /\ Unset \notin Nodes \cup Namespaces \cup Deployments \cup Names
    /\ InitialPods \subseteq {p \in PodIds : p.name.gen = 0}
    /\ IsFiniteSet(InitialPods) /\ IsFiniteSet(Nodes)
    /\ DOMAIN Replicas \subseteq [ns : Namespaces, name : Deployments]
    /\ \A d \in DOMAIN Replicas :
           Replicas[d] \subseteq {p \in InitialPods : p.ns = d.ns}
    /\ ContainerCount \in [InitialPods -> Nat \ {0}]
    /\ MaxFaults \in Nat

(* ModifyCheckpointToImageName: the kubelet names the archive              *)
(* checkpoint-<pod>_<namespace>-<container>-<time>.tar, and the image      *)
(* keeps what stands before the first "_".                                 *)
ImageName(x) == [base |-> x.base, gen |-> x.gen + 1]

(* strings.TrimPrefix(podName, "checkpoint-") in DeployPodOnNewNode, and   *)
(* the cut after the first "-" in the restore handler.                     *)
OldName(x) == [base |-> x.base, gen |-> x.gen - 1]

(* A restored pod has the one container DeployPodOnNewNode gives it. *)
Containers(p) == IF p \in InitialPods THEN ContainerCount[p] ELSE 1

VARIABLES
    pods,         \* pods that exist
    running,      \* those in phase Running
    namespaces,   \* namespaces that exist
    created,      \* history: [pod, node, image] of each pod the operator made
    removed,      \* history: pods the restore handler deleted
    checkpointed, \* history: pods the kubelet wrote a checkpoint of
    faults        \* failures so far

podVars == <<pods, running, namespaces, created, removed, checkpointed>>
clusterVars == <<podVars, faults>>

ClusterInit ==
    /\ pods = InitialPods
    /\ running = InitialPods
    /\ namespaces = {p.ns : p \in InitialPods}
    /\ created = {}
    /\ removed = {}
    /\ checkpointed = {}
    /\ faults = 0

(* A failure of a kind the run explores. *)
Fault(kind) ==
    /\ kind \in Faults
    /\ faults < MaxFaults
    /\ faults' = faults + 1
=============================================================================
