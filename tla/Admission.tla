----------------------------- MODULE Admission -----------------------------
(***************************************************************************)
(* Migration objects and the webhook that admits them                      *)
(* (api/v1alpha1/migration_webhook.go), with ProcessPodsMap                *)
(* (util/global.go), the map in the manager's memory that the webhook      *)
(* reads and the two controllers write without a lock.                     *)
(***************************************************************************)
EXTENDS Cluster

CONSTANTS
    Migrations,   \* names of Migration objects
    Requests,     \* specs a user may submit
    MaxEdits      \* bound: objects created, updated and deleted

(* MigrationSpec: Unset for a field left empty. *)
Specs == [podName : Names \cup {Unset}, deployment : Deployments \cup {Unset},
          specify : SUBSET Names, ns : Namespaces \cup {Unset},
          node : Nodes \cup {Unset}, dst : Namespaces \cup {Unset}]

(* The fields of a Migration the API server did not return. *)
NoSpec == [podName |-> Unset, deployment |-> Unset, specify |-> {},
           ns |-> Unset, node |-> Unset, dst |-> Unset]

ASSUME AdmissionAssumption ==
    /\ Requests \subseteq Specs
    /\ MaxEdits \in Nat
    /\ Unset \notin Specs
    /\ Unset \notin Migrations

VARIABLES
    migrations,   \* migrations[k]: spec of object k, or Unset
    queue,        \* keys waiting in the work queue of the controller
    processPods,  \* ProcessPodsMap, as the set of its entries
    requested,    \* history: every spec ever admitted
    edits         \* objects created, updated and deleted so far

admissionVars == <<migrations, queue, processPods, requested, edits>>

(* MigrationInfo under its key.  PodName is never filled in, and nothing   *)
(* reads Deployment and Specify.                                           *)
Entries == [pod : Names \cup {Unset}, ns : Namespaces \cup {Unset},
            node : Nodes \cup {Unset}, dst : Namespaces \cup {Unset}]

AdmissionInit ==
    /\ migrations = [k \in Migrations |-> Unset]
    /\ queue = {}
    /\ processPods = {}
    /\ requested = {}
    /\ edits = 0

(* FillinGlobalVariables for each of the keys: an entry is overwritten. *)
FillinGlobalVariables(keys, s) ==
    {e \in processPods : e.pod \notin keys}
        \cup {[pod |-> x, ns |-> s.ns, node |-> s.node, dst |-> s.dst] : x \in keys}

BeingProcessed(x) == \E e \in processPods : e.pod = x

PodSpecified(s) == s.podName # Unset
DeploymentSpecified(s) == s.deployment # Unset

(* At most one way to name pods, the place given, and the deployment       *)
(* there: what later steps of other components do not change.              *)
ValidateFields(s) ==
    /\ ~ (PodSpecified(s) /\ DeploymentSpecified(s))
    /\ ~ (PodSpecified(s) /\ s.specify # {})
    /\ ~ (DeploymentSpecified(s) /\ s.specify # {})
    /\ Unset \notin {s.node, s.dst, s.ns}
    /\ DeploymentSpecified(s) =>
           [ns |-> s.ns, name |-> s.deployment] \in DOMAIN Replicas

(* The pods named exist, and none of their names is in the map. *)
ValidateMigration(s) ==
    /\ ValidateFields(s)
    /\ PodSpecified(s) => Pod(s.ns, s.podName) \in pods
    /\ \A x \in s.specify : Pod(s.ns, x) \in pods
    /\ PodSpecified(s) => ~ BeingProcessed(s.podName)
    /\ \A x \in s.specify : ~ BeingProcessed(x)

Edit ==
    /\ edits < MaxEdits
    /\ edits' = edits + 1
    /\ UNCHANGED processPods

(* A user creates or updates an object (an update may change no more than  *)
(* a label, as DoSSA's does), the webhook admits it, and the watch puts    *)
(* its key in the work queue.                                              *)
ApplyMigration(k, s) ==
    /\ ValidateMigration(s)
    /\ migrations' = [migrations EXCEPT ![k] = s]
    /\ queue' = queue \cup {k}
    /\ requested' = requested \cup {s}
    /\ Edit

(* A user deletes an object; ValidateDelete lets it pass. *)
DeleteMigration(k) ==
    /\ migrations[k] # Unset
    /\ migrations' = [migrations EXCEPT ![k] = Unset]
    /\ queue' = queue \cup {k}
    /\ UNCHANGED requested
    /\ Edit
=============================================================================
