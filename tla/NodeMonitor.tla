---------------------------- MODULE NodeMonitor ----------------------------
(***************************************************************************)
(* NodeMonitorReconciler (internal/controller/nodemonitor_controller.go)   *)
(* and DoSSA (handlers/cr-decoder.go): the one worker of the controller    *)
(* takes a node, measures its CPU and then its memory, and when one is     *)
(* loaded asks for its pods to be migrated to the node with the least of   *)
(* the rates recorded so far.  Every request is an update of the one       *)
(* object migration-sample.  Nodes, pods, metrics and what becomes of the  *)
(* object are external to it.                                              *)
(***************************************************************************)
EXTENDS Integers, FiniteSets, Functions

CONSTANTS
    Workers,        \* nodes without the label of the control plane
    ControlPlane,   \* nodes with it
    Pods,           \* names of pods
    Protected,      \* those in namespaces checkIsValidNamespace refuses
    Unset,          \* the empty string
    Rates,          \* usage rates, in per cent
    InitialRate,    \* InitialRate[r][n]: what the metrics server has at first
    InitialPlace,   \* InitialPlace[p]: the node of pod p at first
    Weight,         \* Weight[p]: the memory pod p uses
    TopPods,        \* how many pods getTopFivePodsByMemory returns
    MaxUpsets       \* bound: changes of rates, nodes and pods, and failures

Nodes == Workers \cup ControlPlane
Resources == {"cpu", "memory"}
Threshold == [cpu |-> 60, memory |-> 70]

ASSUME NodeMonitorAssumption ==
    /\ Workers \cap ControlPlane = {}
    /\ Protected \subseteq Pods
    /\ Unset \notin Nodes \cup Pods
    /\ Rates \subseteq Nat
    /\ InitialRate \in [Resources -> [Nodes -> Rates]]
    /\ InitialPlace \in [Pods -> Nodes \cup {Unset}]
    /\ Weight \in [Pods -> Nat]
    /\ TopPods \in Nat \ {0}
    /\ MaxUpsets \in Nat

VARIABLES
    present,     \* nodes the API server has
    rate,        \* what the metrics server reports
    place,       \* the node of each pod, Unset for one that does not exist
    processing,  \* pods in ProcessPodsMap
    sample,      \* spec of migration-sample, or Unset
    upsets,      \* changes outside the monitor, and failures, so far
    queue,       \* keys in the work queue, or due there when RequeueAfter has
                 \* passed (or at a heartbeat of the node, which adds nothing)
    rates,       \* cpu_usage_rate_maps and memory_usage_rate_maps
    target,      \* migrationCPUNode and migrationMemoryNode
    mpc,         \* call the worker is about to make
    mnode,       \* node being reconciled
    mres,        \* resource whose turn it is
    mpods        \* pods the loop has yet to ask for

worldVars == <<present, rate, place, processing>>
workerVars == <<mpc, mnode, mres, mpods>>
vars == <<worldVars, sample, upsets, queue, rates, target, workerVars>>

NoRates == [n \in {} |-> 0]

Idle ==
    /\ mpc' = "idle"
    /\ mnode' = Unset
    /\ mres' = "cpu"
    /\ mpods' = {}

Init ==
    /\ present = Nodes
    /\ rate = InitialRate
    /\ place = InitialPlace
    /\ processing = {}
    /\ sample = Unset
    /\ upsets = 0
    /\ queue = Nodes
    /\ rates = [r \in Resources |-> NoRates]
    /\ target = [r \in Resources |-> Unset]
    /\ mpc = "idle"
    /\ mnode = Unset
    /\ mres = "cpu"
    /\ mpods = {}

Upset ==
    /\ upsets < MaxUpsets
    /\ upsets' = upsets + 1
-----------------------------------------------------------------------------
(* Get finds no node, or one of the control plane: the key is dropped, and *)
(* what was recorded of it stays.                                          *)
ReconcileIgnores(n) ==
    /\ mpc = "idle"
    /\ n \in queue
    /\ n \notin present \/ n \in ControlPlane
    /\ queue' = queue \ {n}
    /\ UNCHANGED <<worldVars, sample, upsets, rates, target, workerVars>>

Reconcile(n) ==
    /\ mpc = "idle"
    /\ n \in queue \cap present \cap Workers
    /\ queue' = queue \ {n}
    /\ mpc' = "measure"
    /\ mnode' = n
    /\ UNCHANGED <<worldVars, sample, upsets, rates, target, mres, mpods>>

(* Mutant: the last return is an empty Result. *)
EndHalfForgets ==
    IF mres = "cpu"
    THEN /\ mpc' = "measure"
         /\ mres' = "memory"
         /\ mpods' = {}
         /\ UNCHANGED <<mnode, queue>>
    ELSE UNCHANGED queue /\ Idle

(* The half for a resource is over: after the CPU comes the memory, after  *)
(* the memory the key is queued again in a minute.                         *)
EndHalf ==
    IF mres = "cpu"
    THEN /\ mpc' = "measure"
         /\ mres' = "memory"
         /\ mpods' = {}
         /\ UNCHANGED <<mnode, queue>>
    ELSE queue' = queue \cup {mnode} /\ Idle

(* Mutant: every rate is compared with the node's own. *)
VisitUnlowered(known, best, m) ==
    IF known[m] < known[mnode] THEN [best EXCEPT !.node = m] ELSE best

(* One turn of the loop: the best rate and target so far against entry m.  *)
Visit(known, best, m) ==
    IF known[m] < best.rate THEN [rate |-> known[m], node |-> m] ELSE best

(* The loop over a map whose entries come in order o.  When no rate is less *)
(* than the node's own, the target stays that of an earlier round.         *)
Loop(known, o) ==
    LET n == Cardinality(DOMAIN known)
        best[i \in 0 .. n] ==
            IF i = 0 THEN [rate |-> known[mnode], node |-> target[mres]]
                     ELSE Visit(known, best[i - 1], o[i])
    IN  best[n].node

(* Go visits the entries of a map in any order. *)
Targets(known) ==
    LET keys == DOMAIN known
    IN  {Loop(known, o) : o \in Bijection(1 .. Cardinality(keys), keys)}

PickTarget(known) ==
    \E t \in Targets(known) : target' = [target EXCEPT ![mres] = t]

Recorded(r, n, x) ==
    [m \in DOMAIN rates[r] \cup {n} |-> IF m = n THEN x ELSE rates[r][m]]

(* The rate is measured and recorded.  Above the threshold the half goes   *)
(* on with the list of pods, the memory having picked its target first.    *)
Measure ==
    /\ mpc = "measure"
    /\ mres = "memory" => mnode \in present
    /\ LET x == rate[mres][mnode]
           known == Recorded(mres, mnode, x)
       IN  /\ rates' = [rates EXCEPT ![mres] = known]
           /\ IF x > Threshold[mres]
              THEN /\ mpc' = "list"
                   /\ IF mres = "memory" THEN PickTarget(known)
                                         ELSE UNCHANGED target
                   /\ UNCHANGED <<queue, mnode, mres, mpods>>
              ELSE EndHalf /\ UNCHANGED target
    /\ UNCHANGED <<worldVars, sample, upsets>>

PodsOn(n) == {p \in Pods : place[p] = n}

(* getTopFivePodsByCPU returns all of them; getTopFivePodsByMemory sorts,  *)
(* those in refused namespaces among them, and keeps the first five.       *)
Heaviest(ps) == {top \in SUBSET ps :
    /\ Cardinality(top) = IF Cardinality(ps) > TopPods THEN TopPods
                                                       ELSE Cardinality(ps)
    /\ \A p \in top, q \in ps \ top : Weight[p] >= Weight[q]}

TopFive(r, ps) == IF r = "cpu" THEN {ps} ELSE Heaviest(ps)

(* The pods of the node are listed; one whose metrics cannot be had is     *)
(* left out.  The CPU picks its target now.                                *)
ListPods ==
    /\ mpc = "list"
    /\ \/ mpods' \in TopFive(mres, PodsOn(mnode)) /\ UNCHANGED upsets
       \/ /\ Upset
          /\ \E p \in PodsOn(mnode) : mpods' \in TopFive(mres, PodsOn(mnode) \ {p})
    /\ IF mres = "cpu" THEN PickTarget(rates[mres]) ELSE UNCHANGED target
    /\ mpc' = "apply"
    /\ UNCHANGED <<worldVars, sample, queue, rates, mnode, mres>>

(* The webhook admits an update that names a node and a pod that exists    *)
(* and is not in ProcessPodsMap.                                           *)
Admitted(p, n) == n # Unset /\ place[p] # Unset /\ p \notin processing

(* Mutant: the namespace is not looked at. *)
DoSSAAnywhere(p) ==
    /\ mpc = "apply"
    /\ p \in mpods
    /\ mpods' = mpods \ {p}
    /\ Admitted(p, target[mres])
    /\ sample' = [pod |-> p, node |-> target[mres]]
    /\ UNCHANGED <<worldVars, upsets, queue, rates, target, mpc, mnode, mres>>

(* The next pod, if in a namespace that may be asked for, is put into the  *)
(* object; when DoSSA fails the error is logged and the loop goes on.      *)
DoSSA(p) ==
    /\ mpc = "apply"
    /\ p \in mpods
    /\ mpods' = mpods \ {p}
    /\ \/ /\ p \notin Protected
          /\ Admitted(p, target[mres])
          /\ sample' = [pod |-> p, node |-> target[mres]]
          /\ UNCHANGED upsets
       \/ /\ p \in Protected \/ ~ Admitted(p, target[mres])
          /\ UNCHANGED <<sample, upsets>>
       \/ /\ p \notin Protected
          /\ Upset
          /\ UNCHANGED sample
    /\ UNCHANGED <<worldVars, queue, rates, target, mpc, mnode, mres>>

ApplyDone ==
    /\ mpc = "apply"
    /\ mpods = {}
    /\ EndHalf
    /\ UNCHANGED <<worldVars, sample, upsets, rates, target>>

(* A call of Reconcile fails, or the node or its metrics are gone: the key *)
(* is queued again, and the half for the memory may not be reached.        *)
StepFails ==
    /\ mpc \in {"measure", "list"}
    /\ \/ Upset
       \/ mpc = "measure" /\ mnode \notin present /\ UNCHANGED upsets
    /\ queue' = queue \cup {mnode}
    /\ Idle
    /\ UNCHANGED <<worldVars, sample, rates, target>>

WorkerStep ==
    \/ Measure
    \/ ListPods
    \/ \E p \in mpods : DoSSA(p)
    \/ ApplyDone
    \/ StepFails
-----------------------------------------------------------------------------
(* The manager stops and starts anew: its maps, its targets and the round  *)
(* under way are gone; the first list of the watch queues every node.      *)
ManagerRestarts ==
    /\ Upset
    /\ queue' = present
    /\ rates' = [r \in Resources |-> NoRates]
    /\ target' = [r \in Resources |-> Unset]
    /\ processing' = {}
    /\ Idle
    /\ UNCHANGED <<present, rate, place, sample>>
-----------------------------------------------------------------------------
(* The world around the monitor. *)
Change ==
    /\ Upset
    /\ UNCHANGED <<processing, sample, rates, target, workerVars>>

RateChanges(r, n, x) ==
    /\ x # rate[r][n]
    /\ rate' = [rate EXCEPT ![r][n] = x]
    /\ UNCHANGED <<present, place, queue>>
    /\ Change

(* A node goes, with its pods, and may come back; the watch queues its key. *)
NodeGoes(n) ==
    /\ n \in present
    /\ present' = present \ {n}
    /\ place' = [p \in Pods |-> IF place[p] = n THEN Unset ELSE place[p]]
    /\ queue' = queue \cup {n}
    /\ UNCHANGED rate
    /\ Change

NodeComes(n) ==
    /\ n \in Nodes \ present
    /\ present' = present \cup {n}
    /\ queue' = queue \cup {n}
    /\ UNCHANGED <<rate, place, processing, sample, upsets, rates,
                   target, workerVars>>

(* Where pods go and come from; those of the control plane are not listed. *)
PodMoves(p, n) ==
    /\ n \in present \cup {Unset}
    /\ place[p] # n
    /\ place' = [place EXCEPT ![p] = n]
    /\ UNCHANGED <<present, rate, queue>>
    /\ Change

(* The MigrationController reads the object and enters its pod in          *)
(* ProcessPodsMap; requests overwritten before that it has never seen.     *)
Taken ==
    /\ sample # Unset
    /\ processing' = processing \cup {sample.pod}
    /\ UNCHANGED <<present, rate, place, sample, upsets, queue,
                   rates, target, workerVars>>

(* The DaemonSetController restores the pod and deletes the entry. *)
Restored(p) ==
    /\ p \in processing
    /\ processing' = processing \ {p}
    /\ UNCHANGED <<present, rate, place, sample, upsets, queue,
                   rates, target, workerVars>>

World ==
    \/ \E r \in Resources, n \in Workers, x \in Rates : RateChanges(r, n, x)
    \/ \E n \in Nodes : NodeGoes(n) \/ NodeComes(n)
    \/ \E p \in Pods, n \in Workers \cup {Unset} : PodMoves(p, n)
    \/ Taken
    \/ \E p \in Pods : Restored(p)

Next ==
    \/ \E n \in Nodes : ReconcileIgnores(n) \/ Reconcile(n)
    \/ WorkerStep
    \/ ManagerRestarts
    \/ World

Spec == Init /\ [][Next]_vars

(* The worker goes on, and the work queue, first in first out, lets no key *)
(* wait for ever.  The world owes nothing.                                 *)
Fairness ==
    /\ WF_vars(WorkerStep)
    /\ \A n \in Workers : SF_vars(Reconcile(n))

FairSpec == Spec /\ Fairness
-----------------------------------------------------------------------------
(* The state has its types: no target is a node of the control plane, and  *)
(* no pod is asked for in a namespace that checkIsValidNamespace refuses.  *)
TypeOK ==
    /\ present \subseteq Nodes
    /\ rate \in [Resources -> [Nodes -> Rates]]
    /\ place \in [Pods -> Nodes \cup {Unset}]
    /\ processing \subseteq Pods \ Protected
    /\ sample \in [pod : Pods \ Protected, node : Workers] \cup {Unset}
    /\ upsets \in 0 .. MaxUpsets
    /\ queue \subseteq Nodes
    /\ DOMAIN rates = Resources
    /\ \A r \in Resources :
        /\ DOMAIN rates[r] \subseteq Workers
        /\ rates[r] \in [DOMAIN rates[r] -> Rates]
        /\ target[r] \in DOMAIN rates[r] \cup {Unset}
    /\ mpc \in {"idle", "measure", "list", "apply"}
    /\ mnode \in Workers \cup {Unset}
    /\ mres \in Resources
    /\ mpods \subseteq Pods

(* nodemonitor_controller.go:139 and 178: the pods are sent to the node of *)
(* the least usage, in whatever order the map is visited, if a usage less  *)
(* than the node's own is on record.                                       *)
LeastTarget ==
    LET known == rates[mres] IN
    mpc = "apply" /\ (\E m \in DOMAIN known : known[m] < known[mnode]) =>
        \A m \in DOMAIN known : known[target[mres]] <= known[m]

(* Pod p on node n has to be asked for: the node is loaded, and the pod is *)
(* one the lists of the monitor have and may go.                           *)
Pressed(r, n, p) ==
    /\ n \in present
    /\ rate[r][n] > Threshold[r]
    /\ place[p] = n
    /\ r = "memory" => \A top \in Heaviest(PodsOn(n)) : p \in top

(* nodemonitor_controller.go:149: each listed pod of a loaded node is put  *)
(* into the object, by the key queued again each minute (line 207), though *)
(* other requests are refused, nodes come and go and calls fail: unless it *)
(* is under way, or no target has ever been found.                         *)
PressedPodAsked == \A r \in Resources, n \in Workers, p \in Pods \ Protected :
    Pressed(r, n, p) ~>
        \/ sample # Unset /\ sample.pod = p
        \/ p \in processing
        \/ target[r] = Unset
        \/ ~ Pressed(r, n, p)
=============================================================================
