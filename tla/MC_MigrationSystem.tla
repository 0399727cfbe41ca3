------------------------- MODULE MC_MigrationSystem -------------------------
(* Small instances of the operator: two nodes, two namespaces, and the     *)
(* pods and requests each configuration picks.                             *)
EXTENDS MigrationSystem

CONSTANTS n1, n2, A, B, a, b, d, k1, k2, w1

New(x) == [base |-> x, gen |-> 0]
Restored(x) == [base |-> x, gen |-> 1]

ByName(ns, x, node, dst) == [NoSpec EXCEPT
    !.podName = x, !.ns = ns, !.node = node, !.dst = dst]
ByDeployment(ns, node, dst) == [NoSpec EXCEPT
    !.deployment = d, !.ns = ns, !.node = node, !.dst = dst]
ByList(ns, xs, node, dst) == [NoSpec EXCEPT
    !.specify = xs, !.ns = ns, !.node = node, !.dst = dst]

NoReplicas == [r \in {} |-> {}]
OneContainer == [p \in InitialPods |-> 1]
UnevenContainers == [p \in InitialPods |-> IF p.name = New(a) THEN 2 ELSE 1]

(* The same pod name in two namespaces: both may move into the second,     *)
(* and what was restored there back into the first.                        *)
TwinPods == {Pod(A, New(a)), Pod(B, New(a))}
TwinRequests == {ByName(A, New(a), n1, B), ByName(B, New(a), n2, B),
                 ByName(B, Restored(a), n2, A)}

(* Two pods of one namespace, both of a deployment. *)
PairPods == {Pod(A, New(a)), Pod(A, New(b))}
PairReplicas == [r \in {[ns |-> A, name |-> d]} |-> PairPods]
PairByName == {ByName(A, New(a), n1, B), ByName(A, New(b), n2, B)}
OneByName == {ByName(A, New(a), n1, B)}
PairByDeployment == {ByDeployment(A, n1, B)}
PairByList == {ByList(A, {New(a), New(b)}, n1, B)}

(* The same to a cluster of one node. *)
OneNodeByName == {ByName(A, New(a), n1, B), ByName(A, New(b), n1, B)}
OneNodeRequests == OneNodeByName \cup PairByDeployment

(* Any of the three kinds of object. *)
PairAnyWay == PairByName \cup PairByDeployment \cup PairByList
=============================================================================
