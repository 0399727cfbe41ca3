--------------------------- MODULE MC_NodeMonitor ---------------------------
(* Three workers and a node of the control plane, which is the least       *)
(* loaded; on the most loaded, two pods that may be migrated and one that  *)
(* may not.                                                                *)
EXTENDS NodeMonitor

CONSTANTS n1, n2, n3, c, p1, p2, s

Usage(x, y, z) ==
    [n \in Nodes |-> CASE n = n1 -> x [] n = n2 -> y [] n = n3 -> z [] OTHER -> 40]
TwoLoaded == [r \in Resources |->
    IF r = "cpu" THEN Usage(90, 65, 40) ELSE Usage(90, 40, 65)]
AllOnOne == [p \in Pods |-> n1]
Weights == [p \in Pods |-> IF p = p1 THEN 2 ELSE 1]
=============================================================================
