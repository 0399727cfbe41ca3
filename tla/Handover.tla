------------------------------ MODULE Handover ------------------------------
(***************************************************************************)
(* What the operator promises, as one actor could keep it: a pod is handed *)
(* over to a place an admitted object wants it in, in three steps.  It is  *)
(* checkpointed, a pod is created from the checkpoint, and the old one is  *)
(* removed while a later one is there.  Nothing else creates or removes a  *)
(* pod.  No worker, map, job, message or failure is in it.                 *)
(* MigrationSystem.tla is shown to implement it.                           *)
(***************************************************************************)
EXTENDS Integers

CONSTANTS
    InitialPods,    \* pods that run before the first migration
    Requests,       \* specs a user may submit
    AsksFor(_, _)   \* AsksFor(s, p): the object with spec s asks for pod p

VARIABLES
    asked,          \* specs admitted
    pods,           \* pods that exist
    checkpointed,   \* pods a checkpoint was written of
    placed,         \* [pod, node] of each pod created
    removed         \* pods removed

handoverVars == <<asked, pods, checkpointed, placed, removed>>

HandoverInit ==
    /\ asked = {}
    /\ pods = InitialPods
    /\ checkpointed = {}
    /\ placed = {}
    /\ removed = {}

(* The pod a checkpoint of q becomes, where s wants it. *)
Replacement(q, s) ==
    [ns |-> s.dst, name |-> [base |-> q.name.base, gen |-> q.name.gen + 1]]

(* Pod q has the name of p with more prefixes.  The name is all the        *)
(* programs go by, so q may descend from a namesake of p.                  *)
Later(q, p) == q.name.base = p.name.base /\ q.name.gen > p.name.gen

Ask(s) ==
    /\ asked' = asked \cup {s}
    /\ UNCHANGED <<pods, checkpointed, placed, removed>>

Checkpoint(q) ==
    /\ checkpointed' = checkpointed \cup {q}
    /\ UNCHANGED <<asked, pods, placed, removed>>

(* The object may ask for another pod than the one that was checkpointed:  *)
(* only the names have to be the same.                                     *)
Create(q, s) ==
    /\ AsksFor(s, [ns |-> s.ns, name |-> q.name])
    /\ Replacement(q, s) \notin pods
    /\ pods' = pods \cup {Replacement(q, s)}
    /\ placed' = placed \cup {[pod |-> Replacement(q, s), node |-> s.node]}
    /\ UNCHANGED <<asked, checkpointed, removed>>

Remove(p) ==
    /\ \E s \in asked : AsksFor(s, p)
    /\ \E c \in placed : c.pod.name = [base |-> p.name.base, gen |-> p.name.gen + 1]
    /\ \E q \in pods : Later(q, p)
    /\ pods' = pods \ {p}
    /\ removed' = removed \cup {p}
    /\ UNCHANGED <<asked, checkpointed, placed>>

HandoverNext ==
    \/ \E s \in Requests : Ask(s)
    \/ \E p \in pods : Checkpoint(p) \/ Remove(p)
    \/ \E q \in checkpointed, s \in asked : Create(q, s)

HandoverSpec == HandoverInit /\ [][HandoverNext]_handoverVars
=============================================================================
