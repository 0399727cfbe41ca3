---------------------------- MODULE State_proofs ----------------------------
(***************************************************************************)
(* Whose state a restored pod starts from.  As every step of the system is *)
(* a step of a hand-over (Handover_proofs), there are three steps to       *)
(* consider, a checkpoint, a creation and a removal, and no program.       *)
(***************************************************************************)
EXTENDS Handover_proofs

(* A pod at c was made of the checkpoint of a pod, for an object that asks *)
(* for a pod of that name: that pod, or its namesake in another namespace. *)
Made(c) == \E q \in checkpointed, s \in requested :
    /\ c.node = s.node
    /\ c.pod = Pod(s.dst, ImageName(q.name))
    /\ AsksFor(s, Pod(s.ns, q.name))

MadeOfCheckpoint == \A c \in created : Made(c)

(* No pod has the name of a pod that was checkpointed in another namespace. *)
NamesApart == \A p \in pods, q \in checkpointed : p.name = q.name => p = q

LEMMA PlacedMade ==
    MadeOfCheckpoint <=> \A c \in Placed : Made(c)
  <1>1. ASSUME NEW c \in created PROVE Made(c) <=> Made([pod |-> c.pod, node |-> c.node])
      BY DEF Made
  <1>2. ASSUME NEW c \in created PROVE [pod |-> c.pod, node |-> c.node] \in Placed
      BY DEF Placed
  <1>3. ASSUME NEW x \in Placed PROVE \E c \in created : x = [pod |-> c.pod, node |-> c.node]
      BY DEF Placed
  <1> QED
      BY <1>1, <1>2, <1>3 DEF MadeOfCheckpoint

(* The histories only grow, and a creation has a checkpoint and an object. *)
LEMMA MadeStays ==
    ASSUME Invariant, DescendantLives, MadeOfCheckpoint, [Next]_vars
    PROVE  MadeOfCheckpoint'
  <1>1. [AHandover!HandoverNext]_(AHandover!handoverVars)
      BY StepSimulation
  <1>2. \A c \in Placed : Made(c)
      BY PlacedMade
  <1>3. ASSUME requested \subseteq requested', checkpointed \subseteq checkpointed',
               NEW c, Made(c)
        PROVE  Made(c)'
      BY <1>3 DEF Made
  <1>4. ASSUME requested \subseteq requested', checkpointed \subseteq checkpointed',
               \A c \in Placed' \ Placed : Made(c)
        PROVE  MadeOfCheckpoint'
    <2>1. \A c \in Placed' : Made(c)'
        BY <1>2, <1>3, <1>4
    <2>2. ASSUME NEW c \in created' PROVE Made(c)'
      <3>1. [pod |-> c.pod, node |-> c.node] \in Placed'
          BY DEF Placed
      <3>2. Made([pod |-> c.pod, node |-> c.node])'
          BY <2>1, <3>1
      <3> QED
          BY <3>2 DEF Made
    <2> QED
        BY <2>2 DEF MadeOfCheckpoint
  <1>5. CASE UNCHANGED AHandover!handoverVars
      BY <1>4, <1>5 DEF AHandover!handoverVars, Placed
  <1>6. ASSUME NEW s, AHandover!Ask(s) PROVE MadeOfCheckpoint'
      BY <1>4, <1>6 DEF AHandover!Ask, Placed
  <1>7. ASSUME NEW p, AHandover!Checkpoint(p) \/ AHandover!Remove(p) PROVE MadeOfCheckpoint'
      BY <1>4, <1>7 DEF AHandover!Checkpoint, AHandover!Remove, Placed
  <1>8. ASSUME NEW q \in checkpointed, NEW s \in requested, AHandover!Create(q, s)
        PROVE  MadeOfCheckpoint'
    <2> DEFINE c == [pod |-> Pod(s.dst, ImageName(q.name)), node |-> s.node]
    <2>1. Placed' = Placed \cup {c} /\ UNCHANGED <<requested, checkpointed>>
        BY <1>8 DEF AHandover!Create, AHandover!Replacement, Placed, Pod, ImageName
    <2>2. Made(c)
        BY <1>8 DEF Made, AHandover!Create, Pod
    <2> HIDE DEF c
    <2> QED
        BY <1>4, <2>1, <2>2
  <1> QED
      BY <1>1, <1>5, <1>6, <1>7, <1>8 DEF AHandover!HandoverNext

LEMMA MadeAlways == Spec => [](Invariant /\ DescendantLives /\ MadeOfCheckpoint)
  <1>1. Init => MadeOfCheckpoint
      BY DEF Init, ClusterInit, MadeOfCheckpoint
  <1>2. Invariant /\ DescendantLives /\ MadeOfCheckpoint /\ [Next]_vars => MadeOfCheckpoint'
      BY MadeStays
  <1> QED
      BY <1>1, <1>2, DescendantsAlways, PTL DEF Spec

(* DeployPodOnNewNode creates a pod only of a checkpoint, under the name   *)
(* and at the place of an object that asks for a pod of that name.         *)
THEOREM RestoredFromCheckpoint == Spec => []MadeOfCheckpoint
  BY MadeAlways, PTL
-----------------------------------------------------------------------------
(* A pod that is removed was checkpointed itself, unless a namesake was. *)
LEMMA StateStays ==
    ASSUME Invariant, DescendantLives, MadeOfCheckpoint, NamesApart, StateKept,
           [Next]_vars
    PROVE  StateKept'
  <1>1. [AHandover!HandoverNext]_(AHandover!handoverVars)
      BY StepSimulation
  <1>2. ASSUME checkpointed \subseteq checkpointed', removed' \subseteq removed \cup checkpointed
        PROVE  StateKept'
      BY <1>2 DEF StateKept
  <1>3. ASSUME NEW p \in pods, AHandover!Remove(p) PROVE p \in checkpointed
    <2>1. PICK c \in Placed : c.pod.name = [base |-> p.name.base, gen |-> p.name.gen + 1]
        BY <1>3 DEF AHandover!Remove, Placed
    <2>2. PICK q \in checkpointed : c.pod.name = ImageName(q.name)
      <3>1. Made(c)
          BY <2>1, PlacedMade
      <3>2. \A s, x : Pod(s, x).name = x
          BY DEF Pod
      <3> QED
          BY <3>1, <3>2 DEF Made
    <2>3. p.name \in Names /\ q.name \in Names
        BY DEF Invariant, ClusterInv, PodIds
    <2>4. p.name = q.name
      <3>1. p.name.base = q.name.base /\ p.name.gen + 1 = q.name.gen + 1
          BY <2>1, <2>2 DEF ImageName
      <3> QED
          BY <2>3, <3>1 DEF Names
    <2> QED
        BY <2>4 DEF NamesApart
  <1>4. CASE UNCHANGED AHandover!handoverVars
      BY <1>2, <1>4 DEF AHandover!handoverVars
  <1>5. ASSUME NEW s, AHandover!Ask(s) PROVE StateKept'
      BY <1>2, <1>5 DEF AHandover!Ask
  <1>6. ASSUME NEW p \in pods, AHandover!Checkpoint(p) \/ AHandover!Remove(p) PROVE StateKept'
      BY <1>2, <1>3, <1>6 DEF AHandover!Checkpoint, AHandover!Remove
  <1>7. ASSUME NEW q, NEW s, AHandover!Create(q, s) PROVE StateKept'
      BY <1>2, <1>7 DEF AHandover!Create
  <1> QED
      BY <1>1, <1>4, <1>5, <1>6, <1>7 DEF AHandover!HandoverNext

(* README.md:2 holds but for namesakes: as long as no pod has the name of  *)
(* one checkpointed in another namespace, each pod that is deleted had its *)
(* own state saved, whatever fails.                                        *)
THEOREM StateKeptApart == Spec /\ []NamesApart => []StateKept
  <1>1. Init => StateKept
      BY DEF Init, ClusterInit, StateKept
  <1>2. Invariant /\ DescendantLives /\ MadeOfCheckpoint /\ NamesApart /\ StateKept
            /\ [Next]_vars => StateKept'
      BY StateStays
  <1> QED
      BY <1>1, <1>2, MadeAlways, PTL DEF Spec

(* So it does in a cluster whose migrations stay in one namespace. *)
THEOREM StateKeptInOneNamespace ==
    ASSUME \A m, n \in Namespaces : m = n
    PROVE  Spec => []StateKept
  <1>1. Invariant => NamesApart
    <2> SUFFICES ASSUME Invariant, NEW p \in pods, NEW q \in checkpointed, p.name = q.name
                 PROVE  p = q
        BY DEF NamesApart
    <2>1. p \in PodIds /\ q \in PodIds
        BY DEF Invariant, ClusterInv
    <2>2. p.ns = q.ns
        BY <2>1 DEF PodIds
    <2> QED
        BY <2>1, <2>2 DEF PodIds
  <1> QED
      BY <1>1, InvariantHolds, StateKeptApart, PTL
=============================================================================
