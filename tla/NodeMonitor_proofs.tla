------------------------- MODULE NodeMonitor_proofs -------------------------
(***************************************************************************)
(* Proofs about NodeMonitor, for any number of nodes and pods, any rates   *)
(* and any changes of the cluster.  The target the loop over a map leaves  *)
(* is an induction over the turns of the loop, carried out with sets.      *)
(***************************************************************************)
EXTENDS NodeMonitor, FiniteSetTheorems, WellFoundedInduction, TLAPS

USE DEF worldVars, workerVars, vars

(* A set that has 0, and of each k below n that it has also k + 1, has all *)
(* numbers up to n: else there would be a least one that it lacks.         *)
LEMMA UpTo ==
    ASSUME NEW B, NEW n \in Nat, 0 \in B,
           \A k \in 0 .. n - 1 : k \in B => k + 1 \in B
    PROVE  0 .. n \subseteq B
  <1> DEFINE Lacking == 0 .. n \ B
             Intervals == {0 .. k : k \in Lacking}
  <1>1. SUFFICES ASSUME Lacking # {} PROVE FALSE
      OBVIOUS
  <1>2. Intervals \subseteq FiniteSubsetsOf(Nat)
    <2>1. ASSUME NEW k \in Lacking PROVE 0 .. k \in FiniteSubsetsOf(Nat)
        BY FS_Interval DEF FiniteSubsetsOf
    <2> QED
        BY <2>1
  <1>3. Intervals # {}
      BY <1>1
  <1>4. PICK I \in Intervals : \A J \in Intervals : <<J, I>> \notin StrictSubsetOrdering(Nat)
    <2> HIDE DEF Intervals
    <2> QED
        BY <1>2, <1>3, WFMin, FS_StrictSubsetOrderingWellFounded
  <1>5. PICK k \in Lacking : I = 0 .. k
      OBVIOUS
  <1>6. k \in 1 .. n /\ k - 1 \notin B
      OBVIOUS
  <1>7. 0 .. k - 1 \in Intervals
      BY <1>6
  <1>8. <<0 .. k - 1, 0 .. k>> \in StrictSubsetOrdering(Nat)
      BY <1>6 DEF StrictSubsetOrdering
  <1> QED
      BY <1>4, <1>5, <1>7, <1>8
-----------------------------------------------------------------------------
(* The loop. *)
Start(known) == [rate |-> known[mnode], node |-> target[mres]]

(* What f must be to give the best rate and target after each of n turns.  *)
IsLoop(f, known, o, n) ==
    f = [i \in 0 .. n |-> IF i = 0 THEN Start(known) ELSE Visit(known, f[i - 1], o[i])]

(* The recursion of the loop has a solution, however long the loop is.     *)
LEMMA LoopExists ==
    ASSUME NEW known, NEW o, NEW n \in Nat
    PROVE  \E f : IsLoop(f, known, o, n)
  <1> DEFINE B == {k \in Nat : \E f : IsLoop(f, known, o, k)}
  <1>1. 0 \in B
    <2> DEFINE f == [i \in 0 .. 0 |-> Start(known)]
    <2>1. IsLoop(f, known, o, 0)
        BY DEF IsLoop
    <2> QED
        BY <2>1
  <1>2. ASSUME NEW k \in 0 .. n - 1, k \in B
        PROVE  k + 1 \in B
    <2>1. PICK f : IsLoop(f, known, o, k)
        BY <1>2
    <2> DEFINE g == [i \in 0 .. k + 1 |->
                        IF i = k + 1 THEN Visit(known, f[k], o[k + 1]) ELSE f[i]]
    <2>2. \A i \in 0 .. k : g[i] = f[i]
        OBVIOUS
    <2>3. \A i \in 0 .. k + 1 :
              g[i] = IF i = 0 THEN Start(known) ELSE Visit(known, g[i - 1], o[i])
      <3>1. ASSUME NEW i \in 0 .. k
            PROVE  g[i] = IF i = 0 THEN Start(known) ELSE Visit(known, g[i - 1], o[i])
        <4>1. f[i] = IF i = 0 THEN Start(known) ELSE Visit(known, f[i - 1], o[i])
            BY <2>1 DEF IsLoop
        <4>2. i # 0 => g[i - 1] = f[i - 1]
            BY <2>2
        <4> HIDE DEF g
        <4> QED
            BY <2>2, <4>1, <4>2
      <3>2. g[k + 1] = Visit(known, g[k], o[k + 1])
          BY <2>2
      <3> HIDE DEF g
      <3> QED
          BY <3>1, <3>2
    <2>4. IsLoop(g, known, o, k + 1)
      <3>1. g = [i \in 0 .. k + 1 |-> g[i]]
          OBVIOUS
      <3> HIDE DEF g
      <3> QED
          BY <2>3, <3>1 DEF IsLoop
    <2> QED
        BY <2>4
  <1>3. 0 .. n \subseteq B
    <2> HIDE DEF B
    <2> QED
        BY <1>1, <1>2, UpTo
  <1> QED
      BY <1>3

(* So Loop returns the target of such an f after the last turn.            *)
LEMMA LoopIsLast ==
    ASSUME NEW known, NEW o, Cardinality(DOMAIN known) \in Nat
    PROVE  LET n == Cardinality(DOMAIN known)
           IN  \E f : IsLoop(f, known, o, n) /\ Loop(known, o) = f[n].node
  <1> DEFINE n == Cardinality(DOMAIN known)
             f == CHOOSE b : IsLoop(b, known, o, n)
  <1>1. IsLoop(f, known, o, n)
      BY LoopExists
  <1>2. Loop(known, o) = f[n].node
      BY DEF Loop, IsLoop, Start
  <1> QED
      BY <1>1, <1>2

(* What holds of the best rate and target after the entries of S: the rate *)
(* is the least of theirs and the node's own, and either nothing less than *)
(* the node's own was met, or the target is a node with that rate.         *)
Best(known, S, b) ==
    /\ b.rate \in Nat
    /\ b.rate <= known[mnode]
    /\ \A m \in S : b.rate <= known[m]
    /\ \/ b.rate = known[mnode] /\ b.node = target[mres]
       \/ b.node \in DOMAIN known /\ known[b.node] = b.rate

LEMMA VisitKeepsBest ==
    ASSUME NEW known, known \in [DOMAIN known -> Nat], NEW S \in SUBSET DOMAIN known, NEW b,
           NEW m \in DOMAIN known, known[mnode] \in Nat, Best(known, S, b)
    PROVE  Best(known, S \cup {m}, Visit(known, b, m))
  BY DEF Best, Visit

(* The map has been visited: no rate recorded is less than that of the     *)
(* target, if one is less than the node's own; and the target is a node of *)
(* the map, or the one of an earlier round.                                *)
LEMMA TargetsAreLeast ==
    ASSUME NEW known, known \in [DOMAIN known -> Nat], IsFiniteSet(DOMAIN known),
           mnode \in DOMAIN known, NEW t \in Targets(known)
    PROVE  /\ t \in DOMAIN known \cup {target[mres]}
           /\ (\E m \in DOMAIN known : known[m] < known[mnode]) =>
                  t \in DOMAIN known /\ \A m \in DOMAIN known : known[t] <= known[m]
  <1> DEFINE n == Cardinality(DOMAIN known)
  <1>1. n \in Nat
      BY FS_CardinalityType
  <1>2. PICK o \in Bijection(1 .. n, DOMAIN known) : t = Loop(known, o)
      BY DEF Targets
  <1>3. o \in [1 .. n -> DOMAIN known] /\ \A m \in DOMAIN known : \E i \in 1 .. n : o[i] = m
      BY DEF Bijection, Injection, Surjection
  <1>4. PICK f : IsLoop(f, known, o, n) /\ t = f[n].node
      BY <1>1, <1>2, LoopIsLast
  <1> HIDE DEF n
  <1>5. \A i \in 0 .. n :
            f[i] = IF i = 0 THEN Start(known) ELSE Visit(known, f[i - 1], o[i])
      BY <1>1, <1>4 DEF IsLoop
  <1> DEFINE visited(k) == {o[i] : i \in 1 .. k}
             B == {k \in 0 .. n : Best(known, visited(k), f[k])}
  <1>6. 0 \in B
    <2>1. f[0] = Start(known) /\ visited(0) = {}
        BY <1>1, <1>5
    <2> QED
        BY <1>1, <2>1 DEF Best, Start
  <1>7. ASSUME NEW k \in 0 .. n - 1, k \in B
        PROVE  k + 1 \in B
    <2>1. visited(k) \subseteq DOMAIN known /\ o[k + 1] \in DOMAIN known
        BY <1>1, <1>3
    <2>2. f[k + 1] = Visit(known, f[k], o[k + 1])
        BY <1>1, <1>5
    <2>3. visited(k + 1) = visited(k) \cup {o[k + 1]}
        BY <1>1
    <2>4. Best(known, visited(k), f[k])
        BY <1>7
    <2> HIDE DEF visited
    <2> QED
        BY <1>1, <2>1, <2>2, <2>3, <2>4, VisitKeepsBest
  <1>8. Best(known, visited(n), f[n])
    <2>1. 0 .. n \subseteq B
      <3> HIDE DEF B
      <3> QED
          BY <1>1, <1>6, <1>7, UpTo
    <2>2. n \in B
      <3> HIDE DEF B
      <3> QED
          BY <1>1, <2>1
    <2> HIDE DEF visited
    <2> QED
        BY <2>2
  <1>9. DOMAIN known \subseteq visited(n)
      BY <1>3
  <1> QED
      BY <1>4, <1>8, <1>9 DEF Best
-----------------------------------------------------------------------------
(* What makes the two properties inductive: a node is in hand while the    *)
(* worker is at work, its rate is on record once measured, the records are *)
(* finite, and a target once picked is the least on record.                *)
Picked == mpc = "apply" \/ (mpc = "list" /\ mres = "memory")

LeastOf(known, t) ==
    (\E m \in DOMAIN known : known[m] < known[mnode]) =>
        t \in DOMAIN known /\ \A m \in DOMAIN known : known[t] <= known[m]

RoundInv ==
    /\ DOMAIN target = Resources
    /\ \A r \in Resources : IsFiniteSet(DOMAIN rates[r])
    /\ mpc # "idle" => mnode \in Workers
    /\ mpc \in {"list", "apply"} => mnode \in DOMAIN rates[mres]
    /\ Picked => LeastOf(rates[mres], target[mres])

Invariant == TypeOK /\ RoundInv

LEMMA InitInvariant == Init => Invariant
  BY NodeMonitorAssumption, FS_EmptySet
     DEF Init, Invariant, TypeOK, RoundInv, Picked, NoRates, Resources, Nodes

(* A change of the world leaves the round alone. *)
LEMMA RoundStable ==
    ASSUME Invariant, UNCHANGED <<rates, target, mpc, mnode, mres>>
    PROVE  RoundInv'
  BY DEF Invariant, RoundInv, Picked, LeastOf

(* The round under way is over. *)
LEMMA IdleRound ==
    ASSUME Invariant, UNCHANGED <<rates, target>>, Idle
    PROVE  RoundInv'
  BY DEF Invariant, RoundInv, Picked, Idle

(* The half for the CPU ends in the one for the memory, that in idling. *)
LEMMA HalfEnds ==
    ASSUME RoundInv, mpc # "idle", EndHalf,
           DOMAIN target' = Resources, \A r \in Resources : IsFiniteSet(DOMAIN rates'[r])
    PROVE  RoundInv'
  BY DEF RoundInv, Picked, EndHalf, Idle

(* The target picked is typed, and the least of what is known. *)
LEMMA PickedLeast ==
    ASSUME NEW known, known \in [DOMAIN known -> Nat], IsFiniteSet(DOMAIN known),
           mnode \in DOMAIN known, mres \in Resources, DOMAIN target = Resources,
           PickTarget(known)
    PROVE  /\ target'[mres] \in DOMAIN known \cup {target[mres]}
           /\ LeastOf(known, target'[mres])
           /\ DOMAIN target' = Resources
           /\ \A r \in Resources \ {mres} : target'[r] = target[r]
  <1>1. PICK t \in Targets(known) : target' = [target EXCEPT ![mres] = t]
      BY DEF PickTarget
  <1> QED
      BY <1>1, TargetsAreLeast DEF LeastOf
-----------------------------------------------------------------------------
LEMMA MeasurePreserves ==
    ASSUME Invariant, Measure
    PROVE  Invariant'
  <1> DEFINE x == rate[mres][mnode]
             known == Recorded(mres, mnode, x)
  <1>1. /\ mres \in Resources /\ mnode \in Workers /\ x \in Rates
        /\ DOMAIN rates = Resources /\ DOMAIN target = Resources
      BY DEF Invariant, TypeOK, RoundInv, Measure, Nodes
  <1>2. /\ DOMAIN known = DOMAIN rates[mres] \cup {mnode}
        /\ known \in [DOMAIN known -> Rates]
        /\ DOMAIN known \subseteq Workers
      BY <1>1 DEF Invariant, TypeOK, Recorded
  <1>3. IsFiniteSet(DOMAIN known)
      BY <1>1, <1>2, FS_AddElement DEF Invariant, RoundInv
  <1> HIDE DEF x, known
  <1>4. /\ rates' = [rates EXCEPT ![mres] = known]
        /\ UNCHANGED <<worldVars, sample, upsets>>
        /\ mpc = "measure"
      BY DEF Measure, x, known
  <1>5. /\ \A r \in Resources : IsFiniteSet(DOMAIN rates'[r])
        /\ rates'[mres] = known
        /\ \A r \in Resources \ {mres} : rates'[r] = rates[r]
        /\ DOMAIN rates' = Resources
      BY <1>1, <1>3, <1>4 DEF Invariant, RoundInv
  <1>6. CASE mpc' = "list" /\ mres = "memory" /\ PickTarget(known)
             /\ UNCHANGED <<queue, mnode, mres, mpods>>
    <2>1. /\ target'[mres] \in DOMAIN known \cup {target[mres]}
          /\ LeastOf(known, target'[mres])
          /\ DOMAIN target' = Resources
          /\ \A r \in Resources \ {mres} : target'[r] = target[r]
      <3>1. known \in [DOMAIN known -> Nat] /\ mnode \in DOMAIN known
          BY <1>2, NodeMonitorAssumption
      <3> QED
          BY <1>1, <1>3, <1>6, <3>1, PickedLeast
    <2>2. RoundInv'
        BY <1>1, <1>2, <1>5, <1>6, <2>1 DEF RoundInv, Picked, LeastOf
    <2>3. TypeOK'
        BY <1>1, <1>2, <1>4, <1>5, <1>6, <2>1 DEF Invariant, TypeOK
    <2> QED
        BY <2>2, <2>3 DEF Invariant
  <1>7. CASE mpc' = "list" /\ mres = "cpu" /\ UNCHANGED <<target, queue, mnode, mres, mpods>>
    <2>1. RoundInv'
        BY <1>1, <1>2, <1>5, <1>7 DEF Invariant, RoundInv, Picked
    <2>2. TypeOK'
        BY <1>1, <1>2, <1>4, <1>5, <1>7 DEF Invariant, TypeOK
    <2> QED
        BY <2>1, <2>2 DEF Invariant
  <1>8. CASE EndHalf /\ UNCHANGED target
    <2>1. RoundInv'
        BY <1>1, <1>4, <1>5, <1>8, HalfEnds DEF Invariant
    <2>2. TypeOK'
        BY <1>1, <1>2, <1>4, <1>5, <1>8
           DEF Invariant, TypeOK, EndHalf, Idle, Nodes, Resources
    <2> QED
        BY <2>1, <2>2 DEF Invariant
  <1> QED
      BY <1>1, <1>6, <1>7, <1>8 DEF Measure, Resources, x, known

LEMMA ListPodsPreserves ==
    ASSUME Invariant, ListPods
    PROVE  Invariant'
  <1>1. /\ mres \in Resources /\ mnode \in DOMAIN rates[mres]
        /\ DOMAIN target = Resources /\ mpc = "list" /\ mpc' = "apply"
        /\ UNCHANGED <<worldVars, sample, queue, rates, mnode, mres>>
        /\ rates[mres] \in [DOMAIN rates[mres] -> Nat]
        /\ IsFiniteSet(DOMAIN rates[mres])
      BY NodeMonitorAssumption DEF Invariant, TypeOK, RoundInv, ListPods
  <1>2. upsets' \in 0 .. MaxUpsets
      BY NodeMonitorAssumption DEF Invariant, TypeOK, ListPods, Upset
  <1>3. mpods' \subseteq Pods
      BY DEF ListPods, TopFive, Heaviest, PodsOn
  <1>4. /\ LeastOf(rates[mres], target'[mres])
        /\ DOMAIN target' = Resources
        /\ \A r \in Resources : target'[r] \in DOMAIN rates[r] \cup {Unset}
    <2>1. CASE mres = "cpu"
      <3>1. PickTarget(rates[mres])
          BY <2>1 DEF ListPods
      <3>2. /\ target'[mres] \in DOMAIN rates[mres] \cup {target[mres]}
            /\ LeastOf(rates[mres], target'[mres])
            /\ DOMAIN target' = Resources
            /\ \A r \in Resources \ {mres} : target'[r] = target[r]
          BY <1>1, <3>1, PickedLeast
      <3> QED
          BY <1>1, <3>2 DEF Invariant, TypeOK
    <2>2. CASE mres = "memory"
        BY <1>1, <2>2 DEF Invariant, TypeOK, RoundInv, Picked, ListPods
    <2> QED
        BY <1>1, <2>1, <2>2 DEF Resources
  <1>5. RoundInv'
      BY <1>1, <1>4 DEF Invariant, RoundInv, Picked, LeastOf
  <1>6. TypeOK'
      BY <1>1, <1>2, <1>3, <1>4 DEF Invariant, TypeOK
  <1> QED
      BY <1>5, <1>6 DEF Invariant

LEMMA DoSSAPreserves ==
    ASSUME Invariant, NEW p \in mpods, DoSSA(p)
    PROVE  Invariant'
  <1>1. RoundInv'
      BY RoundStable DEF DoSSA
  <1>2. upsets' \in 0 .. MaxUpsets
      BY NodeMonitorAssumption DEF Invariant, TypeOK, DoSSA, Upset
  <1>3. sample' \in [pod : Pods \ Protected, node : Workers] \cup {Unset}
      BY DEF Invariant, TypeOK, DoSSA, Admitted
  <1>4. TypeOK'
      BY <1>2, <1>3 DEF Invariant, TypeOK, DoSSA
  <1> QED
      BY <1>1, <1>4 DEF Invariant

LEMMA ApplyDonePreserves ==
    ASSUME Invariant, ApplyDone
    PROVE  Invariant'
  <1>1. RoundInv'
      BY HalfEnds DEF Invariant, RoundInv, ApplyDone
  <1>2. TypeOK'
      BY DEF Invariant, TypeOK, RoundInv, ApplyDone, EndHalf, Idle, Nodes, Resources
  <1> QED
      BY <1>1, <1>2 DEF Invariant

LEMMA StepFailsPreserves ==
    ASSUME Invariant, StepFails
    PROVE  Invariant'
  <1>1. RoundInv'
      BY IdleRound DEF StepFails
  <1>2. upsets' \in 0 .. MaxUpsets
      BY NodeMonitorAssumption DEF Invariant, TypeOK, StepFails, Upset
  <1>3. TypeOK'
      BY <1>2 DEF Invariant, TypeOK, RoundInv, StepFails, Idle, Nodes, Resources
  <1> QED
      BY <1>1, <1>3 DEF Invariant

LEMMA WorkerPreserves ==
    ASSUME Invariant, WorkerStep
    PROVE  Invariant'
  BY MeasurePreserves, ListPodsPreserves, DoSSAPreserves, ApplyDonePreserves,
     StepFailsPreserves DEF WorkerStep
-----------------------------------------------------------------------------
LEMMA ReconcilePreserves ==
    ASSUME Invariant, NEW n \in Nodes, ReconcileIgnores(n) \/ Reconcile(n)
    PROVE  Invariant'
  <1>1. CASE ReconcileIgnores(n)
      BY <1>1, RoundStable DEF Invariant, TypeOK, ReconcileIgnores
  <1>2. CASE Reconcile(n)
      BY <1>2 DEF Invariant, TypeOK, RoundInv, Picked, Reconcile
  <1> QED
      BY <1>1, <1>2

LEMMA RestartPreserves ==
    ASSUME Invariant, ManagerRestarts
    PROVE  Invariant'
  <1>1. RoundInv'
      BY FS_EmptySet DEF RoundInv, Picked, ManagerRestarts, Idle, NoRates
  <1>2. upsets' \in 0 .. MaxUpsets
      BY NodeMonitorAssumption DEF Invariant, TypeOK, ManagerRestarts, Upset
  <1>3. TypeOK'
      BY <1>2 DEF Invariant, TypeOK, ManagerRestarts, Idle, NoRates, Resources
  <1> QED
      BY <1>1, <1>3 DEF Invariant

(* Rates, nodes and pods change, requests are taken and pods restored. *)
LEMMA WorldPreserves ==
    ASSUME Invariant, World
    PROVE  Invariant'
  <1>1. RoundInv'
      BY RoundStable DEF World, RateChanges, NodeGoes, NodeComes, PodMoves, Taken, Restored,
                         Change
  <1>2. /\ upsets' \in 0 .. MaxUpsets
        /\ UNCHANGED <<sample, rates, target, workerVars>>
      BY NodeMonitorAssumption
         DEF Invariant, TypeOK, World, RateChanges, NodeGoes, NodeComes, PodMoves, Taken,
             Restored, Change, Upset
  <1>3. present' \subseteq Nodes /\ queue' \subseteq Nodes
      BY DEF Invariant, TypeOK, World, RateChanges, NodeGoes, NodeComes, PodMoves, Taken,
             Restored, Change
  <1>4. rate' \in [Resources -> [Nodes -> Rates]]
    <2>1. ASSUME NEW r \in Resources, NEW n \in Workers, NEW x \in Rates,
                 RateChanges(r, n, x)
          PROVE  rate' \in [Resources -> [Nodes -> Rates]]
        BY <2>1 DEF Invariant, TypeOK, RateChanges, Nodes
    <2>2. CASE UNCHANGED rate
        BY <2>2 DEF Invariant, TypeOK
    <2> QED
        BY <2>1, <2>2 DEF World, NodeGoes, NodeComes, PodMoves, Taken, Restored, Change
  <1>5. place' \in [Pods -> Nodes \cup {Unset}]
    <2>1. ASSUME NEW p \in Pods, NEW n \in Workers \cup {Unset}, PodMoves(p, n)
          PROVE  place' \in [Pods -> Nodes \cup {Unset}]
        BY <2>1 DEF Invariant, TypeOK, PodMoves, Nodes
    <2>2. ASSUME NEW n \in Nodes, NodeGoes(n)
          PROVE  place' \in [Pods -> Nodes \cup {Unset}]
        BY <2>2 DEF Invariant, TypeOK, NodeGoes
    <2>3. CASE UNCHANGED place
        BY <2>3 DEF Invariant, TypeOK
    <2> QED
        BY <2>1, <2>2, <2>3 DEF World, RateChanges, NodeComes, Taken, Restored, Change
  <1>6. processing' \subseteq Pods \ Protected
    <2>1. CASE Taken
        BY <2>1 DEF Invariant, TypeOK, Taken
    <2>2. processing' \subseteq processing \/ Taken
        BY DEF World, RateChanges, NodeGoes, NodeComes, PodMoves, Restored, Change
    <2> QED
        BY <2>1, <2>2 DEF Invariant, TypeOK
  <1>7. TypeOK'
      BY <1>2, <1>3, <1>4, <1>5, <1>6 DEF Invariant, TypeOK
  <1> QED
      BY <1>1, <1>7 DEF Invariant

LEMMA NextInvariant == Invariant /\ [Next]_vars => Invariant'
  <1> SUFFICES ASSUME Invariant, [Next]_vars PROVE Invariant'
      OBVIOUS
  <1>1. CASE UNCHANGED vars
      BY <1>1 DEF Invariant, TypeOK, RoundInv, Picked, LeastOf
  <1> QED
      BY <1>1, ReconcilePreserves, WorkerPreserves, RestartPreserves, WorldPreserves DEF Next

(* TypeOK and RoundInv hold in every reachable state, whatever rates,      *)
(* failures and changes of the cluster.                                    *)
THEOREM MonitorInvariant == Spec => []Invariant
  <1> QED
      BY InitInvariant, NextInvariant, PTL DEF Spec

(* No target is a node of the control plane, and no pod is asked for in a  *)
(* namespace checkIsValidNamespace refuses.                                *)
THEOREM MonitorTypes == Spec => []TypeOK
  <1>1. Invariant => TypeOK
      BY DEF Invariant
  <1> QED
      BY <1>1, MonitorInvariant, PTL

(* nodemonitor_controller.go:139 and 178, for any number of nodes visited  *)
(* in any order: pods are sent to the node of the least usage on record.   *)
THEOREM LeastLoadedTarget == Spec => []LeastTarget
  <1>1. Invariant => LeastTarget
      BY DEF Invariant, RoundInv, Picked, LeastOf, LeastTarget
  <1> QED
      BY <1>1, MonitorInvariant, PTL
=============================================================================
