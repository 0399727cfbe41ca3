-------------------------- MODULE ImageCheck_proofs --------------------------
(***************************************************************************)
(* Proofs about ImageCheck, for any number of checks, images and nodes and *)
(* any times, those of the code (30 polls, 10 seconds) among them.         *)
(***************************************************************************)
EXTENDS ImageCheck, TLAPS

USE DEF callVars, vars

(* One more interval and one more late poll. *)
LEMMA OneMorePoll ==
    ASSUME NEW t \in Nat, NEW p \in Nat
    PROVE  (t + 1 + 1) * p = (t + 1) * p + p
  OBVIOUS

(* No fewer polls fit into a longer time. *)
LEMMA MorePolls ==
    ASSUME NEW t \in Nat, NEW u \in Nat, NEW p \in Nat, t <= u
    PROVE  t * p <= u * p
  <1>1. PICK d \in Nat : u = t + d
      <2> WITNESS u - t \in Nat
      <2> QED
          OBVIOUS
  <1>2. u * p = t * p + d * p
      BY <1>1
  <1>3. t * p \in Int /\ d * p \in Nat
      BY <1>1
  <1> QED
      BY <1>2, <1>3

LEMMA InitInvariant == Init => Invariant
  BY ImageCheckAssumption DEF Init, Invariant, TypeOK, JobsInv, PollInv, PassedImagesPulled,
         Jobs, Pulled
-----------------------------------------------------------------------------
(* A step that touches neither jobs nor what was pulled leaves their part. *)
LEMMA JobsStable ==
    ASSUME Invariant, clock' \in Nat, clock' >= clock, jobs' \subseteq jobs,
           pulled \subseteq pulled'
    PROVE  JobsInv'
  BY DEF Invariant, TypeOK, JobsInv, Jobs, Pulled

(* What a check has pulled stays pulled. *)
LEMMA PassedStable ==
    ASSUME Invariant, passed' = passed, pulled \subseteq pulled'
    PROVE  PassedImagesPulled'
  BY DEF Invariant, PassedImagesPulled

(* A poll in vain counts, and sleeps an interval from where it is. *)
LEMMA PollCounted ==
    ASSUME Invariant, PollIsDue, CountPoll,
           UNCHANGED <<clock, present, jobs, pulled, passed, checks, faults>>
    PROVE  Invariant'
  <1>1. /\ clock \in Nat /\ due \in Nat /\ since \in Nat /\ times \in Nat
        /\ CheckTimes \in Nat /\ Interval \in Nat /\ Latency \in Nat
      BY ImageCheckAssumption DEF Invariant, TypeOK
  <1>2. CASE times > CheckTimes
      BY <1>2, JobsStable, PassedStable
         DEF Invariant, TypeOK, PollInv, CountPoll, Return
  <1>3. CASE ~ (times > CheckTimes)
    <2>1. TypeOK'
        BY <1>1, <1>3 DEF Invariant, TypeOK, CountPoll, PollAgain
    <2>2. JobsInv' /\ PassedImagesPulled' /\ (cpc' # "idle" => check' \in Checks)
        BY <1>1, <1>3, JobsStable, PassedStable
           DEF CountPoll, PollAgain, Invariant
    <2>3. due + Latency - since <= (times + 1) * (Interval + Latency)
        BY DEF Invariant, PollInv, PollIsDue
    <2>4. due' + Latency - since <= due + Latency - since + (Interval + Latency)
        BY <1>1, <1>3 DEF Invariant, PollInv, PollIsDue, CountPoll, PollAgain
    <2>5. (times + 1 + 1) * (Interval + Latency)
              = (times + 1) * (Interval + Latency) + (Interval + Latency)
        BY <1>1, OneMorePoll
    <2>6. due' + Latency - since' <= (times' + 1) * (Interval + Latency)
      <3> DEFINE q == (times + 1) * (Interval + Latency)
      <3>1. q \in Int /\ due' = clock + Interval /\ since' = since /\ times' = times + 1
          BY <1>1, <1>3 DEF CountPoll, PollAgain
      <3> HIDE DEF q
      <3> QED
          BY <1>1, <2>3, <2>4, <2>5, <3>1 DEF q
    <2>7. PollInv'
        BY <1>1, <1>3, <2>6 DEF Invariant, PollInv, PollIsDue, CountPoll, PollAgain, Named
    <2> QED
        BY <2>1, <2>2, <2>7 DEF Invariant
  <1> QED
      BY <1>2, <1>3
-----------------------------------------------------------------------------
(* What the worker does. *)
LEMMA WorkerPreserves ==
    ASSUME Invariant, Worker
    PROVE  Invariant'
  <1>0. /\ clock \in Nat /\ CheckTimes \in Nat /\ Interval \in Nat \ {0}
        /\ Latency \in Nat /\ faults \in Nat /\ MaxFaults \in Nat
      BY ImageCheckAssumption DEF Invariant, TypeOK
  <1>j. ASSUME cpc = "create", Named(clock) = {}, jobs' = jobs \cup {NewJob},
               clock' = clock, pulled' = pulled
        PROVE  /\ jobs' \subseteq Jobs
               /\ \A i, j \in jobs' : i.name = j.name => i = j
               /\ JobsInv'
    <2>1. /\ NewJob \in Jobs /\ NewJob.name = clock /\ NewJob.of = check
          /\ NewJob.status = "active" /\ NewJob.left = NewJob.of.images
        BY <1>0, <1>j, ImageCheckAssumption DEF Invariant, NewJob, Jobs
    <2>2. \A j \in jobs : j.name # clock
        BY <1>j DEF Named
    <2> QED
        BY <1>j, <1>0, <2>1, <2>2 DEF Invariant, TypeOK, JobsInv, Pulled
  <1>1. CASE CreateJob
    <2>1. jobs' \subseteq Jobs /\ JobsInv' /\ \A i, j \in jobs' : i.name = j.name => i = j
        BY <1>1, <1>j DEF CreateJob
    <2>2. TypeOK' /\ PassedImagesPulled' /\ check' \in Checks
        BY <1>0, <1>1, <2>1, PassedStable DEF CreateJob, CheckJobStatus, Invariant, TypeOK
    <2>3. \A j \in jobs' : j.name = clock => j.of = check
        BY <1>1 DEF CreateJob, Named, NewJob
    <2>4. (0 + 1) * (Interval + Latency) = Interval + Latency
        BY <1>0
    <2>5. PollInv'
        BY <1>0, <1>1, <2>3, <2>4 DEF CreateJob, CheckJobStatus, PollInv, Named
    <2> QED
        BY <2>1, <2>2, <2>5 DEF Invariant
  <1>2. CASE CreateJobFails
    <2>1. jobs' \subseteq Jobs /\ JobsInv' /\ \A i, j \in jobs' : i.name = j.name => i = j
      <3>1. CASE jobs' = jobs
          BY <1>2, <3>1 DEF CreateJobFails, Invariant, TypeOK, JobsInv, Pulled
      <3>2. CASE Named(clock) = {} /\ jobs' = jobs \cup {NewJob}
          BY <1>2, <1>j, <3>2 DEF CreateJobFails
      <3> QED
          BY <1>2, <3>1, <3>2 DEF CreateJobFails
    <2>2. TypeOK' /\ PassedImagesPulled'
        BY <1>0, <1>2, <2>1, PassedStable
           DEF CreateJobFails, Return, Fault, Invariant, TypeOK
    <2> QED
        BY <1>2, <2>1, <2>2 DEF CreateJobFails, Return, Invariant, PollInv
  <1>3. CASE PollSucceeds
    <2>1. PICK j \in Named(job) : j.status = "succeeded"
        BY <1>3 DEF PollSucceeds
    <2>2. j \in jobs /\ j.of = check /\ check \in Checks
        BY <1>3, <2>1 DEF PollSucceeds, PollIsDue, Invariant, PollInv, Named
    <2>3. j.left = {} /\ Pulled(check.images \ {}, check.node)
        BY <2>1, <2>2 DEF Invariant, JobsInv
    <2>4. PassedImagesPulled'
        BY <1>3, <2>3 DEF PollSucceeds, Invariant, PassedImagesPulled, Pulled
    <2>5. TypeOK' /\ JobsInv' /\ check' \in Checks
        BY <1>0, <1>3, <2>2, JobsStable DEF PollSucceeds, Invariant, TypeOK
    <2> QED
        BY <1>3, <2>4, <2>5 DEF PollSucceeds, Invariant, PollInv
  <1>4. CASE PollMissing
      BY <1>4, PollCounted DEF PollMissing
  <1>5. CASE PollUnfinished
      BY <1>5, PollCounted DEF PollUnfinished
  <1>6. CASE PollFails
      BY <1>0, <1>6, JobsStable, PassedStable
         DEF PollFails, Return, Fault, Invariant, TypeOK, PollInv
  <1>7. CASE DeleteBuildahJobs
      BY <1>0, <1>7, JobsStable, PassedStable
         DEF DeleteBuildahJobs, Return, Invariant, TypeOK, PollInv
  <1> QED
      BY <1>1, <1>2, <1>3, <1>4, <1>5, <1>6, <1>7 DEF Worker
-----------------------------------------------------------------------------
(* What happens to one job while the rest stays: it keeps its name and     *)
(* what it is for, and what it no longer has to pull has been pulled.      *)
LEMMA OneJobMoves ==
    ASSUME Invariant, NEW j \in jobs, NEW k \in Jobs,
           jobs' = (jobs \ {j}) \cup {k}, k.name = j.name, k.of = j.of,
           pulled \subseteq pulled',
           \A i \in k.of.images \ k.left : [image |-> i, node |-> k.of.node] \in pulled',
           k.status = "succeeded" => k.left = {},
           pulled' \subseteq [image : Images, node : Nodes], faults' \in 0 .. MaxFaults,
           UNCHANGED <<clock, present, passed, callVars, checks>>
    PROVE  Invariant'
  <1>1. TypeOK'
      BY DEF Invariant, TypeOK
  <1>2. JobsInv'
      BY DEF Invariant, TypeOK, JobsInv, Pulled
  <1>3. PollInv'
      BY DEF Invariant, PollInv, Named
  <1>4. PassedImagesPulled'
      BY PassedStable
  <1> QED
      BY <1>1, <1>2, <1>3, <1>4 DEF Invariant

(* What the cluster does. *)
LEMMA PullPreserves ==
    ASSUME Invariant, NEW j \in jobs, NEW i \in Images, Pull(j, i)
    PROVE  Invariant'
  <1> DEFINE k == IF j.left = {i}
                  THEN [j EXCEPT !.left = {}, !.status = "succeeded", !.done = clock]
                  ELSE [j EXCEPT !.left = @ \ {i}]
  <1>1. j \in Jobs /\ clock \in Nat /\ j.of.node \in Nodes
      BY ImageCheckAssumption DEF Invariant, TypeOK, Jobs
  <1>2. /\ k \in Jobs /\ k.name = j.name /\ k.of = j.of /\ k.left = j.left \ {i}
        /\ k.status = "succeeded" => k.left = {}
      BY <1>1 DEF Pull, Jobs
  <1>3. jobs' = (jobs \ {j}) \cup {k}
      BY DEF Pull
  <1>4. pulled' = pulled \cup {[image |-> i, node |-> j.of.node]}
      BY DEF Pull
  <1> HIDE DEF k
  <1>5. \A x \in k.of.images \ k.left : [image |-> x, node |-> k.of.node] \in pulled'
      BY <1>2, <1>4 DEF Invariant, JobsInv, Pulled
  <1>6. pulled' \subseteq [image : Images, node : Nodes] /\ faults' \in 0 .. MaxFaults
      BY <1>1, <1>4 DEF Invariant, TypeOK, Pull
  <1>7. UNCHANGED <<clock, present, passed, callVars, checks>>
      BY DEF Pull, Cluster
  <1> QED
      BY <1>2, <1>3, <1>4, <1>5, <1>6, <1>7, OneJobMoves

LEMMA JobFailsPreserves ==
    ASSUME Invariant, NEW j \in jobs, JobFails(j)
    PROVE  Invariant'
  <1> DEFINE k == [j EXCEPT !.status = "failed", !.done = clock]
  <1>1. j \in Jobs /\ clock \in Nat /\ MaxFaults \in Nat
      BY ImageCheckAssumption DEF Invariant, TypeOK
  <1>2. /\ k \in Jobs /\ k.name = j.name /\ k.of = j.of /\ k.left = j.left
        /\ k.status = "failed"
      BY <1>1 DEF Jobs
  <1>3. jobs' = (jobs \ {j}) \cup {k} /\ pulled' = pulled
      BY DEF JobFails
  <1> HIDE DEF k
  <1>4. /\ \A x \in k.of.images \ k.left : [image |-> x, node |-> k.of.node] \in pulled'
        /\ pulled' \subseteq [image : Images, node : Nodes]
      BY <1>2, <1>3 DEF Invariant, TypeOK, JobsInv, Pulled
  <1>5. faults' \in 0 .. MaxFaults
      BY <1>1 DEF Invariant, TypeOK, JobFails, Fault
  <1>6. UNCHANGED <<clock, present, passed, callVars, checks>>
      BY DEF JobFails, Cluster
  <1> QED
      BY <1>2, <1>3, <1>4, <1>5, <1>6, OneJobMoves

LEMMA NextInvariant == Invariant /\ [Next]_vars => Invariant'
  <1> SUFFICES ASSUME Invariant, [Next]_vars PROVE Invariant'
      OBVIOUS
  <1>0. clock \in Nat /\ due \in Nat /\ Latency \in Nat /\ MaxFaults \in Nat /\ MaxChecks \in Nat
      BY ImageCheckAssumption DEF Invariant, TypeOK
  <1>1. ASSUME NEW c \in Checks, OriginalImageChecker(c) PROVE Invariant'
      BY <1>0, <1>1, JobsStable, PassedStable
         DEF OriginalImageChecker, Invariant, TypeOK, PollInv
  <1>2. CASE Worker
      BY <1>2, WorkerPreserves
  <1>3. ASSUME NEW j \in jobs, JobFails(j) PROVE Invariant'
      BY <1>3, JobFailsPreserves
  <1>4. ASSUME NEW j \in jobs, ExpireJob(j) PROVE Invariant'
    <2>1. TypeOK' /\ JobsInv' /\ PassedImagesPulled'
        BY <1>0, <1>4, JobsStable, PassedStable DEF ExpireJob, Cluster, Invariant, TypeOK
    <2>2. PollInv' /\ (cpc' # "idle" => check' \in Checks)
        BY <1>4 DEF ExpireJob, Cluster, Invariant, PollInv, Named
    <2> QED
        BY <2>1, <2>2 DEF Invariant
  <1>5. ASSUME NEW j \in jobs, NEW i \in Images, Pull(j, i) PROVE Invariant'
      BY <1>5, PullPreserves
  <1>6. ASSUME NEW n \in Nodes, NodeGoes(n) PROVE Invariant'
    <2>1. TypeOK' /\ JobsInv' /\ PassedImagesPulled'
        BY <1>0, <1>6, JobsStable, PassedStable DEF NodeGoes, Fault, Cluster, Invariant, TypeOK
    <2>2. PollInv' /\ (cpc' # "idle" => check' \in Checks)
        BY <1>6 DEF NodeGoes, Cluster, Invariant, PollInv, Named
    <2> QED
        BY <2>1, <2>2 DEF Invariant
  <1>7. CASE Tick
    <2>1. TypeOK' /\ JobsInv' /\ PassedImagesPulled'
        BY <1>0, <1>7, JobsStable, PassedStable DEF Tick, Cluster, Invariant, TypeOK
    <2>2. PollInv' /\ (cpc' # "idle" => check' \in Checks)
        BY <1>0, <1>7 DEF Tick, Cluster, Invariant, TypeOK, PollInv, Named
    <2> QED
        BY <2>1, <2>2 DEF Invariant
  <1>8. CASE UNCHANGED vars
    <2>1. TypeOK' /\ JobsInv' /\ PassedImagesPulled'
        BY <1>0, <1>8, JobsStable, PassedStable DEF Invariant, TypeOK
    <2>2. PollInv' /\ (cpc' # "idle" => check' \in Checks)
        BY <1>8 DEF Invariant, PollInv, Named
    <2> QED
        BY <2>1, <2>2 DEF Invariant
  <1> QED
      BY <1>1, <1>2, <1>3, <1>4, <1>5, <1>6, <1>7, <1>8 DEF Next

LEMMA ImageCheckInvariant == Spec => []Invariant
  BY InitInvariant, NextInvariant, PTL DEF Spec
-----------------------------------------------------------------------------
(* The types, for every value of the constants. *)
THEOREM ImageCheckTypes == Spec => []TypeOK
  <1>1. Invariant => TypeOK
      BY DEF Invariant
  <1> QED
      BY <1>1, ImageCheckInvariant, PTL

(* deploy-new-pod.go:30-39: what has passed was pulled, by a job of its own *)
(* name, whatever jobs failed checks leave behind.                         *)
THEOREM PassedPulled == Spec => []PassedImagesPulled
  <1>1. Invariant => PassedImagesPulled
      BY DEF Invariant
  <1> QED
      BY <1>1, ImageCheckInvariant, PTL

(* check_origin_image.go:133 and 146: with the code's values a check holds *)
(* the worker up for at most 32 intervals and late polls.                  *)
THEOREM HeldUp == Spec => []HeldUpBriefly
  <1>1. Invariant => HeldUpBriefly
    <2> SUFFICES ASSUME Invariant, cpc = "poll"
                 PROVE  clock - since <= (CheckTimes + 2) * (Interval + Latency)
        BY DEF HeldUpBriefly
    <2> DEFINE p == Interval + Latency
    <2>1. /\ clock \in Nat /\ due \in Nat /\ since \in Nat /\ times \in Nat
          /\ CheckTimes \in Nat /\ Latency \in Nat /\ p \in Nat
        BY ImageCheckAssumption DEF Invariant, TypeOK
    <2>2. /\ clock - since <= (times + 1) * p
          /\ times + 1 <= CheckTimes + 2
      <3>1. /\ times <= CheckTimes + 1 /\ clock <= due + Latency
            /\ due + Latency - since <= (times + 1) * p
          BY DEF Invariant, PollInv
      <3>2. (times + 1) * p \in Int
          BY <2>1
      <3> HIDE DEF p
      <3> DEFINE q == (times + 1) * p
      <3> HIDE DEF q
      <3> QED
          BY <2>1, <3>1, <3>2 DEF q
    <2>3. (times + 1) * p <= (CheckTimes + 2) * p
        BY <2>1, <2>2, MorePolls
    <2>4. (times + 1) * p \in Int /\ (CheckTimes + 2) * p \in Int
        BY <2>1
    <2> HIDE DEF p
    <2> QED
        BY <2>1, <2>2, <2>3, <2>4 DEF p
  <1> QED
      BY <1>1, ImageCheckInvariant, PTL
=============================================================================
