----------------------------- MODULE ImageCheck -----------------------------
(***************************************************************************)
(* OriginalImageChecker (handlers/deploy-new-pod.go) and                   *)
(* util/check_origin_image.go: before a checkpoint is pushed, a job on the *)
(* destination pulls the images of the pod's containers, and the one       *)
(* worker of the MigrationController polls that job until it has           *)
(* succeeded.  The job is named after the second it is made in, and the    *)
(* job controller removes it a while after it has finished.  Time is a     *)
(* clock of whole seconds; it runs only while the worker waits for it.     *)
(***************************************************************************)
EXTENDS Integers, FiniteSets

CONSTANTS
    Nodes,       \* destinations objects may name
    Images,      \* images of containers
    Checks,      \* what may be checked: [images, node] of a pod and an object
    CheckTimes,  \* checkJobStatusTime
    Interval,    \* seconds CheckJobStatus sleeps
    Latency,     \* seconds a poll may be late
    TTL,         \* TTLSecondsAfterFinished
    MaxChecks,   \* bound: checks ever started
    MaxFaults    \* bound: failures in one behaviour

ASSUME ImageCheckAssumption ==
    /\ Checks \subseteq [images : SUBSET Images \ {{}}, node : Nodes]
    /\ CheckTimes \in Nat
    /\ Interval \in Nat \ {0}
    /\ Latency \in Nat
    /\ TTL \in Nat
    /\ MaxChecks \in Nat
    /\ MaxFaults \in Nat

NoCheck == [images |-> {}, node |-> "none"]

VARIABLES
    clock,    \* seconds since the start
    present,  \* nodes the cluster has
    jobs,     \* check jobs that exist
    pulled,   \* history: [image, node] of each pull
    passed,   \* history: checks OriginalImageChecker returned nil for
    cpc,      \* call the worker is about to make
    check,    \* the pod's images and the object's destination
    job,      \* name of the job CheckJobStatus looks for
    times,    \* its counter
    since,    \* when it was called
    due,      \* when its sleep ends
    checks,   \* checks started so far
    faults    \* failures so far

callVars == <<cpc, check, job, times, since, due>>
vars == <<clock, present, jobs, pulled, passed, callVars, checks, faults>>

Jobs == [name : Nat, of : Checks, left : SUBSET Images,
         status : {"active", "succeeded", "failed"}, done : Nat]

Init ==
    /\ clock = 0
    /\ present = Nodes
    /\ jobs = {}
    /\ pulled = {}
    /\ passed = {}
    /\ cpc = "idle"
    /\ check = NoCheck
    /\ job = 0
    /\ times = 0
    /\ since = 0
    /\ due = 0
    /\ checks = 0
    /\ faults = 0

Fault ==
    /\ faults < MaxFaults
    /\ faults' = faults + 1
-----------------------------------------------------------------------------
Named(x) == {j \in jobs : j.name = x}

(* checkpointSinglePod calls OriginalImageChecker for the next container,  *)
(* or a reconciliation that failed is tried again at once.                 *)
OriginalImageChecker(c) ==
    /\ cpc = "idle"
    /\ checks < MaxChecks
    /\ checks' = checks + 1
    /\ cpc' = "create"
    /\ check' = c
    /\ UNCHANGED <<clock, present, jobs, pulled, passed, job, times, since,
                   due, faults>>

(* The name has the time down to the second: ".000" would have been the    *)
(* milliseconds, "-000" is text.                                           *)
NewJob == [name |-> clock, of |-> check, left |-> check.images,
           status |-> "active", done |-> 0]

(* CheckJobStatus is called, and sleeps before it looks for the first time. *)
CheckJobStatus ==
    /\ cpc' = "poll"
    /\ job' = clock
    /\ times' = 0
    /\ since' = clock
    /\ due' = clock + Interval

(* OriginalImageChecker has returned. *)
Return ==
    /\ cpc' = "idle"
    /\ check' = NoCheck
    /\ job' = 0
    /\ times' = 0
    /\ since' = 0
    /\ due' = 0

(* Mutant: no name is refused. *)
CreateJobUnchecked ==
    /\ cpc = "create"
    /\ jobs' = jobs \cup {NewJob}
    /\ CheckJobStatus
    /\ UNCHANGED <<clock, present, pulled, passed, check, checks, faults>>

(* Mutant: a job of that name that exists already is as good as a new one. *)
CreateJobOrTakeIt ==
    /\ cpc = "create"
    /\ jobs' = IF Named(clock) = {} THEN jobs \cup {NewJob} ELSE jobs
    /\ CheckJobStatus
    /\ UNCHANGED <<clock, present, pulled, passed, check, checks, faults>>

(* CheckImageIDExistOnNode: Create is refused when the name is taken. *)
CreateJob ==
    /\ cpc = "create"
    /\ Named(clock) = {}
    /\ jobs' = jobs \cup {NewJob}
    /\ CheckJobStatus
    /\ UNCHANGED <<clock, present, pulled, passed, check, checks, faults>>

(* Create is refused, or fails, or the job is made and the answer lost. *)
CreateJobFails ==
    /\ cpc = "create"
    /\ \/ Named(clock) # {} /\ UNCHANGED <<jobs, faults>>
       \/ Fault /\ UNCHANGED jobs
       \/ Fault /\ Named(clock) = {} /\ jobs' = jobs \cup {NewJob}
    /\ Return
    /\ UNCHANGED <<clock, present, pulled, passed, checks>>

PollIsDue == cpc = "poll" /\ clock >= due

(* The job is there and has succeeded. *)
PollSucceeds ==
    /\ PollIsDue
    /\ \E j \in Named(job) : j.status = "succeeded"
    /\ passed' = passed \cup {check}
    /\ cpc' = "push"
    /\ UNCHANGED <<clock, present, jobs, pulled, check, job, times, since, due,
                   checks, faults>>

(* The other two branches: once more round the loop, or "job checktime     *)
(* exceeded".                                                              *)
PollAgain ==
    /\ times' = times + 1
    /\ due' = clock + Interval
    /\ UNCHANGED <<cpc, check, job, since>>

CountPoll == IF times > CheckTimes THEN Return ELSE PollAgain

(* Mutant: the continue comes before the counter. *)
PollMissingUncounted ==
    /\ PollIsDue
    /\ Named(job) = {}
    /\ due' = clock + Interval
    /\ UNCHANGED <<clock, present, jobs, pulled, passed, cpc, check, job, times,
                   since, checks, faults>>

PollMissing ==
    /\ PollIsDue
    /\ Named(job) = {}
    /\ CountPoll
    /\ UNCHANGED <<clock, present, jobs, pulled, passed, checks, faults>>

(* Mutant: the loop goes round for an active job only. *)
PollActive ==
    /\ PollIsDue
    /\ \E j \in Named(job) : j.status = "active"
    /\ CountPoll
    /\ UNCHANGED <<clock, present, jobs, pulled, passed, checks, faults>>

PollUnfinished ==
    /\ PollIsDue
    /\ \E j \in Named(job) : j.status # "succeeded"
    /\ CountPoll
    /\ UNCHANGED <<clock, present, jobs, pulled, passed, checks, faults>>

(* Another error of Get ends the check, as a crash of the manager does;    *)
(* the job stays.                                                          *)
PollFails ==
    /\ cpc = "poll"
    /\ Fault
    /\ Return
    /\ UNCHANGED <<clock, present, jobs, pulled, passed, checks>>

(* The image is pushed, and DeleteBuildahJobs deletes what has succeeded   *)
(* in the namespace, these jobs too.                                       *)
DeleteBuildahJobs ==
    /\ cpc = "push"
    /\ jobs' = {j \in jobs : j.status # "succeeded"}
    /\ Return
    /\ UNCHANGED <<clock, present, pulled, passed, checks, faults>>

Worker ==
    \/ CreateJob
    \/ CreateJobFails
    \/ PollSucceeds
    \/ PollMissing
    \/ PollUnfinished
    \/ PollFails
    \/ DeleteBuildahJobs
-----------------------------------------------------------------------------
(* The cluster: the jobs' pods, the job controller, nodes and time. *)
Cluster == UNCHANGED <<passed, callVars, checks>>

(* "buildah pull" of one image after the other, joined by "&&"; with the   *)
(* last the job has succeeded.                                             *)
Pull(j, i) ==
    /\ j.status = "active"
    /\ j.of.node \in present
    /\ i \in j.left
    /\ pulled' = pulled \cup {[image |-> i, node |-> j.of.node]}
    /\ jobs' = (jobs \ {j}) \cup
           {IF j.left = {i}
            THEN [j EXCEPT !.left = {}, !.status = "succeeded", !.done = clock]
            ELSE [j EXCEPT !.left = @ \ {i}]}
    /\ UNCHANGED <<clock, present, faults>>
    /\ Cluster

(* Its pods fail too often, or are lost with their node. *)
JobFails(j) ==
    /\ j.status = "active"
    /\ \/ j.of.node \notin present /\ UNCHANGED faults
       \/ Fault
    /\ jobs' = (jobs \ {j}) \cup {[j EXCEPT !.status = "failed", !.done = clock]}
    /\ UNCHANGED <<clock, present, pulled>>
    /\ Cluster

ExpireJob(j) ==
    /\ j.status # "active"
    /\ clock >= j.done + TTL
    /\ jobs' = jobs \ {j}
    /\ UNCHANGED <<clock, present, pulled, faults>>
    /\ Cluster

NodeGoes(n) ==
    /\ n \in present
    /\ Fault
    /\ present' = present \ {n}
    /\ UNCHANGED <<clock, jobs, pulled>>
    /\ Cluster

(* A second passes: in a sleep, while a poll is late, and between checks   *)
(* if the name of this second is taken.                                    *)
Tick ==
    /\ \/ cpc = "poll" /\ clock < due + Latency
       \/ cpc = "idle" /\ Named(clock) # {}
    /\ clock' = clock + 1
    /\ UNCHANGED <<present, jobs, pulled, faults>>
    /\ Cluster

Next ==
    \/ \E c \in Checks : OriginalImageChecker(c)
    \/ Worker
    \/ \E j \in jobs : JobFails(j) \/ ExpireJob(j) \/ \E i \in Images : Pull(j, i)
    \/ \E n \in Nodes : NodeGoes(n)
    \/ Tick

Spec == Init /\ [][Next]_vars

(* Time goes on and the worker is scheduled; nothing obliges a job, a      *)
(* node or the job controller.                                             *)
Fairness == WF_vars(Tick) /\ WF_vars(Worker)

FairSpec == Spec /\ Fairness
-----------------------------------------------------------------------------
(* The state has its types, and no two jobs have one name. *)
TypeOK ==
    /\ clock \in Nat
    /\ present \subseteq Nodes
    /\ jobs \subseteq Jobs
    /\ \A i, j \in jobs : i.name = j.name => i = j
    /\ pulled \subseteq [image : Images, node : Nodes]
    /\ passed \subseteq Checks
    /\ cpc \in {"idle", "create", "poll", "push"}
    /\ check \in Checks \cup {NoCheck}
    /\ job \in Nat /\ times \in Nat /\ since \in Nat /\ due \in Nat
    /\ checks \in 0 .. MaxChecks
    /\ faults \in 0 .. MaxFaults

(* deploy-new-pod.go:30-39: a check that returns nil has pulled each image *)
(* of the pod on the node the pod will be restored on, though a check that *)
(* failed within the same second has left a job of the same name, jobs     *)
(* fail half way, and jobs are removed while they are polled.              *)
PassedImagesPulled == \A c \in passed : \A i \in c.images :
    [image |-> i, node |-> c.node] \in pulled

(* check_origin_image.go:133 and 146: whatever becomes of the job (it      *)
(* never runs, fails, or succeeds and is removed between two looks) the    *)
(* worker, which has all the other objects waiting, is held up for no      *)
(* longer than the polls allow.                                            *)
HeldUpBriefly == cpc = "poll" =>
    clock - since <= (CheckTimes + 2) * (Interval + Latency)

(* The polling itself ends, and the next check can be made. *)
CheckReturns == cpc # "idle" ~> cpc = "idle"
-----------------------------------------------------------------------------
(* The inductive invariant: what a job still has to pull, whose job has    *)
(* the name that is polled, and how far the polls have got.                *)
Pulled(images, n) == \A i \in images : [image |-> i, node |-> n] \in pulled

JobsInv == \A j \in jobs :
    /\ j.name <= clock
    /\ Pulled(j.of.images \ j.left, j.of.node)
    /\ j.status = "succeeded" => j.left = {}

PollInv == cpc = "poll" =>
    /\ job <= clock
    /\ \A j \in Named(job) : j.of = check
    /\ times <= CheckTimes + 1
    /\ clock <= due + Latency
    /\ due + Latency - since <= (times + 1) * (Interval + Latency)

Invariant ==
    /\ TypeOK
    /\ JobsInv
    /\ PollInv
    /\ cpc # "idle" => check \in Checks
    /\ PassedImagesPulled
=============================================================================
