--------------------------- MODULE RestoreHandler ---------------------------
(***************************************************************************)
(* The restore handler (handlers/restore): it reads "delete-pod" one       *)
(* message at a time and deletes the old pod.  AliveCheck, which would     *)
(* look at the new pod first, is called by nothing.                        *)
(***************************************************************************)
EXTENDS Cluster

VARIABLES
    delTopic,   \* messages the handler has not committed, oldest first
    deleting    \* the message being handled, or Unset

restoreVars == <<delTopic, deleting>>

RestoreInit ==
    /\ delTopic = << >>
    /\ deleting = Unset

(* The message is committed before it is used, and whether the commit      *)
(* failed is not looked at: if it did, the next reader has the message     *)
(* again.                                                                  *)
ConsumeDelete ==
    /\ deleting = Unset
    /\ delTopic # << >>
    /\ deleting' = Head(delTopic)
    /\ \/ delTopic' = Tail(delTopic) /\ UNCHANGED faults
       \/ UNCHANGED delTopic /\ Fault("commit")
    /\ UNCHANGED podVars

(* Mutant: the prefix is left on the name. *)
OldPodUncut(m) == Pod(m.ns, m.pod)

(* main cuts the prefix off the new pod's name; the namespace is the old   *)
(* pod's.                                                                  *)
OldPod(m) == Pod(m.ns, OldName(m.pod))

(* Mutant: a pod is gone and is still counted as running. *)
DeleteOldPodStillRunning ==
    /\ deleting # Unset
    /\ deleting' = Unset
    /\ pods' = pods \ {OldPod(deleting)}
    /\ removed' = removed \cup ({OldPod(deleting)} \cap pods)
    /\ UNCHANGED <<running, namespaces, created, checkpointed, faults, delTopic>>

(* DeleteOldPod: Get and Delete; a pod that is gone is no error. *)
DeleteOldPod ==
    /\ deleting # Unset
    /\ deleting' = Unset
    /\ pods' = pods \ {OldPod(deleting)}
    /\ running' = running \ {OldPod(deleting)}
    /\ removed' = removed \cup ({OldPod(deleting)} \cap pods)
    /\ UNCHANGED <<namespaces, created, checkpointed, faults, delTopic>>

(* The API server refuses, which main only logs, or the handler crashes:   *)
(* the message was committed.                                              *)
DeleteOldPodFails ==
    /\ deleting # Unset
    /\ Fault("restore")
    /\ deleting' = Unset
    /\ UNCHANGED <<podVars, delTopic>>

RestoreNext == ConsumeDelete \/ DeleteOldPod \/ DeleteOldPodFails
=============================================================================
