--------------------------- MODULE ConsumeMessage ---------------------------
(***************************************************************************)
(* handlers.ConsumeMessage (handlers/kafka.go): one goroutine per node     *)
(* reads the same topic in the same consumer group, commits the messages   *)
(* of its node and collects them until a deadline of ten seconds.          *)
(*                                                                         *)
(* Kafka is external: the topic has one partition, the group gives it to   *)
(* one open reader at a time, and a reader that gets it starts at the      *)
(* committed offset.  FENCING, an assumption the code cannot show: no      *)
(* commit is taken of a reader that lost the partition since it fetched.   *)
(* The broker looks at member and generation alone, so the client must not *)
(* send such a commit under a generation it has joined since.              *)
(***************************************************************************)
EXTENDS Naturals, Sequences, Functions

CONSTANTS
    Nodes,        \* registry nodes, one reader each
    Unset,        \* the empty key
    MaxMessages   \* bound: messages ever produced

ASSUME ConsumeMessageAssumption == Unset \notin Nodes /\ MaxMessages \in Nat

VARIABLES
    log,          \* the partition: the key of each message ever produced
    committed,    \* committed offset of "my-group": messages passed
    owner,        \* the reader the partition is assigned to, or Unset
    pc,           \* pc[n]: closed, fetch, commit or returned
    cursor,       \* cursor[n]: offset of the message the reader fetched last
    messageList,  \* messageList[n]: offsets the call of n has collected
    deliveries    \* history: offsets in the order they entered a list

vars == <<log, committed, owner, pc, cursor, messageList, deliveries>>

Keys == Nodes \cup {Unset}

Init ==
    /\ log = << >>
    /\ committed = 0
    /\ owner = Unset
    /\ pc = [n \in Nodes |-> "closed"]
    /\ cursor = [n \in Nodes |-> 0]
    /\ messageList = [n \in Nodes |-> << >>]
    /\ deliveries = << >>

(* A webhook publishes. *)
Produce(k) ==
    /\ Len(log) < MaxMessages
    /\ log' = Append(log, k)
    /\ UNCHANGED <<committed, owner, pc, cursor, messageList, deliveries>>

(* The DaemonSet controller starts a round: every goroutine of the last    *)
(* one has ended, and each makes a reader.                                 *)
NewReaders ==
    /\ \A n \in Nodes : pc[n] = "closed"
    /\ pc' = [n \in Nodes |-> "fetch"]
    /\ UNCHANGED <<log, committed, owner, cursor, messageList, deliveries>>

(* Mutant: the committed offset is taken for the last message read. *)
RebalanceOffByOne(n) ==
    /\ pc[n] = "fetch"
    /\ owner # n
    /\ owner' = n
    /\ cursor' = [cursor EXCEPT ![n] = committed + 1]
    /\ UNCHANGED <<log, committed, pc, messageList, deliveries>>

(* Mutant: the reader goes on where it was before it lost the partition. *)
RebalanceKeepsCursor(n) ==
    /\ pc[n] = "fetch"
    /\ owner # n
    /\ owner' = n
    /\ UNCHANGED <<log, committed, pc, cursor, messageList, deliveries>>

(* The group coordinator gives the partition to an open reader.  One whose *)
(* commit is under way joins again when the broker has refused it.         *)
Rebalance(n) ==
    /\ pc[n] = "fetch"
    /\ owner # n
    /\ owner' = n
    /\ cursor' = [cursor EXCEPT ![n] = committed]
    /\ UNCHANGED <<log, committed, pc, messageList, deliveries>>

(* Mutant: every message is committed, whatever its key. *)
FetchCommitsAll(n) ==
    /\ pc[n] = "fetch"
    /\ owner = n
    /\ cursor[n] < Len(log)
    /\ cursor' = [cursor EXCEPT ![n] = @ + 1]
    /\ pc' = [pc EXCEPT ![n] = "commit"]
    /\ UNCHANGED <<log, committed, owner, messageList, deliveries>>

(* FetchMessage returns the next message. One for another node is passed   *)
(* over: the loop goes round without a commit.                             *)
FetchMessage(n) ==
    /\ pc[n] = "fetch"
    /\ owner = n
    /\ cursor[n] < Len(log)
    /\ cursor' = [cursor EXCEPT ![n] = @ + 1]
    /\ pc' = [pc EXCEPT ![n] =
                IF log[cursor[n] + 1] \in {n, Unset} THEN "commit" ELSE "fetch"]
    /\ UNCHANGED <<log, committed, owner, messageList, deliveries>>

(* Mutant: the message enters the list and its offset is not committed. *)
AppendWithoutCommit(n) ==
    /\ pc[n] = "commit"
    /\ owner = n
    /\ pc' = [pc EXCEPT ![n] = "fetch"]
    /\ messageList' = [messageList EXCEPT ![n] = Append(@, cursor[n])]
    /\ deliveries' = Append(deliveries, cursor[n])
    /\ UNCHANGED <<log, committed, owner, cursor>>

(* CommitMessages succeeds, for the reader that has the partition          *)
(* (FENCING); a message of this node enters the list.                      *)
CommitMessages(n) ==
    /\ pc[n] = "commit"
    /\ owner = n
    /\ committed' = cursor[n]
    /\ pc' = [pc EXCEPT ![n] = "fetch"]
    /\ IF log[cursor[n]] = n
       THEN /\ messageList' = [messageList EXCEPT ![n] = Append(@, cursor[n])]
            /\ deliveries' = Append(deliveries, cursor[n])
       ELSE UNCHANGED <<messageList, deliveries>>
    /\ UNCHANGED <<log, owner, cursor>>

(* CommitMessages returns an error, whether or not the broker took the     *)
(* offset.  An empty message is forgotten; for one of this node the call   *)
(* returns the error and the caller drops the list.                        *)
CommitFails(n) ==
    /\ pc[n] = "commit"
    /\ committed' \in {committed} \cup (IF owner = n THEN {cursor[n]} ELSE {})
    /\ IF log[cursor[n]] = n
       THEN /\ pc' = [pc EXCEPT ![n] = "closed"]
            /\ messageList' = [messageList EXCEPT ![n] = << >>]
            /\ owner' = IF owner = n THEN Unset ELSE owner
       ELSE /\ pc' = [pc EXCEPT ![n] = "fetch"]
            /\ UNCHANGED <<messageList, owner>>
    /\ UNCHANGED <<log, cursor, deliveries>>

(* FetchMessage meets the deadline: the list is returned. *)
Deadline(n) ==
    /\ pc[n] = "fetch"
    /\ pc' = [pc EXCEPT ![n] = "returned"]
    /\ owner' = IF owner = n THEN Unset ELSE owner
    /\ UNCHANGED <<log, committed, cursor, messageList, deliveries>>

(* The deadline passes between two fetches: the select returns the list    *)
(* with the context's error, and the caller drops it.                      *)
DeadlineBetween(n) ==
    /\ pc[n] = "fetch"
    /\ pc' = [pc EXCEPT ![n] = "closed"]
    /\ messageList' = [messageList EXCEPT ![n] = << >>]
    /\ owner' = IF owner = n THEN Unset ELSE owner
    /\ UNCHANGED <<log, committed, cursor, deliveries>>

(* DeployPodOnNewNode has gone through the list. *)
CallerDone(n) ==
    /\ pc[n] = "returned"
    /\ pc' = [pc EXCEPT ![n] = "closed"]
    /\ messageList' = [messageList EXCEPT ![n] = << >>]
    /\ UNCHANGED <<log, committed, owner, cursor, deliveries>>

(* The manager crashes, with all readers and lists; the broker keeps what  *)
(* they have committed.  A commit under way is one that has failed before. *)
ManagerCrash ==
    /\ pc' = [n \in Nodes |-> "closed"]
    /\ messageList' = [n \in Nodes |-> << >>]
    /\ owner' = Unset
    /\ UNCHANGED <<log, committed, cursor, deliveries>>

Next ==
    \/ \E k \in Keys : Produce(k)
    \/ NewReaders
    \/ \E n \in Nodes :
        \/ Rebalance(n)
        \/ FetchMessage(n)
        \/ CommitMessages(n)
        \/ CommitFails(n)
        \/ Deadline(n)
        \/ DeadlineBetween(n)
        \/ CallerDone(n)
    \/ ManagerCrash

Spec == Init /\ [][Next]_vars
-----------------------------------------------------------------------------
(* The state has its types: offsets stay inside the partition. *)
TypeOK ==
    /\ log \in Seq(Keys)
    /\ committed \in 0 .. Len(log)
    /\ owner \in Keys
    /\ pc \in [Nodes -> {"closed", "fetch", "commit", "returned"}]
    /\ cursor \in [Nodes -> 0 .. Len(log)]
    /\ messageList \in [Nodes -> Seq(Nat)]
    /\ deliveries \in Seq(Nat)

(* However the deadline, failed commits and rebalances fall, no message is *)
(* handed to callers twice: a pod is not restored twice from one push.     *)
AtMostOnce == IsInjective(deliveries)

(* A commit never moves the group back, whichever reader makes it and      *)
(* however stale its cursor is.                                            *)
OffsetNeverBack == [][committed' >= committed]_vars

(* The comment on ConsumeMessage (kafka.go:14) says it consumes the        *)
(* messages for the specified node: a commit made for one node passes no   *)
(* message of another.                                                     *)
OnlyOwnMessagesPassed ==
    [][\A o \in committed + 1 .. committed' : log[o] \in {owner, Unset}]_vars

(* The reader implements the abstract queue the controllers are modelled   *)
(* on: what is left of the topic is what the group has not committed.      *)
Message(o) == [key |-> log[o]]
Pending == [i \in 1 .. Len(log) - committed |-> Message(committed + i)]
Taken == [n \in Nodes |->
            [i \in 1 .. Len(messageList[n]) |-> Message(messageList[n][i])]]

Queue == INSTANCE Topic WITH topic <- Pending, list <- Taken
ImplementsTopic == Queue!TopicSpec
-----------------------------------------------------------------------------
(* The inductive invariant: only the reader that has the partition is      *)
(* ahead of the group, it has passed over no message of its own but the    *)
(* one it commits, and no message beyond the committed offset was handed   *)
(* out.                                                                    *)
OwnerInv == owner # Unset =>
    /\ pc[owner] \in {"fetch", "commit"}
    /\ cursor[owner] >= committed
    /\ pc[owner] = "commit" => cursor[owner] > committed
    /\ \A o \in committed + 1 .. cursor[owner] :
           log[o] = owner => pc[owner] = "commit" /\ o = cursor[owner]

CommitInv == \A n \in Nodes : pc[n] = "commit" =>
    cursor[n] > 0 /\ log[cursor[n]] \in {n, Unset}

DeliveryInv ==
    /\ \A i \in 1 .. Len(deliveries) : deliveries[i] <= committed
    /\ \A n \in Nodes : messageList[n] \in Seq(1 .. Len(log))

Invariant ==
    /\ TypeOK
    /\ OwnerInv
    /\ CommitInv
    /\ DeliveryInv
    /\ AtMostOnce
=============================================================================
