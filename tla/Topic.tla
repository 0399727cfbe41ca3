------------------------------- MODULE Topic -------------------------------
(***************************************************************************)
(* What handlers.ConsumeMessage (handlers/kafka.go) promises its callers:  *)
(* "my-topic" as an abstract queue of keyed messages.  A goroutine asks    *)
(* for the messages whose key is its node.  The consumer group has one     *)
(* committed offset, so taking a message drops everything before it, the   *)
(* messages other nodes still wait for included.  ConsumeMessage.tla       *)
(* models the reader, its offsets and its deadline, and implements this.   *)
(***************************************************************************)
EXTENDS Naturals, Sequences

CONSTANTS
    Nodes,   \* nodes, the keys of the messages
    Unset    \* the empty string

VARIABLES
    topic,   \* messages past the committed offset, oldest first
    list     \* list[n]: messageList of the call made for node n

TopicInit ==
    /\ topic = << >>
    /\ list = [n \in Nodes |-> << >>]

(* The i-th message is the oldest one for node n. *)
First(n, i) ==
    /\ topic[i].key = n
    /\ \A j \in 1 .. i - 1 : topic[j].key # n

(* What the group still has to read once the i-th message is committed. *)
Rest(i) == SubSeq(topic, i + 1, Len(topic))

Publish(m) ==
    /\ topic' = Append(topic, m)
    /\ UNCHANGED list

(* The message is committed, then appended to messageList. *)
Take(n) == \E i \in 1 .. Len(topic) :
    /\ First(n, i)
    /\ topic' = Rest(i)
    /\ list' = [list EXCEPT ![n] = Append(@, topic[i])]

(* The broker commits the message and the call returns an error. *)
Lose(n) == \E i \in 1 .. Len(topic) :
    /\ First(n, i)
    /\ topic' = Rest(i)
    /\ list' = [list EXCEPT ![n] = << >>]

(* A message without key is committed and thrown away. *)
Discard == \E i \in 1 .. Len(topic) :
    /\ topic[i].key = Unset
    /\ topic' = Rest(i)
    /\ UNCHANGED list

(* The caller is done with the list, or the call returned an error. *)
Finish(n) ==
    /\ list' = [list EXCEPT ![n] = << >>]
    /\ UNCHANGED topic

(* The process of the callers crashes: what it had taken is gone. *)
Forget ==
    /\ list' = [n \in Nodes |-> << >>]
    /\ UNCHANGED topic

TopicNext ==
    \/ \E k \in Nodes \cup {Unset} : Publish([key |-> k])
    \/ \E n \in Nodes : Take(n) \/ Lose(n) \/ Finish(n)
    \/ Discard
    \/ Forget

TopicSpec == TopicInit /\ [][TopicNext]_<<topic, list>>
=============================================================================
