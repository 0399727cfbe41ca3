------------------------ MODULE ConsumeMessage_proofs ------------------------
(***************************************************************************)
(* Proofs about the reader of my-topic, for any number of nodes and of     *)
(* messages: no message is handed out twice, no commit moves the group     *)
(* back, and the reader implements the abstract topic.                     *)
(***************************************************************************)
EXTENDS ConsumeMessage, SequenceTheorems, TLAPS

LEMMA Constants == Unset \notin Nodes /\ MaxMessages \in Nat
  BY ConsumeMessageAssumption

(* What may follow the last of numbers without a repetition: a larger one. *)
LEMMA AppendLarger ==
    ASSUME NEW s \in Seq(Nat), IsInjective(s), NEW b \in Nat, NEW x \in Nat,
           \A i \in 1 .. Len(s) : s[i] <= b, b < x,
           NEW t, t = Append(s, x)
    PROVE  /\ t \in Seq(Nat)
           /\ IsInjective(t)
           /\ \A i \in 1 .. Len(t) : t[i] <= x
  <1>1. /\ t \in Seq(Nat) /\ Len(t) = Len(s) + 1
        /\ \A i \in 1 .. Len(s) : t[i] = s[i]
        /\ t[Len(s) + 1] = x
      BY AppendProperties
  <1>2. Len(s) \in Nat /\ DOMAIN s = 1 .. Len(s) /\ DOMAIN t = 1 .. Len(s) + 1
      BY <1>1, LenProperties
  <1>3. \A i \in 1 .. Len(s) : t[i] \in Nat /\ t[i] < x
      BY <1>1, <1>2, ElementOfSeq
  <1>4. ASSUME NEW i \in DOMAIN t, NEW j \in DOMAIN t, t[i] = t[j] PROVE i = j
    <2>1. CASE i \in 1 .. Len(s) /\ j \in 1 .. Len(s)
        BY <1>1, <1>2, <1>4, <2>1 DEF IsInjective
    <2>2. CASE i = Len(s) + 1 \/ j = Len(s) + 1
        BY <1>1, <1>2, <1>3, <1>4, <2>2
    <2> QED
        BY <1>2, <2>1, <2>2
  <1>5. IsInjective(t)
      BY <1>4 DEF IsInjective
  <1>6. \A i \in 1 .. Len(t) : t[i] <= x
      BY <1>1, <1>2, <1>3
  <1> QED
      BY <1>1, <1>5, <1>6

LEMMA InitInvariant ==
    ASSUME Init
    PROVE  Invariant
  <1> USE DEF Init
  <1>1. TypeOK
      BY DEF TypeOK, Keys
  <1>2. OwnerInv /\ CommitInv
      BY DEF OwnerInv, CommitInv
  <1>3. DeliveryInv
      BY DEF DeliveryInv
  <1>4. AtMostOnce
      BY DEF AtMostOnce, IsInjective
  <1> QED
      BY <1>1, <1>2, <1>3, <1>4 DEF Invariant

(* What is known of one reader, spelt out. *)
LEMMA Reader ==
    ASSUME Invariant, NEW n \in Nodes
    PROVE  /\ cursor[n] \in Nat /\ cursor[n] <= Len(log)
           /\ committed \in Nat /\ committed <= Len(log) /\ Len(log) \in Nat
           /\ messageList[n] \in Seq(1 .. Len(log))
           /\ n # Unset
  BY Constants DEF Invariant, TypeOK, DeliveryInv

(* A call that ends gives up the partition and its list. *)
LEMMA CloseKeeps ==
    ASSUME Invariant, NEW n \in Nodes, NEW after \in {"closed", "returned"},
           NEW kept \in {messageList[n], << >>},
           pc' = [pc EXCEPT ![n] = after],
           messageList' = [messageList EXCEPT ![n] = kept],
           owner' = IF owner = n THEN Unset ELSE owner,
           owner = n => committed' \in {committed, cursor[n]},
           owner # n => committed' = committed,
           UNCHANGED <<log, cursor, deliveries>>
    PROVE  Invariant'
  <1> USE DEF Invariant
  <1>1. kept \in Seq(Nat) /\ kept \in Seq(1 .. Len(log))
      BY Reader, EmptySeq DEF TypeOK
  <1>2. committed' \in 0 .. Len(log) /\ committed' >= committed
      BY Reader DEF OwnerInv, TypeOK
  <1>3. TypeOK'
      BY <1>1, <1>2 DEF TypeOK, Keys
  <1>4. OwnerInv'
      BY Constants DEF OwnerInv, TypeOK, Keys
  <1>5. CommitInv'
      BY DEF CommitInv, TypeOK
  <1>6. DeliveryInv'
    <2>1. \A i \in 1 .. Len(deliveries) : deliveries[i] \in Nat
        BY ElementOfSeq DEF TypeOK
    <2>2. committed \in Nat /\ committed' \in Nat
        BY <1>2 DEF TypeOK
    <2> QED
        BY <1>1, <1>2, <2>1, <2>2 DEF DeliveryInv, TypeOK
  <1>7. AtMostOnce'
      BY DEF AtMostOnce
  <1> QED
      BY <1>3, <1>4, <1>5, <1>6, <1>7

LEMMA ProduceKeeps ==
    ASSUME Invariant, NEW k \in Keys, Produce(k)
    PROVE  Invariant'
  <1> USE DEF Invariant
  <1>1. /\ log' \in Seq(Keys) /\ Len(log') = Len(log) + 1
        /\ \A o \in 1 .. Len(log) : log'[o] = log[o]
        /\ Len(log) \in Nat
        /\ UNCHANGED <<committed, owner, pc, cursor, messageList, deliveries>>
      BY AppendProperties DEF Produce, TypeOK
  <1>2. TypeOK'
      BY <1>1 DEF TypeOK
  <1>3. ASSUME NEW n \in Nodes, NEW o \in 1 .. cursor[n] PROVE log'[o] = log[o]
      BY <1>1, Reader
  <1>4. OwnerInv' /\ CommitInv'
    <2>1. \A n \in Nodes : cursor[n] \in Nat /\ committed \in Nat
        BY Reader
    <2>2. owner # Unset => owner \in Nodes
        BY DEF TypeOK, Keys
    <2>3. owner # Unset =>
              \A o \in committed + 1 .. cursor[owner] : log'[o] = log[o]
        BY <1>3, <2>1, <2>2
    <2>4. OwnerInv'
        BY <1>1, <2>3 DEF OwnerInv
    <2>5. \A n \in Nodes : cursor[n] > 0 => log'[cursor[n]] = log[cursor[n]]
        BY <1>3, <2>1
    <2>6. CommitInv'
        BY <1>1, <2>5 DEF CommitInv
    <2> QED
        BY <2>4, <2>6
  <1>5. \A n \in Nodes : messageList[n] \in Seq(1 .. Len(log'))
    <2>1. 1 .. Len(log) \subseteq 1 .. Len(log')
        BY <1>1
    <2> QED
        BY <2>1, SeqMonotonic DEF DeliveryInv
  <1>6. DeliveryInv' /\ AtMostOnce'
      BY <1>1, <1>5 DEF DeliveryInv, AtMostOnce
  <1> QED
      BY <1>2, <1>4, <1>6

LEMMA NewReadersKeeps ==
    ASSUME Invariant, NewReaders
    PROVE  Invariant'
  <1> USE DEF Invariant, NewReaders
  <1>1. TypeOK'
      BY DEF TypeOK
  <1>2. OwnerInv' /\ CommitInv'
      BY DEF OwnerInv, CommitInv, TypeOK, Keys
  <1>3. DeliveryInv' /\ AtMostOnce'
      BY DEF DeliveryInv, AtMostOnce
  <1> QED
      BY <1>1, <1>2, <1>3

LEMMA RebalanceKeeps ==
    ASSUME Invariant, NEW n \in Nodes, Rebalance(n)
    PROVE  Invariant'
  <1> USE DEF Invariant, Rebalance
  <1>1. TypeOK'
      BY DEF TypeOK, Keys
  <1>2. OwnerInv' /\ CommitInv'
      BY DEF OwnerInv, CommitInv, TypeOK
  <1>3. DeliveryInv' /\ AtMostOnce'
      BY DEF DeliveryInv, AtMostOnce
  <1> QED
      BY <1>1, <1>2, <1>3

LEMMA FetchKeeps ==
    ASSUME Invariant, NEW n \in Nodes, FetchMessage(n)
    PROVE  Invariant'
  <1> USE DEF Invariant
  <1>1. /\ owner = n /\ pc[n] = "fetch" /\ cursor[n] < Len(log) /\ cursor[n] \in Nat
        /\ cursor' = [cursor EXCEPT ![n] = cursor[n] + 1]
        /\ UNCHANGED <<log, committed, owner, messageList, deliveries>>
      BY Reader DEF FetchMessage
  <1>2. CASE log[cursor[n] + 1] \in {n, Unset}
    <2>1. pc' = [pc EXCEPT ![n] = "commit"]
        BY <1>2 DEF FetchMessage
    <2>2. TypeOK'
        BY <1>1, <2>1 DEF TypeOK
    <2>3. OwnerInv'
      <3>1. pc'[n] = "commit" /\ cursor'[n] = cursor[n] + 1
          BY <1>1, <2>1 DEF TypeOK
      <3>2. /\ cursor[n] >= committed /\ cursor[n] \in Nat /\ committed \in Nat
            /\ \A o \in committed + 1 .. cursor[n] : log[o] # n
          BY <1>1, Reader DEF OwnerInv
      <3>3. \A o \in committed + 1 .. cursor[n] + 1 : log[o] = n => o = cursor[n] + 1
          BY <3>2
      <3> QED
          BY <1>1, <3>1, <3>2, <3>3 DEF OwnerInv
    <2>4. CommitInv'
        BY <1>1, <1>2, <2>1 DEF CommitInv, TypeOK
    <2> QED
        BY <1>1, <2>2, <2>3, <2>4 DEF DeliveryInv, AtMostOnce
  <1>3. CASE log[cursor[n] + 1] \notin {n, Unset}
    <2>1. pc' = [pc EXCEPT ![n] = "fetch"]
        BY <1>3 DEF FetchMessage
    <2>2. TypeOK'
        BY <1>1, <2>1 DEF TypeOK
    <2>3. OwnerInv'
      <3>1. pc'[n] = "fetch" /\ cursor'[n] = cursor[n] + 1
          BY <1>1, <2>1 DEF TypeOK
      <3>2. /\ cursor[n] >= committed /\ cursor[n] \in Nat /\ committed \in Nat
            /\ \A o \in committed + 1 .. cursor[n] : log[o] # n
          BY <1>1, Reader DEF OwnerInv
      <3>3. \A o \in committed + 1 .. cursor[n] + 1 : log[o] # n
          BY <1>3, <3>2
      <3> QED
          BY <1>1, <3>1, <3>2, <3>3 DEF OwnerInv
    <2>4. CommitInv'
        BY <1>1, <2>1 DEF CommitInv, TypeOK
    <2> QED
        BY <1>1, <2>2, <2>3, <2>4 DEF DeliveryInv, AtMostOnce
  <1> QED
      BY <1>2, <1>3

LEMMA CommitKeeps ==
    ASSUME Invariant, NEW n \in Nodes, CommitMessages(n)
    PROVE  Invariant'
  <1> USE DEF Invariant
  <1>1. /\ owner = n /\ pc[n] = "commit" /\ committed' = cursor[n]
        /\ pc' = [pc EXCEPT ![n] = "fetch"]
        /\ UNCHANGED <<log, owner, cursor>>
        /\ cursor[n] \in 1 .. Len(log) /\ cursor[n] > committed
      BY Reader DEF CommitMessages, OwnerInv, CommitInv
  <1>2. OwnerInv' /\ CommitInv'
      BY <1>1 DEF OwnerInv, CommitInv, TypeOK
  <1>3. CASE log[cursor[n]] = n
    <2>1. /\ messageList' = [messageList EXCEPT ![n] = Append(messageList[n], cursor[n])]
          /\ deliveries' = Append(deliveries, cursor[n])
        BY <1>3 DEF CommitMessages
    <2>2. /\ Append(messageList[n], cursor[n]) \in Seq(Nat)
          /\ Append(messageList[n], cursor[n]) \in Seq(1 .. Len(log))
        BY <1>1, Reader, AppendProperties DEF TypeOK
    <2>3. /\ deliveries' \in Seq(Nat) /\ IsInjective(deliveries')
          /\ \A i \in 1 .. Len(deliveries') : deliveries'[i] <= committed'
      <3>1. deliveries \in Seq(Nat) /\ IsInjective(deliveries) /\ committed \in Nat
            /\ \A i \in 1 .. Len(deliveries) : deliveries[i] <= committed
          BY DEF TypeOK, AtMostOnce, DeliveryInv
      <3>2. cursor[n] \in Nat /\ committed < cursor[n]
          BY <1>1, <3>1
      <3>3. /\ Append(deliveries, cursor[n]) \in Seq(Nat)
            /\ IsInjective(Append(deliveries, cursor[n]))
            /\ \A i \in 1 .. Len(Append(deliveries, cursor[n])) :
                   Append(deliveries, cursor[n])[i] <= cursor[n]
          BY <3>1, <3>2, AppendLarger
      <3> QED
          BY <1>1, <2>1, <3>3
    <2>4. TypeOK'
        BY <1>1, <2>1, <2>2, <2>3 DEF TypeOK
    <2>5. DeliveryInv' /\ AtMostOnce'
        BY <1>1, <2>1, <2>2, <2>3 DEF DeliveryInv, AtMostOnce, TypeOK
    <2> QED
        BY <1>2, <2>4, <2>5
  <1>4. CASE log[cursor[n]] # n
    <2>1. UNCHANGED <<messageList, deliveries>>
        BY <1>4 DEF CommitMessages
    <2>2. TypeOK'
        BY <1>1, <2>1 DEF TypeOK
    <2>3. \A i \in 1 .. Len(deliveries) : deliveries[i] \in Nat
        BY ElementOfSeq DEF TypeOK
    <2>4. DeliveryInv' /\ AtMostOnce'
        BY <1>1, <2>1, <2>3 DEF DeliveryInv, AtMostOnce, TypeOK
    <2> QED
        BY <1>2, <2>2, <2>4
  <1> QED
      BY <1>3, <1>4

LEMMA CommitFailsKeeps ==
    ASSUME Invariant, NEW n \in Nodes, CommitFails(n)
    PROVE  Invariant'
  <1> USE DEF Invariant
  <1>1. /\ pc[n] = "commit" /\ UNCHANGED <<log, cursor, deliveries>>
        /\ owner = n => committed' \in {committed, cursor[n]}
        /\ owner # n => committed' = committed
      BY DEF CommitFails
  <1>2. CASE log[cursor[n]] = n
    <2>1. /\ pc' = [pc EXCEPT ![n] = "closed"]
          /\ messageList' = [messageList EXCEPT ![n] = << >>]
          /\ owner' = IF owner = n THEN Unset ELSE owner
        BY <1>2 DEF CommitFails
    <2> QED
        BY <1>1, <2>1, CloseKeeps
  <1>3. CASE log[cursor[n]] # n
    <2>1. pc' = [pc EXCEPT ![n] = "fetch"] /\ UNCHANGED <<messageList, owner>>
        BY <1>3 DEF CommitFails
    <2>2. committed' \in 0 .. Len(log) /\ committed' >= committed
        BY <1>1, Reader DEF OwnerInv, TypeOK
    <2>3. TypeOK'
        BY <1>1, <2>1, <2>2 DEF TypeOK
    <2>4. OwnerInv'
      <3>1. CASE owner = n
        <4>1. pc'[n] = "fetch" /\ cursor'[n] = cursor[n]
            BY <1>1, <2>1 DEF TypeOK
        <4>2. /\ cursor[n] >= committed' /\ committed' >= committed
              /\ cursor[n] \in Nat /\ committed \in Nat /\ committed' \in Nat
            BY <1>1, <2>2, <3>1, Reader DEF OwnerInv
        <4>3. \A o \in committed' + 1 .. cursor[n] : log[o] # n
          <5>1. \A o \in committed + 1 .. cursor[n] : log[o] = n => o = cursor[n]
              BY <3>1, Reader DEF OwnerInv
          <5>2. \A o \in committed + 1 .. cursor[n] : log[o] # n
              BY <1>3, <5>1
          <5>3. ASSUME NEW c \in Nat, c >= committed, NEW o \in c + 1 .. cursor[n]
                PROVE  o \in committed + 1 .. cursor[n]
              BY <4>2, <5>3
          <5> QED
              BY <4>2, <5>2, <5>3
        <4> QED
            BY <1>1, <2>1, <3>1, <4>1, <4>2, <4>3 DEF OwnerInv
      <3>2. CASE owner # n
          BY <1>1, <2>1, <3>2 DEF OwnerInv, TypeOK, Keys
      <3> QED
          BY <3>1, <3>2
    <2>5. CommitInv'
        BY <1>1, <2>1 DEF CommitInv, TypeOK
    <2>6. \A i \in 1 .. Len(deliveries) : deliveries[i] \in Nat
        BY ElementOfSeq DEF TypeOK
    <2>7. DeliveryInv' /\ AtMostOnce'
        BY <1>1, <2>1, <2>2, <2>6 DEF DeliveryInv, AtMostOnce, TypeOK
    <2> QED
        BY <2>3, <2>4, <2>5, <2>7
  <1> QED
      BY <1>2, <1>3

LEMMA EndKeeps ==
    ASSUME Invariant, NEW n \in Nodes, Deadline(n) \/ DeadlineBetween(n) \/ CallerDone(n)
    PROVE  Invariant'
  <1> USE DEF Invariant
  <1>1. messageList = [messageList EXCEPT ![n] = messageList[n]]
      BY DEF TypeOK
  <1>2. CASE Deadline(n)
      BY <1>1, <1>2, CloseKeeps DEF Deadline
  <1>3. CASE DeadlineBetween(n)
      BY <1>3, CloseKeeps DEF DeadlineBetween
  <1>4. CASE CallerDone(n)
    <2>1. owner # n
        BY <1>4, Constants DEF CallerDone, OwnerInv
    <2> QED
        BY <1>4, <2>1, CloseKeeps DEF CallerDone
  <1> QED
      BY <1>2, <1>3, <1>4

LEMMA CrashKeeps ==
    ASSUME Invariant, ManagerCrash
    PROVE  Invariant'
  <1> USE DEF Invariant, ManagerCrash
  <1>1. TypeOK'
      BY DEF TypeOK, Keys
  <1>2. OwnerInv' /\ CommitInv'
      BY DEF OwnerInv, CommitInv
  <1>3. DeliveryInv' /\ AtMostOnce'
      BY DEF DeliveryInv, AtMostOnce
  <1> QED
      BY <1>1, <1>2, <1>3

LEMMA NextInvariant ==
    ASSUME Invariant, [Next]_vars
    PROVE  Invariant'
  <1>1. CASE UNCHANGED vars
    <2>1. TypeOK' /\ OwnerInv' /\ CommitInv' /\ DeliveryInv' /\ AtMostOnce'
        BY <1>1 DEF vars, Invariant, TypeOK, OwnerInv, CommitInv, DeliveryInv, AtMostOnce
    <2> QED
        BY <2>1 DEF Invariant
  <1>2. CASE Next
      BY <1>2, ProduceKeeps, NewReadersKeeps, RebalanceKeeps, FetchKeeps, CommitKeeps,
         CommitFailsKeeps, EndKeeps, CrashKeeps
      DEF Next
  <1> QED
      BY <1>1, <1>2

(* Only the reader that has the partition is ahead of what is committed,   *)
(* and nothing ahead of it has been handed out.                            *)
THEOREM ReadersInvariant == Spec => []Invariant
  <1>1. Init => Invariant
      BY InitInvariant
  <1>2. Invariant /\ [Next]_vars => Invariant'
      BY NextInvariant
  <1> QED
      BY <1>1, <1>2, PTL DEF Spec

(* The offsets stay inside the partition. *)
THEOREM ReaderTypes == Spec => []TypeOK
  <1>1. Invariant => TypeOK
      BY DEF Invariant
  <1> QED
      BY <1>1, ReadersInvariant, PTL

(* ConsumeMessage hands out no message twice, for any number of readers,   *)
(* messages, rebalances, failed commits and crashes.                       *)
THEOREM HandedOutOnce == Spec => []AtMostOnce
  <1>1. Invariant => AtMostOnce
      BY DEF Invariant
  <1> QED
      BY <1>1, ReadersInvariant, PTL

(* No commit, of whichever reader, moves the group back. *)
THEOREM GroupGoesOn == Spec => OffsetNeverBack
  <1>1. Invariant /\ [Next]_vars => [committed' >= committed]_vars
    <2> SUFFICES ASSUME Invariant, Next PROVE committed' >= committed
        OBVIOUS
    <2>1. committed \in Nat /\ (UNCHANGED committed => committed' >= committed)
        BY DEF Invariant, TypeOK
    <2>2. ASSUME NEW n \in Nodes, CommitMessages(n) \/ CommitFails(n)
          PROVE  committed' >= committed
        BY <2>1, <2>2, Reader
        DEF CommitMessages, CommitFails, Invariant, OwnerInv
    <2> QED
        BY <2>1, <2>2
        DEF Next, Produce, NewReaders, Rebalance, FetchMessage, Deadline,
            DeadlineBetween, CallerDone, ManagerCrash
  <1> QED
      BY <1>1, ReadersInvariant, PTL DEF Spec, OffsetNeverBack

(* The calls of all nodes together collect messages in the order in which  *)
(* the webhook published them, whatever was passed over or dropped.        *)
InOrder == \A i, j \in 1 .. Len(deliveries) : i < j => deliveries[i] < deliveries[j]

THEOREM HandedOutInOrder == Spec => []InOrder
  <1>1. Init => Invariant /\ InOrder
      BY InitInvariant DEF Init, InOrder
  <1>2. ASSUME Invariant, InOrder, [Next]_vars PROVE InOrder'
    <2>1. ASSUME NEW n \in Nodes, CommitMessages(n),
                 deliveries' = Append(deliveries, cursor[n])
          PROVE  InOrder'
      <3>1. deliveries \in Seq(Nat) /\ Len(deliveries) \in Nat
          BY <1>2 DEF Invariant, TypeOK
      <3>2. cursor[n] \in Nat /\ committed \in Nat /\ committed < cursor[n]
          BY <1>2, <2>1, Reader DEF CommitMessages, Invariant, OwnerInv
      <3>3. /\ Len(deliveries') = Len(deliveries) + 1
            /\ \A i \in 1 .. Len(deliveries) : deliveries'[i] = deliveries[i]
            /\ deliveries'[Len(deliveries) + 1] = cursor[n]
          BY <2>1, <3>1, <3>2, AppendProperties
      <3>4. \A i \in 1 .. Len(deliveries) : deliveries[i] \in Nat /\ deliveries[i] < cursor[n]
          BY <1>2, <3>1, <3>2, ElementOfSeq DEF Invariant, DeliveryInv
      <3> QED
          BY <1>2, <3>1, <3>3, <3>4 DEF InOrder
    <2>2. ASSUME UNCHANGED deliveries PROVE InOrder'
        BY <1>2, <2>2 DEF InOrder
    <2> QED
        BY <1>2, <2>1, <2>2
        DEF Next, Produce, NewReaders, Rebalance, FetchMessage, CommitMessages,
            CommitFails, Deadline, DeadlineBetween, CallerDone, ManagerCrash, vars
  <1>3. Invariant /\ InOrder /\ [Next]_vars => (Invariant /\ InOrder)'
      BY <1>2, NextInvariant
  <1> QED
      BY <1>1, <1>3, PTL DEF Spec

(* Only messages of two nodes in one topic can be lost to each other: if   *)
(* all that is ever published has one key, no commit passes a message of   *)
(* another node than the one it is made for.                               *)
OneKey == \A i, j \in 1 .. Len(log) : log[i] = log[j]

THEOREM OneKeyPassesNone == Spec /\ []OneKey => OnlyOwnMessagesPassed
  <1> DEFINE Passes == \A o \in committed + 1 .. committed' : log[o] \in {owner, Unset}
  <1>1. ASSUME Invariant, OneKey, Next PROVE Passes
    <2>1. committed \in Nat
        BY <1>1 DEF Invariant, TypeOK
    <2>2. ASSUME NEW n \in Nodes, CommitMessages(n) \/ CommitFails(n), committed' # committed
          PROVE  Passes
      <3>1. owner = n /\ pc[n] = "commit" /\ committed' = cursor[n]
          BY <2>2 DEF CommitMessages, CommitFails
      <3>2. cursor[n] \in 1 .. Len(log) /\ log[cursor[n]] \in {n, Unset}
          BY <1>1, <3>1, Reader DEF Invariant, CommitInv
      <3> QED
          BY <1>1, <2>1, <3>1, <3>2 DEF OneKey
    <2>3. ASSUME committed' = committed PROVE Passes
        BY <2>1, <2>3
    <2> QED
        BY <1>1, <2>2, <2>3
        DEF Next, Produce, NewReaders, Rebalance, FetchMessage, Deadline,
            DeadlineBetween, CallerDone, ManagerCrash
  <1>2. Invariant /\ OneKey /\ [Next]_vars => [Passes]_vars
      BY <1>1
  <1> QED
      BY <1>2, ReadersInvariant, PTL DEF Spec, OnlyOwnMessagesPassed
-----------------------------------------------------------------------------
(* The abstract topic: sequences made from the log. *)
Items == [key : Keys]

(* What follows offset c in log l, and what stands at the offsets in s. *)
After(l, c) == [i \in 1 .. Len(l) - c |-> [key |-> l[c + i]]]
At(l, s) == [i \in 1 .. Len(s) |-> [key |-> l[s[i]]]]

LEMMA FunctionIsSeq ==
    ASSUME NEW S, NEW k \in Nat, NEW f \in [1 .. k -> S]
    PROVE  f \in Seq(S) /\ Len(f) = k
  <1>1. f \in Seq(S)
      BY SeqDef
  <1>2. 1 .. Len(f) = 1 .. k /\ Len(f) \in Nat
      BY <1>1, LenProperties
  <1> QED
      BY <1>1, <1>2

LEMMA AfterIs ==
    ASSUME NEW l \in Seq(Keys), NEW c \in 0 .. Len(l)
    PROVE  /\ After(l, c) \in Seq(Items)
           /\ Len(After(l, c)) = Len(l) - c
           /\ \A i \in 1 .. Len(l) - c : After(l, c)[i] = [key |-> l[c + i]]
  <1>1. Len(l) \in Nat /\ Len(l) - c \in Nat
      BY LenProperties
  <1>2. ASSUME NEW i \in 1 .. Len(l) - c PROVE l[c + i] \in Keys
    <2>1. c + i \in 1 .. Len(l)
        BY <1>1
    <2> QED
        BY <2>1, ElementOfSeq
  <1>3. After(l, c) \in [1 .. Len(l) - c -> Items]
      BY <1>2 DEF After, Items
  <1>4. \A i \in 1 .. Len(l) - c : After(l, c)[i] = [key |-> l[c + i]]
      BY DEF After
  <1> QED
      BY <1>1, <1>3, <1>4, FunctionIsSeq

LEMMA AtIs ==
    ASSUME NEW l \in Seq(Keys), NEW s \in Seq(1 .. Len(l))
    PROVE  /\ At(l, s) \in Seq(Items)
           /\ Len(At(l, s)) = Len(s)
           /\ \A i \in 1 .. Len(s) : At(l, s)[i] = [key |-> l[s[i]]]
  <1>1. Len(s) \in Nat
      BY LenProperties
  <1>2. ASSUME NEW i \in 1 .. Len(s) PROVE l[s[i]] \in Keys
    <2>1. s[i] \in 1 .. Len(l)
        BY ElementOfSeq
    <2> QED
        BY <2>1, ElementOfSeq
  <1>3. At(l, s) \in [1 .. Len(s) -> Items]
      BY <1>2 DEF At, Items
  <1>4. \A i \in 1 .. Len(s) : At(l, s)[i] = [key |-> l[s[i]]]
      BY DEF At
  <1> QED
      BY <1>1, <1>3, <1>4, FunctionIsSeq

(* A message more in the log is one more to come. *)
LEMMA AfterAppend ==
    ASSUME NEW l \in Seq(Keys), NEW c \in 0 .. Len(l), NEW k \in Keys
    PROVE  After(Append(l, k), c) = Append(After(l, c), [key |-> k])
  <1>1. /\ Append(l, k) \in Seq(Keys) /\ Len(Append(l, k)) = Len(l) + 1
        /\ \A i \in 1 .. Len(l) : Append(l, k)[i] = l[i]
        /\ Append(l, k)[Len(l) + 1] = k
        /\ Len(l) \in Nat /\ c \in 0 .. Len(l) + 1
      BY AppendProperties, LenProperties
  <1>2. /\ After(Append(l, k), c) \in Seq(Items)
        /\ Len(After(Append(l, k), c)) = Len(l) + 1 - c
        /\ \A i \in 1 .. Len(l) + 1 - c :
               After(Append(l, k), c)[i] = [key |-> Append(l, k)[c + i]]
    <2>1. PICK a : a = Append(l, k)
        OBVIOUS
    <2>2. a \in Seq(Keys) /\ Len(a) = Len(l) + 1 /\ c \in 0 .. Len(a)
        BY <1>1, <2>1
    <2>3. /\ After(a, c) \in Seq(Items)
          /\ Len(After(a, c)) = Len(a) - c
          /\ \A i \in 1 .. Len(a) - c : After(a, c)[i] = [key |-> a[c + i]]
        BY <2>2, AfterIs
    <2> QED
        BY <2>1, <2>2, <2>3
  <1>3. /\ After(l, c) \in Seq(Items) /\ Len(After(l, c)) = Len(l) - c
        /\ \A i \in 1 .. Len(l) - c : After(l, c)[i] = [key |-> l[c + i]]
      BY AfterIs
  <1>4. [key |-> k] \in Items
      BY DEF Items
  <1>5. /\ Append(After(l, c), [key |-> k]) \in Seq(Items)
        /\ Len(Append(After(l, c), [key |-> k])) = Len(l) + 1 - c
        /\ \A i \in 1 .. Len(l) - c :
               Append(After(l, c), [key |-> k])[i] = [key |-> l[c + i]]
        /\ Append(After(l, c), [key |-> k])[Len(l) + 1 - c] = [key |-> k]
      BY <1>1, <1>3, <1>4, AppendProperties
  <1>6. ASSUME NEW i \in 1 .. Len(l) + 1 - c
        PROVE  After(Append(l, k), c)[i] = Append(After(l, c), [key |-> k])[i]
    <2>1. CASE i \in 1 .. Len(l) - c
      <3>1. c + i \in 1 .. Len(l)
          BY <1>1, <2>1
      <3> QED
          BY <1>1, <1>2, <1>5, <2>1, <3>1
    <2>2. CASE i = Len(l) + 1 - c
      <3>1. c + i = Len(l) + 1
          BY <1>1, <2>2
      <3> QED
          BY <1>1, <1>2, <1>5, <2>2, <3>1
    <2>3. i \in 1 .. Len(l) - c \/ i = Len(l) + 1 - c
        BY <1>1
    <2> QED
        BY <2>1, <2>2, <2>3
  <1> QED
      BY <1>2, <1>5, <1>6, SeqEqual

(* A commit further on drops what is before it. *)
LEMMA AfterSkips ==
    ASSUME NEW l \in Seq(Keys), NEW c \in 0 .. Len(l), NEW d \in c .. Len(l)
    PROVE  After(l, d) = SubSeq(After(l, c), d - c + 1, Len(After(l, c)))
  <1>1. Len(l) \in Nat /\ d \in 0 .. Len(l)
      BY LenProperties
  <1>2. /\ After(l, d) \in Seq(Items) /\ Len(After(l, d)) = Len(l) - d
        /\ \A i \in 1 .. Len(l) - d : After(l, d)[i] = [key |-> l[d + i]]
      BY <1>1, AfterIs
  <1>3. /\ After(l, c) \in Seq(Items) /\ Len(After(l, c)) = Len(l) - c
        /\ \A i \in 1 .. Len(l) - c : After(l, c)[i] = [key |-> l[c + i]]
      BY AfterIs
  <1>4. PICK s : s = SubSeq(After(l, c), d - c + 1, Len(l) - c)
      OBVIOUS
  <1>5. \A i \in d - c + 1 .. Len(l) - c : After(l, c)[i] \in Items
      BY <1>1, <1>3, ElementOfSeq
  <1>6. /\ s \in Seq(Items)
        /\ Len(s) = IF d - c + 1 <= Len(l) - c THEN Len(l) - c - (d - c + 1) + 1 ELSE 0
        /\ \A i \in 1 .. Len(l) - c - (d - c + 1) + 1 :
               s[i] = After(l, c)[d - c + 1 + i - 1]
      BY <1>1, <1>4, <1>5, SubSeqProperties
  <1>7. Len(s) = Len(l) - d
      BY <1>1, <1>6
  <1>8. ASSUME NEW i \in 1 .. Len(l) - d PROVE After(l, d)[i] = s[i]
    <2>1. /\ i \in 1 .. Len(l) - c - (d - c + 1) + 1
          /\ d - c + 1 + i - 1 = d - c + i
          /\ d - c + i \in 1 .. Len(l) - c
          /\ c + (d - c + i) = d + i
        BY <1>1
    <2>2. s[i] = After(l, c)[d - c + i]
        BY <1>6, <2>1
    <2>3. After(l, c)[d - c + i] = [key |-> l[d + i]]
        BY <1>3, <2>1
    <2> QED
        BY <1>2, <2>2, <2>3
  <1> QED
      BY <1>2, <1>3, <1>4, <1>6, <1>7, <1>8, SeqEqual

LEMMA AtAppend ==
    ASSUME NEW l \in Seq(Keys), NEW s \in Seq(1 .. Len(l)), NEW o \in 1 .. Len(l)
    PROVE  At(l, Append(s, o)) = Append(At(l, s), [key |-> l[o]])
  <1>1. /\ Append(s, o) \in Seq(1 .. Len(l)) /\ Len(Append(s, o)) = Len(s) + 1
        /\ \A i \in 1 .. Len(s) : Append(s, o)[i] = s[i]
        /\ Append(s, o)[Len(s) + 1] = o /\ Len(s) \in Nat
      BY AppendProperties, LenProperties
  <1>2. /\ At(l, Append(s, o)) \in Seq(Items)
        /\ Len(At(l, Append(s, o))) = Len(s) + 1
        /\ \A i \in 1 .. Len(s) + 1 :
               At(l, Append(s, o))[i] = [key |-> l[Append(s, o)[i]]]
      BY <1>1, AtIs
  <1>3. /\ At(l, s) \in Seq(Items) /\ Len(At(l, s)) = Len(s)
        /\ \A i \in 1 .. Len(s) : At(l, s)[i] = [key |-> l[s[i]]]
      BY AtIs
  <1>4. [key |-> l[o]] \in Items
      BY ElementOfSeq DEF Items
  <1>5. /\ Append(At(l, s), [key |-> l[o]]) \in Seq(Items)
        /\ Len(Append(At(l, s), [key |-> l[o]])) = Len(s) + 1
        /\ \A i \in 1 .. Len(s) : Append(At(l, s), [key |-> l[o]])[i] = At(l, s)[i]
        /\ Append(At(l, s), [key |-> l[o]])[Len(s) + 1] = [key |-> l[o]]
      BY <1>3, <1>4, AppendProperties
  <1>6. \A i \in 1 .. Len(s) + 1 : i \in 1 .. Len(s) \/ i = Len(s) + 1
      BY <1>1
  <1>7. ASSUME NEW i \in 1 .. Len(s) + 1
        PROVE  At(l, Append(s, o))[i] = Append(At(l, s), [key |-> l[o]])[i]
      BY <1>1, <1>2, <1>3, <1>5, <1>6
  <1> QED
      BY <1>2, <1>5, <1>7, SeqEqual

(* A new message changes none that was handed out. *)
LEMMA AtStays ==
    ASSUME NEW l \in Seq(Keys), NEW k \in Keys, NEW s \in Seq(1 .. Len(l))
    PROVE  At(Append(l, k), s) = At(l, s)
  <1>1. \A i \in 1 .. Len(s) : s[i] \in 1 .. Len(l)
      BY ElementOfSeq
  <1>2. \A i \in 1 .. Len(l) : Append(l, k)[i] = l[i]
      BY AppendProperties
  <1> QED
      BY <1>1, <1>2 DEF At
-----------------------------------------------------------------------------
(* Each step of the readers is one of the topic, or none. *)
MapStutters == UNCHANGED <<Pending, Taken>>

LEMMA SameMap ==
    ASSUME UNCHANGED <<log, committed, messageList>>
    PROVE  MapStutters
  BY DEF MapStutters, Pending, Taken, Message

LEMMA ProducePublishes ==
    ASSUME Invariant, NEW k \in Keys, Produce(k)
    PROVE  Queue!Publish([key |-> k])
  <1>1. log \in Seq(Keys) /\ committed \in 0 .. Len(log)
      BY DEF Invariant, TypeOK
  <1>2. log' = Append(log, k) /\ committed' = committed /\ messageList' = messageList
      BY DEF Produce
  <1>3. Pending' = After(log', committed') /\ Pending = After(log, committed)
      BY DEF Pending, Message, After
  <1>4. Pending' = Append(Pending, [key |-> k])
      BY <1>1, <1>2, <1>3, AfterAppend
  <1>5. ASSUME NEW n \in Nodes PROVE At(log', messageList[n]) = At(log, messageList[n])
      BY <1>1, <1>2, Reader, AtStays
  <1>6. /\ Taken = [n \in Nodes |-> At(log, messageList[n])]
        /\ Taken' = [n \in Nodes |-> At(log', messageList[n])]
      BY <1>2 DEF Taken, Message, At
  <1>7. Taken' = Taken
      BY <1>5, <1>6
  <1> QED
      BY <1>4, <1>7 DEF Queue!Publish

(* The commit of the reader that has the partition drops what it passes:   *)
(* its message is the first for its node, or has no key.                   *)
LEMMA CommitDrops ==
    ASSUME Invariant, NEW n \in Nodes, owner = n, pc[n] = "commit",
           UNCHANGED log, committed' = cursor[n]
    PROVE  \E i \in 1 .. Len(Pending) :
               /\ i = cursor[n] - committed
               /\ Pending' = Queue!Rest(i)
               /\ Pending[i] = [key |-> log[cursor[n]]]
               /\ log[cursor[n]] = n => Queue!First(n, i)
  <1>1. /\ cursor[n] \in Nat /\ committed \in Nat /\ Len(log) \in Nat
        /\ committed < cursor[n] /\ cursor[n] <= Len(log)
      BY Reader DEF Invariant, OwnerInv
  <1>2. /\ log \in Seq(Keys) /\ committed \in 0 .. Len(log)
        /\ cursor[n] \in committed .. Len(log)
      BY <1>1 DEF Invariant, TypeOK
  <1>3. /\ Pending = After(log, committed) /\ Pending' = After(log, cursor[n])
      BY DEF Pending, Message, After
  <1>4. /\ Len(Pending) = Len(log) - committed
        /\ \A i \in 1 .. Len(log) - committed : Pending[i] = [key |-> log[committed + i]]
      BY <1>2, <1>3, AfterIs
  <1>5. PICK i : i = cursor[n] - committed
      OBVIOUS
  <1>6. i \in 1 .. Len(log) - committed /\ committed + i = cursor[n]
      BY <1>1, <1>5
  <1>7. Pending' = Queue!Rest(i)
      BY <1>2, <1>3, <1>5, AfterSkips DEF Queue!Rest
  <1>8. Pending[i] = [key |-> log[cursor[n]]]
      BY <1>4, <1>6
  <1>9. ASSUME NEW j \in 1 .. i - 1 PROVE Pending[j].key # n
    <2>1. /\ j \in 1 .. Len(log) - committed /\ committed + j # cursor[n]
          /\ committed + j \in committed + 1 .. cursor[n]
        BY <1>1, <1>6
    <2>2. log[committed + j] # n
        BY <2>1, Constants DEF Invariant, OwnerInv
    <2> QED
        BY <1>4, <2>1, <2>2
  <1>10. log[cursor[n]] = n => Queue!First(n, i)
      BY <1>8, <1>9 DEF Queue!First
  <1> QED
      BY <1>4, <1>5, <1>6, <1>7, <1>8, <1>10

(* The list of one reader is emptied. *)
LEMMA ListEmptied ==
    ASSUME Invariant, NEW n \in Nodes, UNCHANGED log,
           messageList' = [messageList EXCEPT ![n] = << >>]
    PROVE  Taken' = [Taken EXCEPT ![n] = << >>]
  <1>1. /\ Taken = [m \in Nodes |-> At(log, messageList[m])]
        /\ Taken' = [m \in Nodes |-> At(log, messageList'[m])]
      BY DEF Taken, Message, At
  <1>2. /\ messageList'[n] = << >>
        /\ \A m \in Nodes \ {n} : messageList'[m] = messageList[m]
      BY DEF Invariant, TypeOK
  <1>3. At(log, << >>) = << >>
    <2>1. log \in Seq(Keys) /\ << >> \in Seq(1 .. Len(log))
        BY EmptySeq DEF Invariant, TypeOK
    <2>2. At(log, << >>) \in Seq(Items) /\ Len(At(log, << >>)) = 0
        BY <2>1, AtIs, EmptySeq
    <2> QED
        BY <2>2, EmptySeq
  <1> QED
      BY <1>1, <1>2, <1>3

LEMMA CommitMaps ==
    ASSUME Invariant, NEW n \in Nodes, CommitMessages(n)
    PROVE  Queue!TopicNext
  <1>1. /\ owner = n /\ pc[n] = "commit" /\ committed' = cursor[n] /\ UNCHANGED log
      BY DEF CommitMessages
  <1>2. PICK i \in 1 .. Len(Pending) :
            /\ Pending' = Queue!Rest(i)
            /\ Pending[i] = [key |-> log[cursor[n]]]
            /\ log[cursor[n]] = n => Queue!First(n, i)
      BY <1>1, CommitDrops
  <1>3. CASE log[cursor[n]] = n
    <2>1. messageList' = [messageList EXCEPT ![n] = Append(messageList[n], cursor[n])]
        BY <1>3 DEF CommitMessages
    <2>2. /\ log \in Seq(Keys) /\ messageList[n] \in Seq(1 .. Len(log))
          /\ cursor[n] \in 1 .. Len(log)
      <3>1. cursor[n] > 0
          BY <1>1 DEF Invariant, CommitInv
      <3> QED
          BY <3>1, Reader DEF Invariant, TypeOK
    <2>3. At(log, Append(messageList[n], cursor[n])) =
              Append(At(log, messageList[n]), Pending[i])
        BY <1>2, <2>2, AtAppend
    <2>4. /\ Taken = [m \in Nodes |-> At(log, messageList[m])]
          /\ Taken' = [m \in Nodes |-> At(log, messageList'[m])]
        BY <1>1 DEF Taken, Message, At
    <2>5. /\ messageList'[n] = Append(messageList[n], cursor[n])
          /\ \A m \in Nodes \ {n} : messageList'[m] = messageList[m]
        BY <2>1 DEF Invariant, TypeOK
    <2>6. Taken' = [Taken EXCEPT ![n] = Append(Taken[n], Pending[i])]
        BY <2>3, <2>4, <2>5
    <2>7. Queue!Take(n)
        BY <1>2, <1>3, <2>6 DEF Queue!Take
    <2> QED
        BY <2>7 DEF Queue!TopicNext
  <1>4. CASE log[cursor[n]] # n
    <2>1. log[cursor[n]] = Unset
        BY <1>1, <1>4 DEF Invariant, CommitInv
    <2>2. Taken' = Taken
        BY <1>1, <1>4 DEF CommitMessages, Taken, Message
    <2>3. Queue!Discard
        BY <1>2, <2>1, <2>2 DEF Queue!Discard
    <2> QED
        BY <2>3 DEF Queue!TopicNext
  <1> QED
      BY <1>3, <1>4

LEMMA CommitFailsMaps ==
    ASSUME Invariant, NEW n \in Nodes, CommitFails(n)
    PROVE  Queue!TopicNext \/ MapStutters
  <1>1. /\ pc[n] = "commit" /\ UNCHANGED log
        /\ \/ committed' = committed
           \/ owner = n /\ committed' = cursor[n]
      BY DEF CommitFails
  <1>2. CASE log[cursor[n]] = n
    <2>1. Taken' = [Taken EXCEPT ![n] = << >>]
        BY <1>1, <1>2, ListEmptied DEF CommitFails
    <2>2. CASE committed' = committed
      <3>1. Pending' = Pending
          BY <1>1, <2>2 DEF Pending, Message
      <3>2. Queue!Finish(n)
          BY <2>1, <3>1 DEF Queue!Finish
      <3> QED
          BY <3>2 DEF Queue!TopicNext
    <2>3. CASE owner = n /\ committed' = cursor[n]
      <3>1. PICK i \in 1 .. Len(Pending) : Pending' = Queue!Rest(i) /\ Queue!First(n, i)
          BY <1>1, <1>2, <2>3, CommitDrops
      <3>2. Queue!Lose(n)
          BY <2>1, <3>1 DEF Queue!Lose
      <3> QED
          BY <3>2 DEF Queue!TopicNext
    <2> QED
        BY <1>1, <2>2, <2>3
  <1>3. CASE log[cursor[n]] # n
    <2>1. messageList' = messageList
        BY <1>3 DEF CommitFails
    <2>2. CASE committed' = committed
        BY <1>1, <2>1, <2>2, SameMap
    <2>3. CASE owner = n /\ committed' = cursor[n]
      <3>1. PICK i \in 1 .. Len(Pending) :
                Pending' = Queue!Rest(i) /\ Pending[i] = [key |-> log[cursor[n]]]
          BY <1>1, <2>3, CommitDrops
      <3>2. log[cursor[n]] = Unset
          BY <1>1, <1>3 DEF Invariant, CommitInv
      <3>3. Taken' = Taken
          BY <1>1, <2>1 DEF Taken, Message
      <3>4. Queue!Discard
          BY <3>1, <3>2, <3>3 DEF Queue!Discard
      <3> QED
          BY <3>4 DEF Queue!TopicNext
    <2> QED
        BY <1>1, <2>2, <2>3
  <1> QED
      BY <1>2, <1>3

LEMMA StepSimulation ==
    ASSUME Invariant, [Next]_vars
    PROVE  Queue!TopicNext \/ MapStutters
  <1>1. ASSUME NEW k \in Keys, Produce(k) PROVE Queue!TopicNext
      BY <1>1, ProducePublishes DEF Queue!TopicNext, Keys
  <1>2. ASSUME NEW n \in Nodes, DeadlineBetween(n) \/ CallerDone(n)
        PROVE  Queue!TopicNext
    <2>1. UNCHANGED <<log, committed>> /\ messageList' = [messageList EXCEPT ![n] = << >>]
        BY <1>2 DEF DeadlineBetween, CallerDone
    <2>2. Pending' = Pending
        BY <2>1 DEF Pending, Message
    <2>3. Queue!Finish(n)
        BY <2>1, <2>2, ListEmptied DEF Queue!Finish
    <2> QED
        BY <2>3 DEF Queue!TopicNext
  <1>3. ASSUME ManagerCrash PROVE Queue!TopicNext
    <2>1. Pending' = Pending
        BY <1>3 DEF ManagerCrash, Pending, Message
    <2>2. Taken' = [n \in Nodes |-> << >>]
        BY <1>3 DEF ManagerCrash, Taken, Message
    <2>3. Queue!Forget
        BY <2>1, <2>2 DEF Queue!Forget
    <2> QED
        BY <2>3 DEF Queue!TopicNext
  <1>4. ASSUME NEW n \in Nodes, Rebalance(n) \/ FetchMessage(n) \/ Deadline(n)
        PROVE  MapStutters
      BY <1>4, SameMap DEF Rebalance, FetchMessage, Deadline
  <1>5. ASSUME NewReaders \/ UNCHANGED vars PROVE MapStutters
      BY <1>5, SameMap DEF NewReaders, vars
  <1> QED
      BY <1>1, <1>2, <1>3, <1>4, <1>5, CommitMaps, CommitFailsMaps DEF Next

(* ConsumeMessage implements the abstract topic the two controllers are    *)
(* modelled on, deadlines, rebalances, failed commits and crashes          *)
(* included, for any number of nodes and messages.                         *)
THEOREM ReadersImplementTopic == Spec => ImplementsTopic
  <1>1. Init => Queue!TopicInit
      BY DEF Init, Queue!TopicInit, Pending, Taken
  <1>2. Invariant /\ [Next]_vars => [Queue!TopicNext]_<<Pending, Taken>>
      BY StepSimulation DEF MapStutters
  <1> QED
      BY <1>1, <1>2, ReadersInvariant, PTL DEF Spec, ImplementsTopic, Queue!TopicSpec
=============================================================================
