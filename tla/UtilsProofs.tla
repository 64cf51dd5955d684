----------------------------- MODULE UtilsProofs -----------------------------
(***************************************************************************)
(* The crate utils.                                                        *)
(*                                                                         *)
(* KafkaConsumer: at-least-once delivery, acknowledgements that always     *)
(* find their entry and drained queues with nothing left to store, for     *)
(* every set of partitions, every log length and every number of restarts  *)
(* and rebalances.                                                         *)
(*                                                                         *)
(* ParallelTaskQueue: mutual exclusion for every set of tasks and keys     *)
(* and every cancellation; and that no waiter is forgotten and no entry    *)
(* outlives its use, except for the keys whose permit went with a task     *)
(* dropped between the send and its poll.  Last, that every step of it is  *)
(* a step of OrderedPermits.                                               *)
(***************************************************************************)
EXTENDS KafkaConsumer, ParallelTaskQueue, SequenceLemmas

------------------------------------------------------------------------------
(* KafkaConsumer. *)

\* Everything before an entry of the queue, the position of the stream and the
\* stored and committed offsets is acknowledged or waits in front of it.
PInv(p) == QueueInv(Offsets, queue[p], acked[p], position[p], stored[p], committed[p])

\* Once a message is delivered after the last restart or rebalance, last_offset
\* is the offset before the position of the stream; a drained queue has stored it.
DInv(p) ==
    position[p] > committed[p] =>
      /\ queue[p].last_offset = position[p] - 1
      /\ queue[p].waiting_list = <<>> => stored[p] >= position[p] - 1

\* The inductive invariant.
ConsumerIInv == /\ ConsumerTypeOK
        /\ IsFiniteSet(inflight) /\ AckFindsEntry
        /\ \A p \in Partitions : PInv(p) /\ DInv(p)

------------------------------------------------------------------------------
(* The specification. *)

\* The offsets are those of a log.
LEMMA OffsetsFacts ==
    /\ Offsets \in SUBSET Nat /\ Offsets \in SUBSET Int /\ IsLog(Offsets)
    /\ NoneStored = -1
BY ConsumerAssumption DEF Offsets, IsLog, NoneStored

\* A partition whose variables keep their values keeps its invariant.
LEMMA UntouchedPartition ==
    ASSUME NEW p \in Partitions, PInv(p) /\ DInv(p),
           queue'[p] = queue[p], acked'[p] = acked[p], position'[p] = position[p],
           stored'[p] = stored[p], committed'[p] = committed[p]
    PROVE  (PInv(p) /\ DInv(p))'
BY DEF PInv, DInv

\* The values ConsumerTypeOK gives the variables of one partition.
LEMMA PartitionTypes ==
    ASSUME ConsumerTypeOK, NEW p \in Partitions
    PROVE  /\ queue[p] \in AckQueues(Offsets)
           /\ queue[p].waiting_list \in Seq(Offsets)
           /\ acked[p] \in SUBSET Offsets
           /\ position[p] \in 0 .. LogEnd
           /\ stored[p] \in Offsets \cup {NoneStored}
           /\ committed[p] \in Offsets
           /\ position[p] \in Int /\ stored[p] \in Int /\ committed[p] \in Int
<1>1. queue[p] \in AckQueues(Offsets) /\ queue[p].waiting_list \in Seq(Offsets)
  BY DEF ConsumerTypeOK, AckQueues
<1>2. /\ acked[p] \in SUBSET Offsets /\ position[p] \in 0 .. LogEnd
      /\ stored[p] \in Offsets \cup {NoneStored} /\ committed[p] \in Offsets
  BY DEF ConsumerTypeOK
<1>3. position[p] \in Int /\ stored[p] \in Int /\ committed[p] \in Int
  <2>1. committed[p] \in Int /\ stored[p] \in Int
    BY <1>2, ConsumerAssumption DEF Offsets, NoneStored
  <2>2. position[p] \in Int
    BY <1>2, ConsumerAssumption
  <2> QED  BY <2>1, <2>2
<1> QED  BY <1>1, <1>2, <1>3

\* Deliveries of one offset are finitely many.
LEMMA FlyingFinite ==
    ASSUME IsFiniteSet(inflight), NEW p, NEW o
    PROVE  IsFiniteSet(Flying(p, o)) /\ Cardinality(Flying(p, o)) \in Nat
<1>1. Flying(p, o) \in SUBSET inflight
  BY DEF Flying
<1>2. IsFiniteSet(Flying(p, o))
  BY <1>1, FS_Subset
<1> QED  BY <1>2, FS_CardinalityType

\* Nothing is delivered, stored or acknowledged at the start.
LEMMA InitConsumerIInv == ConsumerInit => ConsumerIInv
<1> SUFFICES ASSUME ConsumerInit PROVE ConsumerIInv
  OBVIOUS
<1>1. ConsumerTypeOK
  BY ConsumerAssumption DEF ConsumerInit, ConsumerTypeOK, NewQueue, NoneStored, Offsets
<1>2. ASSUME NEW p \in Partitions PROVE PInv(p) /\ DInv(p)
  <2>1. AllBelow(Offsets, 0, {})
    BY OffsetsFacts DEF AllBelow
  <2>2. QueueInv(Offsets, NewQueue, {}, 0, -1, 0)
    BY <2>1, OffsetsFacts, NewQueueInv
  <2>3. position[p] = 0 /\ committed[p] = 0
    BY DEF ConsumerInit
  <2> QED  BY <2>2, <2>3, OffsetsFacts DEF ConsumerInit, PInv, DInv
<1>3. IsFiniteSet(inflight) /\ AckFindsEntry
  <2>1. IsFiniteSet({}) /\ Cardinality({}) = 0
    BY FS_EmptySet
  <2>2. ASSUME NEW p \in Partitions, NEW o PROVE Flying(p, o) = {} /\ Entries(p, o) = {}
    BY DEF ConsumerInit, Flying, Entries, NewQueue
  <2> QED  BY <2>1, <2>2 DEF ConsumerInit, AckFindsEntry
<1> QED  BY <1>1, <1>2, <1>3 DEF ConsumerIInv

\* consume() delivers one message and queues its offset.
LEMMA PollIInv == ASSUME ConsumerIInv, NEW p \in Partitions, Poll(p) PROVE ConsumerIInv'
<1> USE DEF ConsumerIInv
<1>t. position[p] \in Offsets /\ position[p] + 1 \in 0 .. LogEnd
  <2>1. position[p] \in 0 .. LogEnd
    BY PartitionTypes
  <2>2. position[p] < LogEnd
    BY DEF Poll
  <2> QED  BY <2>1, <2>2, ConsumerAssumption DEF Offsets
<1>q. /\ QueueAdd(queue[p], position[p]) \in AckQueues(Offsets)
      /\ QueueInv(Offsets, QueueAdd(queue[p], position[p]), acked[p], position[p] + 1,
                  stored[p], committed[p])
  BY <1>t, PartitionTypes, OffsetsFacts, QueueAddInv DEF PInv
<1>1. ConsumerTypeOK'
  BY <1>t, <1>q DEF Poll, ConsumerTypeOK, AckQueues, Deliveries
<1>3. /\ queue'[p] = QueueAdd(queue[p], position[p])
      /\ position'[p] = position[p] + 1
      /\ acked'[p] = acked[p] /\ stored'[p] = stored[p] /\ committed'[p] = committed[p]
  BY DEF Poll, ConsumerTypeOK
<1>2. ASSUME NEW r \in Partitions PROVE (PInv(r) /\ DInv(r))'
  <2>1. CASE r # p
    BY <2>1, UntouchedPartition DEF Poll, ConsumerTypeOK
  <2>2. CASE r = p
    <3>1. /\ position[p] \in Int /\ queue[p].waiting_list \in Seq(Offsets)
          /\ queue'[p].last_offset = position[p]
          /\ queue'[p].waiting_list = Append(queue[p].waiting_list, position[p])
      BY <1>3, PartitionTypes DEF QueueAdd
    <3>2. queue'[p].waiting_list # <<>>
      BY <1>t, <3>1
    <3>3. queue'[p].last_offset = position'[p] - 1
      BY <1>3, <3>1
    <3> QED  BY <2>2, <1>3, <1>q, <3>2, <3>3 DEF PInv, DInv
  <2> QED  BY <2>1, <2>2
<1> DEFINE m == [partition |-> p, offset |-> position[p], generation |-> rebalances[p]]
<1>4. inflight' = inflight \cup {m} /\ m.partition = p /\ m.offset = position[p]
  BY DEF Poll
<1> HIDE DEF m
<1>5. IsFiniteSet(inflight')
  BY <1>4, FS_AddElement
<1>w. queue'[p].waiting_list = Append(queue[p].waiting_list, position[p])
  BY <1>3 DEF QueueAdd
<1>6. ASSUME NEW r \in Partitions, NEW o \in Offsets
      PROVE  Cardinality(Flying(r, o)') <= Cardinality(Entries(r, o)')
  <2>1. Cardinality(Flying(r, o)) <= Cardinality(Entries(r, o))
    BY DEF AckFindsEntry
  <2>2. IsFiniteSet(Flying(r, o)) /\ Cardinality(Flying(r, o)) \in Nat
    BY FlyingFinite
  <2>3. Cardinality(Entries(r, o)) \in Nat
    <3>1. queue[r].waiting_list \in Seq(Offsets)
      BY PartitionTypes
    <3> QED  BY <3>1, PlacesFinite DEF Entries, Places
  <2>4. CASE r = p
    <3>1. queue[p].waiting_list \in Seq(Offsets)
      BY PartitionTypes
    <3>2. /\ Entries(r, o)' = Places(Append(queue[p].waiting_list, position[p]), o)
          /\ Entries(r, o) = Places(queue[p].waiting_list, o)
      BY <1>w, <2>4 DEF Entries, Places
    <3>3. Cardinality(Entries(r, o)')
            = Cardinality(Entries(r, o)) + (IF o = position[p] THEN 1 ELSE 0)
      BY <1>t, <3>1, <3>2, PlacesAdd
    <3>4. CASE o = position[p]
      <4>1. Flying(r, o)' = Flying(r, o) \cup {m}
        BY <1>4, <2>4, <3>4 DEF Flying
      <4>2. Cardinality(Flying(r, o) \cup {m}) =
              IF m \in Flying(r, o) THEN Cardinality(Flying(r, o))
                                    ELSE Cardinality(Flying(r, o)) + 1
        BY <2>2, FS_AddElement
      <4> QED  BY <2>1, <2>2, <2>3, <3>3, <3>4, <4>1, <4>2
    <3>5. CASE o # position[p]
      <4>1. Flying(r, o)' = Flying(r, o)
        BY <1>4, <3>5 DEF Flying
      <4> QED  BY <2>1, <2>3, <3>3, <3>5, <4>1
    <3> QED  BY <3>4, <3>5
  <2>5. CASE r # p
    <3>1. Flying(r, o)' = Flying(r, o)
      BY <1>4, <2>5 DEF Flying
    <3>2. Entries(r, o)' = Entries(r, o)
      BY <2>5 DEF Entries, Poll, ConsumerTypeOK
    <3> QED  BY <2>1, <3>1, <3>2
  <2> QED  BY <2>4, <2>5
<1> QED  BY <1>1, <1>2, <1>5, <1>6 DEF AckFindsEntry

\* What ack() of a delivery in flight changes: its own partition.
LEMMA AckChanges ==
    ASSUME ConsumerIInv, NEW m \in inflight, Ack(m)
    PROVE  \E p \in Partitions, e \in Offsets :
             /\ p = m.partition /\ e = m.offset
             /\ AckReturns(queue[p], e)
             /\ queue' = [queue EXCEPT ![p] = QueueAck(queue[p], e)]
             /\ stored' = [stored EXCEPT ![p] = StoredAfter(queue[p], e, stored[p])]
             /\ acked' = [acked EXCEPT ![p] = acked[p] \cup {e}]
             /\ inflight' = inflight \ {m}
             /\ UNCHANGED <<position, committed, restarts, rebalances>>
<1>1. m.partition \in Partitions /\ m.offset \in Offsets
  BY DEF ConsumerIInv, ConsumerTypeOK, Deliveries
<1>2. stored' = [stored EXCEPT ![m.partition] =
                   StoredAfter(queue[m.partition], m.offset, stored[m.partition])]
  BY DEF Ack, StoredAfter, ConsumerIInv, ConsumerTypeOK
<1> QED  BY <1>1, <1>2 DEF Ack

\* ack() of a delivery in flight.
LEMMA AckIInv == ASSUME ConsumerIInv, NEW m \in inflight, Ack(m) PROVE ConsumerIInv'
<1> USE DEF ConsumerIInv
<1>0. PICK p \in Partitions, e \in Offsets :
             /\ p = m.partition /\ e = m.offset
             /\ AckReturns(queue[p], e)
             /\ queue' = [queue EXCEPT ![p] = QueueAck(queue[p], e)]
             /\ stored' = [stored EXCEPT ![p] = StoredAfter(queue[p], e, stored[p])]
             /\ acked' = [acked EXCEPT ![p] = acked[p] \cup {e}]
             /\ inflight' = inflight \ {m}
             /\ UNCHANGED <<position, committed, restarts, rebalances>>
  BY AckChanges
<1>t. /\ queue[p] \in AckQueues(Offsets) /\ queue[p].waiting_list \in Seq(Offsets)
      /\ position[p] \in Int /\ stored[p] \in Int /\ committed[p] \in Int
      /\ stored[p] \in Offsets \cup {NoneStored}
  BY PartitionTypes
<1>1. /\ \E i \in 1..Len(queue[p].waiting_list) : queue[p].waiting_list[i] = e
      /\ QueueAck(queue[p], e) \in AckQueues(Offsets)
      /\ QueueAck(queue[p], e).waiting_list = RemoveFirst(queue[p].waiting_list, e)
      /\ AckStores(queue[p], e) => OffsetToStore(queue[p], e) \in Offsets \cup {-1}
  BY <1>0, <1>t, OffsetsFacts, QueueAckTypes
<1>2. StoredAfter(queue[p], e, stored[p]) \in Offsets \cup {NoneStored}
  <2> HIDE DEF ConsumerIInv
  <2> QED  BY <1>1, <1>t, OffsetsFacts DEF StoredAfter
<1>3. ConsumerTypeOK'
  BY <1>0, <1>1, <1>2 DEF ConsumerTypeOK, AckQueues
<1>c. /\ queue'[p] = QueueAck(queue[p], e)
      /\ stored'[p] = StoredAfter(queue[p], e, stored[p])
      /\ acked'[p] = acked[p] \cup {e}
      /\ position'[p] = position[p] /\ committed'[p] = committed[p]
  BY <1>0 DEF ConsumerTypeOK
<1>4. ASSUME NEW r \in Partitions PROVE (PInv(r) /\ DInv(r))'
  <2>1. CASE r # p
    BY <1>0, <2>1, UntouchedPartition DEF ConsumerTypeOK
  <2>2. CASE r = p
    <3>1. QueueInv(Offsets, QueueAck(queue[p], e), acked[p] \cup {e}, position[p],
                   StoredAfter(queue[p], e, stored[p]), committed[p])
      BY <1>0, <1>t, OffsetsFacts, QueueAckInv DEF PInv
    <3>2. /\ QueueAck(queue[p], e).last_offset = queue[p].last_offset
          /\ queue[p].last_offset \in Int
      BY <1>0, <1>t, OffsetsFacts, QueueAckTypes DEF AckQueues
    <3>3. QueueAck(queue[p], e).waiting_list = <<>> =>
            StoredAfter(queue[p], e, stored[p]) >= queue[p].last_offset
      BY <1>0, <1>t, OffsetsFacts, QueueAckLast
    <3>4. DInv(p)
      OBVIOUS
    <3>5. DInv(p)'
      BY <1>c, <1>t, <3>2, <3>3, <3>4 DEF DInv
    <3> QED  BY <2>2, <1>c, <3>1, <3>5 DEF PInv
  <2> QED  BY <2>1, <2>2
<1>5. IsFiniteSet(inflight')
  BY <1>0, FS_RemoveElement
<1>6. ASSUME NEW r \in Partitions, NEW o \in Offsets
      PROVE  Cardinality(Flying(r, o)') <= Cardinality(Entries(r, o)')
  <2>1. Cardinality(Flying(r, o)) <= Cardinality(Entries(r, o))
    BY DEF AckFindsEntry
  <2>2. IsFiniteSet(Flying(r, o)) /\ Cardinality(Flying(r, o)) \in Nat
    BY FlyingFinite
  <2>3. CASE r # p
    BY <1>0, <2>1, <2>3 DEF Flying, Entries, ConsumerTypeOK
  <2>4. CASE r = p
    <3> DEFINE w == queue[p].waiting_list
    <3>2. Entries(r, o) = Places(w, o) /\ Entries(r, o)' = Places(RemoveFirst(w, e), o)
      BY <1>1, <1>c, <2>4 DEF Entries, Places
    <3>w. w \in Seq(Offsets) /\ \E i \in 1..Len(w) : w[i] = e
      BY <1>1, <1>t
    <3>r. RemoveFirst(w, e) \in Seq(Offsets)
      BY <1>1 DEF AckQueues
    <3> HIDE DEF w
    <3>3. /\ Cardinality(Places(RemoveFirst(w, e), o))
               >= Cardinality(Places(w, o)) - (IF o = e THEN 1 ELSE 0)
          /\ Cardinality(Places(w, o)) \in Nat
          /\ Cardinality(Places(RemoveFirst(w, e), o)) \in Nat
      BY <3>w, <3>r, PlacesRemove, PlacesFinite
    <3>4. CASE o = e
      <4>1. m \in Flying(r, o) /\ Flying(r, o)' = Flying(r, o) \ {m}
        BY <1>0, <2>4, <3>4 DEF Flying
      <4>2. Cardinality(Flying(r, o)') = Cardinality(Flying(r, o)) - 1
        BY <2>2, <4>1, FS_RemoveElement
      <4> QED  BY <2>1, <2>2, <3>2, <3>3, <3>4, <4>2
    <3>5. CASE o # e
      <4>1. Flying(r, o)' = Flying(r, o)
        BY <1>0, <3>5 DEF Flying
      <4> QED  BY <2>1, <2>2, <3>2, <3>3, <3>5, <4>1
    <3> QED  BY <3>4, <3>5
  <2> QED  BY <2>3, <2>4
<1> QED  BY <1>3, <1>4, <1>5, <1>6 DEF AckFindsEntry

\* A commit moves the committed offset to the stored one, which is covered.
LEMMA AutoCommitIInv == ASSUME ConsumerIInv, NEW p \in Partitions, AutoCommit(p) PROVE ConsumerIInv'
<1> USE DEF ConsumerIInv
<1>1. stored[p] \in Offsets
  <2>1. stored[p] \in Offsets \cup {NoneStored} /\ committed[p] \in Offsets
    BY PartitionTypes
  <2>2. stored[p] > committed[p]
    BY DEF AutoCommit
  <2> QED  BY <2>1, <2>2, ConsumerAssumption DEF Offsets, NoneStored
<1>2. ConsumerTypeOK'
  BY <1>1 DEF AutoCommit, ConsumerTypeOK
<1>3. ASSUME NEW r \in Partitions PROVE (PInv(r) /\ DInv(r))'
  <2>1. CASE r # p
    BY <2>1, UntouchedPartition DEF AutoCommit, ConsumerTypeOK
  <2>2. CASE r = p
    <3>1. AllBelow(Offsets, stored[p] + 1, acked[p])
      BY QueueInvBelow DEF PInv
    <3>2. AllBelow(Offsets, stored[p], acked[p])
      BY <1>1, <3>1, OffsetsFacts DEF AllBelow
    <3>3. QueueInv(Offsets, queue[p], acked[p], position[p], stored[p], stored[p])
      BY <3>1, <3>2, QueueInvMoves DEF PInv
    <3>4. PInv(p)'
      BY <3>3 DEF AutoCommit, ConsumerTypeOK, PInv
    <3>5. /\ committed'[p] = stored[p] /\ stored[p] > committed[p]
          /\ position'[p] = position[p] /\ queue'[p] = queue[p] /\ stored'[p] = stored[p]
          /\ committed[p] \in Int /\ stored[p] \in Int /\ position[p] \in Int
      BY PartitionTypes DEF AutoCommit, ConsumerTypeOK
    <3>6. DInv(p)
      OBVIOUS
    <3>7. DInv(p)'
      BY <3>5, <3>6 DEF DInv
    <3> QED  BY <2>2, <3>4, <3>7
  <2> QED  BY <2>1, <2>2
<1>4. IsFiniteSet(inflight') /\ AckFindsEntry'
  BY DEF AutoCommit, AckFindsEntry, Flying, Entries
<1> QED  BY <1>2, <1>3, <1>4

\* A restart empties every queue and resumes at the committed offset.
LEMMA RestartIInv == ASSUME ConsumerIInv, Restart PROVE ConsumerIInv'
<1> USE DEF ConsumerIInv
<1>1. ConsumerTypeOK'
  BY ConsumerAssumption DEF Restart, ConsumerTypeOK, NewQueue, NoneStored, Offsets
<1>2. ASSUME NEW r \in Partitions PROVE (PInv(r) /\ DInv(r))'
  <2>1. committed[r] \in Nat /\ committed[r] \in Int
    BY PartitionTypes, OffsetsFacts
  <2>2. QueueInv(Offsets, NewQueue, acked[r], committed[r], -1, committed[r])
    <3>1. AllBelow(Offsets, committed[r], acked[r])
      BY QueueInvBelow DEF PInv
    <3> QED  BY <2>1, <3>1, OffsetsFacts, NewQueueInv
  <2>3. position'[r] = committed'[r] /\ committed'[r] \in Int
    BY <2>1 DEF Restart
  <2> QED  BY <2>2, <2>3, OffsetsFacts DEF Restart, PInv, DInv
<1>3. IsFiniteSet(inflight') /\ AckFindsEntry'
  <2>1. IsFiniteSet({}) /\ Cardinality({}) = 0
    BY FS_EmptySet
  <2>2. ASSUME NEW p \in Partitions, NEW o PROVE Flying(p, o)' = {} /\ Entries(p, o)' = {}
    BY DEF Restart, Flying, Entries, NewQueue
  <2> QED  BY <2>1, <2>2 DEF Restart, AckFindsEntry
<1> QED  BY <1>1, <1>2, <1>3

\* A rebalance moves the stream back and leaves the queue as it is.
LEMMA RebalanceIInv == ASSUME ConsumerIInv, NEW p \in Partitions, Rebalance(p) PROVE ConsumerIInv'
<1> USE DEF ConsumerIInv
<1>1. ConsumerTypeOK'
  BY ConsumerAssumption DEF Rebalance, ConsumerTypeOK, Offsets
<1>2. ASSUME NEW r \in Partitions PROVE (PInv(r) /\ DInv(r))'
  <2>1. CASE r # p
    BY <2>1, UntouchedPartition DEF Rebalance, ConsumerTypeOK
  <2>2. CASE r = p
    <3>1. /\ position'[p] = committed[p] /\ stored'[p] = -1 /\ committed[p] \in Int
          /\ queue'[p] = queue[p] /\ acked'[p] = acked[p] /\ committed'[p] = committed[p]
      BY OffsetsFacts, PartitionTypes DEF Rebalance, ConsumerTypeOK
    <3>2. AllBelow(Offsets, committed[p], acked[p])
      BY QueueInvBelow DEF PInv
    <3>3. AllBelow(Offsets, -1 + 1, acked[p])
      BY OffsetsFacts DEF AllBelow
    <3>4. QueueInv(Offsets, queue[p], acked[p], committed[p], -1, committed[p])
      BY <3>2, <3>3, QueueInvMoves DEF PInv
    <3> QED  BY <2>2, <3>1, <3>4 DEF PInv, DInv
  <2> QED  BY <2>1, <2>2
<1>3. IsFiniteSet(inflight') /\ AckFindsEntry'
  BY DEF Rebalance, AckFindsEntry, Flying, Entries
<1> QED  BY <1>1, <1>2, <1>3

\* Dropping a message leaves the queue alone: its entry has no delivery left.
LEMMA DiscardIInv == ASSUME ConsumerIInv, NEW m \in inflight, Discard(m) PROVE ConsumerIInv'
<1> USE DEF ConsumerIInv
<1>1. ConsumerTypeOK' /\ \A p \in Partitions : (PInv(p) /\ DInv(p))'
  BY DEF Discard, ConsumerTypeOK, PInv, DInv
<1>2. IsFiniteSet(inflight')
  BY FS_RemoveElement DEF Discard
<1>3. ASSUME NEW r \in Partitions, NEW o \in Offsets
      PROVE  Cardinality(Flying(r, o)') <= Cardinality(Entries(r, o)')
  <2>1. Cardinality(Flying(r, o)) <= Cardinality(Entries(r, o))
    BY DEF AckFindsEntry
  <2>2. IsFiniteSet(Flying(r, o)) /\ Cardinality(Flying(r, o)) \in Nat
    BY FlyingFinite
  <2>3. Flying(r, o)' \in SUBSET Flying(r, o)
    BY DEF Discard, Flying
  <2>4. /\ Cardinality(Flying(r, o)') <= Cardinality(Flying(r, o))
        /\ Cardinality(Flying(r, o)') \in Nat
    BY <2>2, <2>3, FS_Subset, FS_CardinalityType
  <2>5. Entries(r, o)' = Entries(r, o) /\ Cardinality(Entries(r, o)) \in Nat
    <3>1. queue[r].waiting_list \in Seq(Offsets)
      BY PartitionTypes
    <3> QED  BY <3>1, PlacesFinite DEF Discard, Entries, Places
  <2> QED  BY <2>1, <2>2, <2>4, <2>5
<1> QED  BY <1>1, <1>2, <1>3 DEF AckFindsEntry

\* Every step keeps the invariant: one case per action.
LEMMA NextConsumerIInv == ConsumerIInv /\ [ConsumerNext]_consumerVars => ConsumerIInv'
<1> SUFFICES ASSUME ConsumerIInv, [ConsumerNext]_consumerVars PROVE ConsumerIInv'
  OBVIOUS
<1>1. CASE UNCHANGED consumerVars
  BY <1>1 DEF consumerVars, ConsumerIInv, ConsumerTypeOK, PInv, DInv, AckFindsEntry, Flying, Entries
<1>2. ASSUME NEW p \in Partitions, Poll(p) PROVE ConsumerIInv'
  BY <1>2, PollIInv
<1>3. ASSUME NEW p \in Partitions, AutoCommit(p) PROVE ConsumerIInv'
  BY <1>3, AutoCommitIInv
<1>4. ASSUME NEW p \in Partitions, Rebalance(p) PROVE ConsumerIInv'
  BY <1>4, RebalanceIInv
<1>5. ASSUME NEW m \in inflight, Ack(m) PROVE ConsumerIInv'
  BY <1>5, AckIInv
<1>6. ASSUME NEW m \in inflight, Discard(m) PROVE ConsumerIInv'
  BY <1>6, DiscardIInv
<1>7. CASE Restart
  BY <1>7, RestartIInv
<1> QED
  BY <1>1, <1>2, <1>3, <1>4, <1>5, <1>6, <1>7 DEF ConsumerNext

\* The variables of the consumer always have their types: no reachable
\* acknowledgement stores an offset outside the log (kafka_ack_queue.rs, ack).
THEOREM ConsumerTypeCorrect == ConsumerSpec => []ConsumerTypeOK
<1>1. ConsumerIInv => ConsumerTypeOK
  BY DEF ConsumerIInv
<1> QED
  BY <1>1, InitConsumerIInv, NextConsumerIInv, PTL DEF ConsumerSpec

\* At-least-once delivery: for every log, every order in which handlers finish,
\* every restart and every rebalance, the offsets a restart may resume from
\* have only acknowledged messages before them (kafka_ack_queue.rs, ack).
THEOREM AtLeastOnceHolds == ConsumerSpec => []AtLeastOnce
<1>1. ConsumerIInv => AtLeastOnce
  <2> SUFFICES ASSUME ConsumerIInv, NEW p \in Partitions, NEW o \in Offsets,
                      o < committed[p] \/ o <= stored[p]
               PROVE  o \in acked[p]
    BY DEF AtLeastOnce
  <2>1. AllBelow(Offsets, stored[p] + 1, acked[p]) /\ AllBelow(Offsets, committed[p], acked[p])
    BY QueueInvBelow DEF ConsumerIInv, PInv
  <2>2. stored[p] \in Int
    BY PartitionTypes DEF ConsumerIInv
  <2> QED  BY <2>1, <2>2, OffsetsFacts DEF AllBelow
<1> QED
  BY <1>1, InitConsumerIInv, NextConsumerIInv, PTL DEF ConsumerSpec

\* ack() always finds its entry, whatever was redelivered or dropped: it neither
\* panics nor spins with the queue's mutex held (kafka_ack_queue.rs, ack).
THEOREM AckFindsEntryHolds == ConsumerSpec => []AckFindsEntry
<1>1. ConsumerIInv => AckFindsEntry
  BY DEF ConsumerIInv
<1> QED
  BY <1>1, InitConsumerIInv, NextConsumerIInv, PTL DEF ConsumerSpec

\* When the queue of a partition has drained, the offset handed to librdkafka is
\* that of the last delivered message or a later one, in every order of
\* acknowledgements and after every rebalance (kafka_ack_queue.rs, ack).
THEOREM DrainedIsStoredHolds == ConsumerSpec => []DrainedIsStored
<1>1. ConsumerIInv => DrainedIsStored
  <2> SUFFICES ASSUME ConsumerIInv, NEW p \in Partitions, queue[p].waiting_list = <<>>
               PROVE  position[p] <= committed[p] \/ position[p] - 1 <= stored[p]
    BY DEF DrainedIsStored
  <2>1. position[p] \in Int /\ committed[p] \in Int /\ stored[p] \in Int
    BY PartitionTypes DEF ConsumerIInv
  <2> QED  BY <2>1 DEF ConsumerIInv, DInv
<1> QED
  BY <1>1, InitConsumerIInv, NextConsumerIInv, PTL DEF ConsumerSpec

------------------------------------------------------------------------------
(* ParallelTaskQueue.  The argument is about five values: the queues Q, the *)
(* blocked keys B, the tasks H that have a permit, the tasks W that wait    *)
(* for one, and the key K of each.  The first part shows that each section  *)
(* under the mutex of the map keeps the invariant of these values, the      *)
(* second that the actions of the specification are such sections.          *)

Senders == Tasks \cup {Dropped}

Types(Q, B, H, W, K) ==
    /\ Q \in [Keys -> Seq(Senders)] /\ K \in [Tasks -> Keys]
    /\ B \subseteq Keys /\ H \subseteq Tasks /\ W \subseteq Tasks /\ H \cap W = {}

\* A live Sender in the queue of k belongs to a task that waits for k.
Sound(Q, W, K) ==
    \A k \in Keys : \A i \in 1..Len(Q[k]) :
        Q[k][i] # Dropped => Q[k][i] \in W /\ K[Q[k][i]] = k

\* A task has at most one Sender.
Distinct(Q) ==
    \A k \in Keys : \A i, j \in 1..Len(Q[k]) :
        Q[k][i] = Q[k][j] /\ Q[k][i] # Dropped => i = j

\* A waiting task has a Sender in the queue of its key.
Queued(Q, W, K) == \A t \in W : \E i \in 1..Len(Q[K[t]]) : Q[K[t]][i] = t

\* A permit blocks its key, nobody else has it, and only a blocked key has a
\* queue.
Exclusive(Q, B, H, K) ==
    /\ \A t \in H : K[t] \in B
    /\ \A t, u \in H : K[t] = K[u] => t = u
    /\ \A k \in Keys \ B : Q[k] = <<>>

\* The invariant of the five values.
Inv(Q, B, H, W, K) ==
    /\ Types(Q, B, H, W, K)
    /\ Sound(Q, W, K)
    /\ Distinct(Q)
    /\ Queued(Q, W, K)
    /\ Exclusive(Q, B, H, K)

\* L holds the keys that are blocked by nobody.
Lost(L, B, H, K) == L = {k \in B : \A t \in H : K[t] # k}

------------------------------------------------------------------------------
(* The sections under the mutex. *)

\* add_task on a blocked key.
LEMMA Enqueue ==
    ASSUME NEW Q, NEW B, NEW H, NEW W, NEW K, Inv(Q, B, H, W, K),
           NEW t \in Tasks, t \notin H \cup W, NEW k \in B,
           NEW Q2, Q2 = [Q EXCEPT ![k] = Append(@, t)],
           NEW K2, K2 = [K EXCEPT ![t] = k]
    PROVE  Inv(Q2, B, H, W \cup {t}, K2)
<1> USE DEF Inv
<1> DEFINE n == Len(Q[k])
<1>1. /\ k \in Keys /\ t # Dropped /\ n \in Nat
      /\ Q[k] \in Seq(Senders)
      /\ Q2[k] = Append(Q[k], t) /\ Q2[k] \in Seq(Senders)
      /\ \A l \in Keys \ {k} : Q2[l] = Q[l]
  BY ConstantsAssumption DEF Types, Senders
<1>2. /\ Len(Q2[k]) = n + 1
      /\ Q2[k][n + 1] = t
      /\ \A i \in 1..n : Q2[k][i] = Q[k][i]
  BY <1>1
<1>3. /\ K2[t] = k
      /\ \A u \in Tasks \ {t} : K2[u] = K[u]
      /\ \A u \in H \cup W : u # t /\ K2[u] = K[u]
  BY DEF Types
<1> HIDE DEF n
<1>4. Types(Q2, B, H, W \cup {t}, K2)
  BY <1>1 DEF Types
<1>5. \A l \in Keys : \A i \in 1..Len(Q[l]) : Q[l][i] # t
  BY <1>1 DEF Sound
<1>6. Sound(Q2, W \cup {t}, K2)
  <2> SUFFICES ASSUME NEW l \in Keys, NEW i \in 1..Len(Q2[l]), Q2[l][i] # Dropped
               PROVE  Q2[l][i] \in W \cup {t} /\ K2[Q2[l][i]] = l
    BY DEF Sound
  <2>1. CASE l # k
    BY <1>1, <1>3, <2>1 DEF Sound
  <2>2. CASE l = k /\ i \in 1..n
    BY <1>1, <1>2, <1>3, <2>2 DEF Sound, n
  <2>3. CASE l = k /\ i = n + 1
    BY <1>2, <1>3, <2>3
  <2> QED  BY <1>1, <1>2, <2>1, <2>2, <2>3
<1>7. Distinct(Q2)
  <2> SUFFICES ASSUME NEW l \in Keys, NEW i \in 1..Len(Q2[l]), NEW j \in 1..Len(Q2[l]),
                      Q2[l][i] = Q2[l][j], Q2[l][i] # Dropped
               PROVE  i = j
    BY DEF Distinct
  <2>1. CASE l # k
    BY <1>1, <2>1 DEF Distinct
  <2>2. CASE l = k
    <3>1. \A x \in 1..n : Q2[k][x] = Q[k][x] /\ Q[k][x] # t
      BY <1>1, <1>2, <1>5 DEF n
    <3>2. CASE i \in 1..n /\ j \in 1..n
      BY <1>1, <2>2, <3>1, <3>2 DEF Distinct, n
    <3> QED  BY <1>1, <1>2, <2>2, <3>1, <3>2
  <2> QED  BY <2>1, <2>2
<1>8. Queued(Q2, W \cup {t}, K2)
  <2> SUFFICES ASSUME NEW u \in W \cup {t}
               PROVE  \E i \in 1..Len(Q2[K2[u]]) : Q2[K2[u]][i] = u
    BY DEF Queued
  <2>1. CASE u = t
    BY <1>1, <1>2, <1>3, <2>1
  <2>2. CASE u # t
    <3>1. u \in W /\ K2[u] = K[u] /\ K[u] \in Keys
      BY <1>3, <2>2 DEF Types
    <3>2. PICK i \in 1..Len(Q[K[u]]) : Q[K[u]][i] = u
      BY <3>1 DEF Queued
    <3>3. CASE K[u] = k
      <4>1. i \in 1..n /\ i \in 1..(n + 1)
        BY <1>1, <3>2, <3>3 DEF n
      <4> QED  BY <1>2, <3>1, <3>2, <3>3, <4>1
    <3>4. CASE K[u] # k
      BY <1>1, <3>1, <3>2, <3>4
    <3> QED  BY <3>3, <3>4
  <2> QED  BY <2>1, <2>2
<1>9. Exclusive(Q2, B, H, K2)
  BY <1>1, <1>3 DEF Exclusive
<1> QED  BY <1>4, <1>6, <1>7, <1>8, <1>9

\* add_task on a key that is not blocked.
LEMMA Grab ==
    ASSUME NEW Q, NEW B, NEW H, NEW W, NEW K, NEW L, Inv(Q, B, H, W, K),
           NEW t \in Tasks, t \notin H \cup W, NEW k \in Keys \ B,
           NEW K2, K2 = [K EXCEPT ![t] = k]
    PROVE  /\ Inv(Q, B \cup {k}, H \cup {t}, W, K2)
           /\ Lost(L, B, H, K) => Lost(L, B \cup {k}, H \cup {t}, K2)
<1> USE DEF Inv
<1>1. /\ K2[t] = k
      /\ \A u \in Tasks \ {t} : K2[u] = K[u]
      /\ \A u \in H \cup W : u # t /\ K2[u] = K[u]
  BY DEF Types
<1>2. Types(Q, B \cup {k}, H \cup {t}, W, K2)
  BY DEF Types
<1>3. Sound(Q, W, K2) /\ Queued(Q, W, K2)
  BY <1>1 DEF Sound, Queued
<1>4. Exclusive(Q, B \cup {k}, H \cup {t}, K2)
  BY <1>1 DEF Exclusive
<1>5. Lost(L, B, H, K) => Lost(L, B \cup {k}, H \cup {t}, K2)
  BY <1>1 DEF Lost
<1> QED  BY <1>2, <1>3, <1>4, <1>5

\* end_task with no live Sender left: the entry goes.
LEMMA ReleaseLast ==
    ASSUME NEW Q, NEW B, NEW H, NEW W, NEW K, NEW L, Inv(Q, B, H, W, K),
           NEW t \in H, \A i \in 1..Len(Q[K[t]]) : Q[K[t]][i] = Dropped,
           NEW Q2, Q2 = [Q EXCEPT ![K[t]] = <<>>]
    PROVE  /\ Inv(Q2, B \ {K[t]}, H \ {t}, W, K)
           /\ Lost(L, B, H, K) => Lost(L, B \ {K[t]}, H \ {t}, K)
<1> USE DEF Inv
<1> DEFINE k == K[t]
<1>1. /\ k \in Keys /\ Dropped \notin Tasks
      /\ Q2[k] = <<>> /\ Len(Q2[k]) = 0
      /\ \A l \in Keys \ {k} : Q2[l] = Q[l]
  BY ConstantsAssumption DEF Types
<1>2. Types(Q2, B \ {k}, H \ {t}, W, K)
  BY <1>1 DEF Types
<1>3. Sound(Q2, W, K) /\ Distinct(Q2)
  BY <1>1 DEF Sound, Distinct
<1>4. Queued(Q2, W, K)
  <2>1. \A u \in W : u \in Tasks /\ K[u] # k /\ K[u] \in Keys
    BY <1>1 DEF Queued, Types
  <2> QED  BY <1>1, <2>1 DEF Queued
<1>5. Exclusive(Q2, B \ {k}, H \ {t}, K)
  BY <1>1 DEF Exclusive, Types
<1>6. Lost(L, B, H, K) => Lost(L, B \ {k}, H \ {t}, K)
  BY DEF Lost
<1> QED  BY <1>2, <1>3, <1>4, <1>5, <1>6

\* The i-th Sender of k's queue is u's and is the first live one; Q2 is Q with
\* it and those before it popped.
PopsTo(Q, k, i, u, Q2) ==
    /\ i \in 1..Len(Q[k]) /\ u = Q[k][i] /\ u # Dropped
    /\ \A j \in 1..(i - 1) : Q[k][j] = Dropped
    /\ Q2 = [Q EXCEPT ![k] = SubSeq(@, i + 1, Len(@))]

\* end_task with a live Sender: the first one gets the permit.
LEMMA HandOver ==
    ASSUME NEW Q, NEW B, NEW H, NEW W, NEW K, NEW L, Inv(Q, B, H, W, K),
           NEW t \in H, NEW i, NEW u, NEW Q2, PopsTo(Q, K[t], i, u, Q2)
    PROVE  /\ u \in W
           /\ Inv(Q2, B, (H \ {t}) \cup {u}, W \ {u}, K)
           /\ Lost(L, B, H, K) => Lost(L, B, (H \ {t}) \cup {u}, K)
<1> USE DEF Inv
<1> /\ i \in 1..Len(Q[K[t]]) /\ u = Q[K[t]][i] /\ u # Dropped
    /\ \A j \in 1..(i - 1) : Q[K[t]][j] = Dropped
    /\ Q2 = [Q EXCEPT ![K[t]] = SubSeq(@, i + 1, Len(@))]
  BY DEF PopsTo
<1> DEFINE k == K[t]
           n == Len(Q[k])
<1>1. /\ k \in Keys /\ k \in B /\ Dropped \notin Tasks
      /\ Q[k] \in Seq(Senders) /\ n \in Nat
      /\ Q2[k] = SubSeq(Q[k], i + 1, n)
      /\ \A l \in Keys \ {k} : Q2[l] = Q[l]
  BY ConstantsAssumption DEF Types, Exclusive
<1>2. /\ Q2[k] \in Seq(Senders)
      /\ Len(Q2[k]) = n - i
      /\ \A j \in 1..(n - i) : Q2[k][j] = Q[k][i + j]
  <2> HIDE DEF k
  <2>1. \A j \in (i + 1)..n : Q[k][j] \in Senders
    BY <1>1
  <2>2. i + 1 \in Int /\ n \in Int
    BY <1>1 DEF k
  <2> HIDE DEF n
  <2>3. /\ SubSeq(Q[k], i + 1, n) \in Seq(Senders)
        /\ Len(SubSeq(Q[k], i + 1, n)) = IF i + 1 <= n THEN n - (i + 1) + 1 ELSE 0
        /\ \A j \in 1..(n - (i + 1) + 1) : SubSeq(Q[k], i + 1, n)[j] = Q[k][(i + 1) + j - 1]
    BY <2>1, <2>2, SubSeqProperties
  <2>4. i \in 1..n /\ n \in Nat
    BY <1>1 DEF k, n
  <2>5. /\ n - (i + 1) + 1 = n - i
        /\ ~ (i + 1 <= n) => n - i = 0
        /\ \A j \in 1..(n - i) : (i + 1) + j - 1 = i + j
    BY <2>4
  <2>6. Q2[k] = SubSeq(Q[k], i + 1, n)
    BY <1>1
  <2>7. Len(SubSeq(Q[k], i + 1, n)) = n - i
    BY <2>3, <2>4, <2>5
  <2>8. \A j \in 1..(n - i) : SubSeq(Q[k], i + 1, n)[j] = Q[k][i + j]
    BY <2>3, <2>5
  <2> QED  BY <2>3, <2>6, <2>7, <2>8
<1>3. u \in W /\ K[u] = k /\ u \in Tasks /\ u # t /\ u \notin H
  BY <1>1 DEF Sound, Types
<1> HIDE DEF k, n
<1>i. i \in 1..n /\ Q[k][i] = u
  BY DEF k, n
<1>d. \A a, b \in 1..n : Q[k][a] = Q[k][b] /\ Q[k][a] # Dropped => a = b
  BY <1>1 DEF Distinct, n
<1>n. /\ n \in Nat
      /\ \A j \in 1..(n - i) : i + j \in 1..n /\ i + j # i
      /\ \A j, m \in 1..(n - i) : i + j = i + m => j = m
  BY <1>1, <1>i
<1>4. Types(Q2, B, (H \ {t}) \cup {u}, W \ {u}, K)
  BY <1>1, <1>2, <1>3 DEF Types
<1>5. \A j \in 1..(n - i) : Q2[k][j] # u
  BY <1>1, <1>2, <1>3, <1>i, <1>d, <1>n
<1>6. Sound(Q2, W \ {u}, K)
  <2> SUFFICES ASSUME NEW l \in Keys, NEW j \in 1..Len(Q2[l]), Q2[l][j] # Dropped
               PROVE  Q2[l][j] \in W \ {u} /\ K[Q2[l][j]] = l
    BY DEF Sound
  <2>1. CASE l # k
    BY <1>1, <1>3, <2>1 DEF Sound
  <2>2. CASE l = k
    <3>1. j \in 1..(n - i) /\ i + j \in 1..n /\ Q2[k][j] = Q[k][i + j]
      BY <1>1, <1>2, <1>i, <2>2
    <3>2. Sound(Q, W, K) /\ i + j \in 1..Len(Q[k]) /\ Q[k][i + j] # Dropped
      BY <2>2, <3>1 DEF n
    <3> HIDE DEF Inv
    <3>3. Q[k][i + j] \in W /\ K[Q[k][i + j]] = k
      BY <1>1, <3>2 DEF Sound
    <3> QED  BY <1>5, <2>2, <3>1, <3>3
  <2> QED  BY <2>1, <2>2
<1>7. Distinct(Q2)
  <2> SUFFICES ASSUME NEW l \in Keys, NEW j \in 1..Len(Q2[l]), NEW m \in 1..Len(Q2[l]),
                      Q2[l][j] = Q2[l][m], Q2[l][j] # Dropped
               PROVE  j = m
    BY DEF Distinct
  <2>1. CASE l # k
    <3>1. Q2[l] = Q[l]
      BY <1>1, <2>1
    <3>2. Distinct(Q)
      OBVIOUS
    <3>3. j \in 1..Len(Q[l]) /\ m \in 1..Len(Q[l]) /\ Q[l][j] = Q[l][m] /\ Q[l][j] # Dropped
      BY <3>1
    <3> HIDE DEF Inv
    <3> QED  BY <3>2, <3>3 DEF Distinct
  <2>2. CASE l = k
    <3>1. /\ j \in 1..(n - i) /\ i + j \in 1..n /\ Q2[k][j] = Q[k][i + j]
          /\ m \in 1..(n - i) /\ i + m \in 1..n /\ Q2[k][m] = Q[k][i + m]
      <4>1. j \in 1..(n - i) /\ m \in 1..(n - i)
        BY <1>2, <2>2
      <4> QED  BY <1>2, <1>n, <4>1
    <3>2. i + j = i + m
      BY <1>d, <2>2, <3>1
    <3> QED  BY <1>n, <3>1, <3>2
  <2> QED  BY <2>1, <2>2
<1>8. Queued(Q2, W \ {u}, K)
  <2> SUFFICES ASSUME NEW v \in W, v # u
               PROVE  \E j \in 1..Len(Q2[K[v]]) : Q2[K[v]][j] = v
    BY DEF Queued
  <2>1. PICK j \in 1..Len(Q[K[v]]) : Q[K[v]][j] = v
    BY DEF Queued
  <2>2. v \in Tasks /\ K[v] \in Keys
    BY DEF Types
  <2>3. CASE K[v] # k
    BY <1>1, <2>1, <2>2, <2>3
  <2>4. CASE K[v] = k
    <3>1. j \in 1..n /\ ~ (j \in 1..(i - 1)) /\ j # i
      BY <1>1, <1>i, <2>1, <2>2, <2>4 DEF k, n
    <3>2. j - i \in 1..(n - i) /\ i + (j - i) = j
      BY <1>1, <1>i, <3>1
    <3>3. Q2[k][j - i] = v
      BY <1>2, <2>1, <2>4, <3>2
    <3> QED  BY <1>2, <2>4, <3>2, <3>3
  <2> QED  BY <2>3, <2>4
<1>9. Exclusive(Q2, B, (H \ {t}) \cup {u}, K)
  BY <1>1, <1>3 DEF Exclusive, k
<1>10. Lost(L, B, H, K) => Lost(L, B, (H \ {t}) \cup {u}, K)
  BY <1>3 DEF Lost, k
<1> QED  BY <1>3, <1>4, <1>6, <1>7, <1>8, <1>9, <1>10

\* A waiting task is dropped: its Sender stays behind.
LEMMA DropWaiting ==
    ASSUME NEW Q, NEW B, NEW H, NEW W, NEW K, Inv(Q, B, H, W, K),
           NEW t \in W,
           NEW Q2, Q2 = [Q EXCEPT ![K[t]] =
                           [i \in DOMAIN @ |-> IF @[i] = t THEN Dropped ELSE @[i]]]
    PROVE  Inv(Q2, B, H, W \ {t}, K)
<1> USE DEF Inv
<1> DEFINE k == K[t]
           n == Len(Q[k])
<1>1. /\ k \in Keys /\ t \in Tasks /\ t # Dropped
      /\ Q[k] \in Seq(Senders) /\ n \in Nat /\ DOMAIN Q[k] = 1..n
      /\ \A l \in Keys \ {k} : Q2[l] = Q[l]
      /\ Q2[k] = [i \in 1..n |-> IF Q[k][i] = t THEN Dropped ELSE Q[k][i]]
  <2>1. k \in Keys /\ t \in Tasks /\ t # Dropped /\ Q[k] \in Seq(Senders)
    BY ConstantsAssumption DEF Types
  <2>2. n \in Nat /\ DOMAIN Q[k] = 1..n
    BY <2>1
  <2>3. \A l \in Keys \ {k} : Q2[l] = Q[l]
    BY DEF Types
  <2>4. Q2[k] = [i \in DOMAIN Q[k] |-> IF Q[k][i] = t THEN Dropped ELSE Q[k][i]]
    BY <2>1 DEF Types
  <2> QED  BY <2>1, <2>2, <2>3, <2>4
<1>2. /\ Q2[k] \in Seq(Senders)
      /\ Len(Q2[k]) = n
      /\ \A i \in 1..n : Q2[k][i] = IF Q[k][i] = t THEN Dropped ELSE Q[k][i]
  <2> HIDE DEF k
  <2>1. \A i \in 1..n : Q[k][i] \in Senders
    BY <1>1
  <2> HIDE DEF n
  <2> QED  BY <1>1, <2>1 DEF Senders
<1> HIDE DEF k, n
<1>3. Types(Q2, B, H, W \ {t}, K)
  BY <1>1, <1>2 DEF Types, k
<1>4. Sound(Q2, W \ {t}, K)
  <2> SUFFICES ASSUME NEW l \in Keys, NEW j \in 1..Len(Q2[l]), Q2[l][j] # Dropped
               PROVE  Q2[l][j] \in W \ {t} /\ K[Q2[l][j]] = l
    BY DEF Sound
  <2>1. CASE l # k
    <3>1. Q2[l][j] \in W /\ K[Q2[l][j]] = l
      BY <1>1, <2>1 DEF Sound
    <3> QED  BY <2>1, <3>1 DEF k
  <2>2. CASE l = k
    BY <1>1, <1>2, <2>2 DEF Sound, n
  <2> QED  BY <2>1, <2>2
<1>5. Distinct(Q2)
  BY <1>1, <1>2 DEF Distinct, n
<1>6. Queued(Q2, W \ {t}, K)
  <2> SUFFICES ASSUME NEW v \in W, v # t
               PROVE  \E j \in 1..Len(Q2[K[v]]) : Q2[K[v]][j] = v
    BY DEF Queued
  <2>1. PICK j \in 1..Len(Q[K[v]]) : Q[K[v]][j] = v
    BY DEF Queued
  <2>2. K[v] \in Keys
    BY DEF Types
  <2> QED  BY <1>1, <1>2, <2>1, <2>2 DEF n
<1>7. Exclusive(Q2, B, H, K)
  <2>1. \A l \in Keys \ B : Q2[l] = <<>>
    <3> SUFFICES ASSUME NEW l \in Keys \ B PROVE Q2[l] = <<>>
      OBVIOUS
    <3>1. l # k
      BY DEF Exclusive, Queued, k
    <3> QED  BY <1>1, <3>1 DEF Exclusive
  <2> QED  BY <2>1 DEF Exclusive
<1> QED  BY <1>3, <1>4, <1>5, <1>6, <1>7

\* A granted task is dropped: its permit goes with it.
LEMMA DropGranted ==
    ASSUME NEW Q, NEW B, NEW H, NEW W, NEW K, NEW L,
           Inv(Q, B, H, W, K), NEW t \in H
    PROVE  /\ Inv(Q, B, H \ {t}, W, K)
           /\ Lost(L, B, H, K) => Lost(L \cup {K[t]}, B, H \ {t}, K)
<1>1. Inv(Q, B, H \ {t}, W, K)
  BY DEF Inv, Types, Exclusive
<1>2. K[t] \in B /\ \A u \in H \ {t} : K[u] # K[t]
  BY DEF Inv, Exclusive
<1>3. Lost(L, B, H, K) => Lost(L \cup {K[t]}, B, H \ {t}, K)
  BY <1>2 DEF Lost
<1> QED  BY <1>1, <1>3

------------------------------------------------------------------------------
(* The specification. *)

Queues == [k \in Keys |-> locks[k].queue]
Blocked == {k \in Keys : locks[k].is_blocked}
Holders == {t \in Tasks : Granted(t)}
Waiting == {t \in Tasks : pc[t] = "waiting"}

\* The inductive invariant behind MutualExclusion.  Mutual exclusion alone is
\* not inductive: end_task may only hand the permit to a Sender of a task that
\* waits for this key, and add_task may only trust is_blocked if every permit
\* blocks its key.
IInv ==
    /\ VarTypes
    /\ \A k \in Keys : locks[k].present = locks[k].is_blocked
    /\ Inv(Queues, Blocked, Holders, Waiting, key)

\* The keys blocked by nobody are those whose permit a dropped task took along.
LostInv == Lost(lost, Blocked, Holders, key)

\* IInv holds in the next state when its three parts do, the last one on the
\* values the five expressions take there.
LEMMA NextStateIInv ==
    ASSUME VarTypes', \A k \in Keys : locks'[k].present = locks'[k].is_blocked,
           NEW Q, NEW B, NEW H, NEW W, NEW K,
           Queues' = Q, Blocked' = B, Holders' = H, Waiting' = W, key' = K,
           Inv(Q, B, H, W, K)
    PROVE  IInv' /\ (Lost(lost', B, H, K) => LostInv')
BY DEF IInv, LostInv

\* The entry that is not there is an unblocked one.
LEMMA NoEntryType ==
    /\ NoEntry \in LockQueues
    /\ NoEntry.present = NoEntry.is_blocked
<1>1. <<>> \in Seq(Tasks \cup {Dropped})
  OBVIOUS
<1> QED  BY <1>1 DEF NoEntry, LockQueues

\* Before any task asks, no key is blocked and nobody waits.
LEMMA InitIInv == Init => IInv /\ LostInv
<1> SUFFICES ASSUME Init PROVE IInv /\ LostInv
  OBVIOUS
<1>1. VarTypes /\ \A k \in Keys : locks[k].present = locks[k].is_blocked
  BY NoEntryType DEF Init, VarTypes
<1>2. /\ Queues = [k \in Keys |-> <<>>]
      /\ Blocked = {} /\ Holders = {} /\ Waiting = {} /\ lost = {}
  BY DEF Init, Queues, Blocked, Holders, Waiting, Granted, NoEntry
<1>3. Types(Queues, {}, {}, {}, key)
  BY <1>2 DEF Init, Types
<1>4. \A k \in Keys : Queues[k] = <<>> /\ Len(Queues[k]) = 0
  BY <1>2
<1>5. Sound(Queues, {}, key) /\ Distinct(Queues) /\ Queued(Queues, {}, key)
      /\ Exclusive(Queues, {}, {}, key) /\ Lost({}, {}, {}, key)
  BY <1>4 DEF Sound, Distinct, Queued, Exclusive, Lost
<1> QED  BY <1>1, <1>2, <1>3, <1>5 DEF IInv, LostInv, Inv

\* acquire_permit is Enqueue on a blocked key and Grab on a free one.
LEMMA AcquireIInv ==
    ASSUME IInv, NEW t \in Tasks, NEW k \in Keys, Acquire(t, k)
    PROVE  /\ IInv' /\ (LostInv => LostInv')
           /\ t \notin Holders \cup Waiting /\ key' = [key EXCEPT ![t] = k]
           /\ \/ /\ k \in Blocked /\ Holders' = Holders
                 /\ Queues' = [Queues EXCEPT ![k] = Append(@, t)]
              \/ /\ k \notin Blocked /\ Holders' = Holders \cup {t}
                 /\ Queues' = Queues
<1> USE DEF IInv
<1>1. /\ t \notin Holders \cup Waiting
      /\ locks[k] \in LockQueues
      /\ key' = [key EXCEPT ![t] = k] /\ lost' = lost
  BY DEF Acquire, Holders, Waiting, Granted, VarTypes
<1>2. CASE locks[k].is_blocked
  <2>1. /\ locks' = [locks EXCEPT ![k].queue = Append(@, t)]
        /\ pc' = [pc EXCEPT ![t] = "waiting"]
    BY <1>2 DEF Acquire
  <2>2. Append(locks[k].queue, t) \in Seq(Tasks \cup {Dropped})
    BY <1>1 DEF LockQueues
  <2>3. VarTypes' /\ \A l \in Keys : locks'[l].present = locks'[l].is_blocked
    BY <1>1, <2>1, <2>2 DEF VarTypes, LockQueues
  <2>4. /\ Queues' = [Queues EXCEPT ![k] = Append(@, t)]
        /\ Blocked' = Blocked
    BY <2>1 DEF VarTypes, LockQueues, Queues, Blocked
  <2>5. Holders' = Holders /\ Waiting' = Waiting \cup {t} /\ k \in Blocked
    BY <1>1, <1>2, <2>1 DEF VarTypes, Holders, Waiting, Granted, Blocked
  <2>6. /\ Inv(Queues', Blocked, Holders, Waiting \cup {t}, key')
        /\ LostInv => Lost(lost, Blocked, Holders, key')
    <3>1. Inv(Queues, Blocked, Holders, Waiting, key)
      OBVIOUS
    <3>2. Inv(Queues', Blocked, Holders, Waiting \cup {t}, key')
      BY <1>1, <2>4, <2>5, <3>1, Enqueue
    <3>3. \A u \in Holders : key'[u] = key[u]
      BY <1>1 DEF VarTypes, Holders
    <3>4. Lost(lost, Blocked, Holders, key) => Lost(lost, Blocked, Holders, key')
      BY <3>3 DEF Lost
    <3> QED  BY <3>2, <3>4 DEF LostInv
  <2> QED  BY <1>1, <2>3, <2>4, <2>5, <2>6, NextStateIInv DEF LostInv
<1>3. CASE ~ locks[k].is_blocked
  <2>1. /\ locks' = [locks EXCEPT ![k].present = TRUE, ![k].is_blocked = TRUE]
        /\ pc' = [pc EXCEPT ![t] = "granted"]
    BY <1>3 DEF Acquire
  <2>3. VarTypes' /\ \A l \in Keys : locks'[l].present = locks'[l].is_blocked
    BY <1>1, <2>1 DEF VarTypes, LockQueues
  <2>4. /\ Queues' = Queues
        /\ Blocked' = Blocked \cup {k}
    BY <2>1 DEF VarTypes, LockQueues, Queues, Blocked
  <2>5. Holders' = Holders \cup {t} /\ Waiting' = Waiting /\ k \in Keys \ Blocked
    BY <1>1, <1>3, <2>1 DEF VarTypes, Holders, Waiting, Granted, Blocked
  <2>6. /\ Inv(Queues, Blocked \cup {k}, Holders \cup {t}, Waiting, key')
        /\ LostInv => Lost(lost, Blocked \cup {k}, Holders \cup {t}, key')
    BY <1>1, <2>5, Grab DEF LostInv
  <2> QED  BY <1>1, <2>3, <2>4, <2>5, <2>6, NextStateIInv DEF LostInv
<1> QED  BY <1>2, <1>3

\* LockGuard::drop is HandOver when a live Sender is queued and ReleaseLast
\* when there is none.
LEMMA ReleaseIInv ==
    ASSUME IInv, NEW t \in Tasks, Release(t)
    PROVE  /\ IInv' /\ (LostInv => LostInv')
           /\ t \in Holders /\ key' = key
           /\ \/ /\ \A i \in 1..Len(Queues[key[t]]) : Queues[key[t]][i] = Dropped
                 /\ Queues' = [Queues EXCEPT ![key[t]] = <<>>]
                 /\ Holders' = Holders \ {t} /\ pc' = [pc EXCEPT ![t] = "idle"]
              \/ \E i, u : /\ PopsTo(Queues, key[t], i, u, Queues')
                          /\ u \in Waiting /\ Holders' = (Holders \ {t}) \cup {u}
                          /\ pc' = [pc EXCEPT ![t] = "idle", ![u] = "granted"]
<1> USE DEF IInv
<1> DEFINE k == key[t]
           q == locks[k].queue
<1>1. /\ k \in Keys /\ t \in Holders
      /\ locks[k] \in LockQueues /\ q \in Seq(Tasks \cup {Dropped})
      /\ Queues[k] = q /\ key' = key /\ lost' = lost
  BY DEF Release, Holders, Granted, VarTypes, LockQueues, Queues
<1>2. CASE Alive(q) = {}
  <2>1. /\ locks' = [locks EXCEPT ![k] = NoEntry]
        /\ pc' = [pc EXCEPT ![t] = "idle"]
    BY <1>2 DEF Release, EndTask
  <2>2. \A i \in 1..Len(Queues[k]) : Queues[k][i] = Dropped
    BY <1>1, <1>2 DEF Alive
  <2>3. VarTypes' /\ \A l \in Keys : locks'[l].present = locks'[l].is_blocked
    BY <1>1, <2>1, NoEntryType DEF VarTypes
  <2>4. /\ Queues' = [Queues EXCEPT ![k] = <<>>]
        /\ Blocked' = Blocked \ {k}
    BY <1>1, <2>1 DEF VarTypes, LockQueues, Queues, Blocked, NoEntry
  <2>5. Holders' = Holders \ {t} /\ Waiting' = Waiting
    BY <1>1, <2>1 DEF VarTypes, Holders, Waiting, Granted
  <2>6. /\ Inv(Queues', Blocked \ {k}, Holders \ {t}, Waiting, key)
        /\ LostInv => Lost(lost, Blocked \ {k}, Holders \ {t}, key)
    BY <1>1, <2>2, <2>4, ReleaseLast DEF LostInv
  <2>7. IInv' /\ (LostInv => LostInv')
    BY <1>1, <2>3, <2>4, <2>5, <2>6, NextStateIInv DEF LostInv
  <2> HIDE DEF IInv
  <2> QED  BY <1>1, <2>1, <2>2, <2>4, <2>5, <2>7
<1>3. CASE Alive(q) # {}
  <2> DEFINE i == Min(Alive(q))
             u == q[i]
  <2>1. /\ i \in 1..Len(q) /\ u # Dropped
        /\ \A j \in 1..(i - 1) : q[j] = Dropped
    <3>1. Alive(q) \subseteq Nat
      BY <1>1 DEF Alive
    <3>2. i \in Alive(q) /\ \A j \in Alive(q) : i <= j
      BY <1>3, <3>1, MinOfNaturals
    <3> HIDE DEF i
    <3>3. i \in 1..Len(q) /\ \A j \in 1..(i - 1) : j \in 1..Len(q) /\ ~ (i <= j)
      BY <1>1, <3>2 DEF Alive
    <3> QED  BY <3>2, <3>3 DEF Alive
  <2>2. /\ locks' = [locks EXCEPT ![k].queue = SubSeq(@, i + 1, Len(@))]
        /\ pc' = [pc EXCEPT ![t] = "idle", ![u] = "granted"]
    BY <1>3 DEF Release, EndTask
  <2> HIDE DEF i
  <2>3. Queues' = [Queues EXCEPT ![k] = SubSeq(@, i + 1, Len(@))] /\ Blocked' = Blocked
    BY <1>1, <2>2 DEF VarTypes, LockQueues, Queues, Blocked
  <2>4. /\ PopsTo(Queues, key[t], i, u, Queues') /\ u \in Waiting
        /\ Inv(Queues', Blocked, (Holders \ {t}) \cup {u}, Waiting \ {u}, key)
        /\ LostInv => Lost(lost, Blocked, (Holders \ {t}) \cup {u}, key)
    <3>1. PopsTo(Queues, key[t], i, u, Queues')
      BY <1>1, <2>1, <2>3 DEF PopsTo
    <3>2. t \in Holders /\ Inv(Queues, Blocked, Holders, Waiting, key)
      BY <1>1
    <3> HIDE DEF u, k, IInv
    <3>3. /\ PopsTo(Queues, key[t], i, u, Queues') /\ u \in Waiting
          /\ Inv(Queues', Blocked, (Holders \ {t}) \cup {u}, Waiting \ {u}, key)
          /\ LostInv => Lost(lost, Blocked, (Holders \ {t}) \cup {u}, key)
      BY <3>1, <3>2, HandOver DEF LostInv
    <3> QED  BY <3>3
  <2> HIDE DEF u
  <2>5. Holders' = (Holders \ {t}) \cup {u} /\ Waiting' = Waiting \ {u}
    BY <1>1, <2>2, <2>4 DEF VarTypes, Holders, Waiting, Granted
  <2>6. SubSeq(q, i + 1, Len(q)) \in Seq(Tasks \cup {Dropped})
    BY <2>3, <2>4, <1>1 DEF Inv, Types, Senders, VarTypes
  <2>7. VarTypes' /\ \A l \in Keys : locks'[l].present = locks'[l].is_blocked
    <3>1. u \in Tasks
      BY <2>4 DEF Waiting
    <3> HIDE DEF k
    <3> QED  BY <1>1, <2>2, <2>6, <3>1 DEF VarTypes, LockQueues
  <2>8. IInv' /\ (LostInv => LostInv')
    BY <1>1, <2>3, <2>4, <2>5, <2>7, NextStateIInv DEF LostInv
  <2> HIDE DEF IInv
  <2>9. \E j, v : /\ PopsTo(Queues, key[t], j, v, Queues')
                 /\ v \in Waiting /\ Holders' = (Holders \ {t}) \cup {v}
                 /\ pc' = [pc EXCEPT ![t] = "idle", ![v] = "granted"]
    BY <2>2, <2>4, <2>5 DEF u
  <2> QED  BY <1>1, <2>8, <2>9
<1> QED  BY <1>2, <1>3

\* Dropping a task that waits is DropWaiting.
LEMMA CancelWaitingIInv ==
    ASSUME IInv, NEW t \in Tasks, CancelWaiting(t)
    PROVE  /\ IInv' /\ (LostInv => LostInv')
           /\ t \in Waiting /\ key' = key /\ Holders' = Holders
           /\ Queues' = [Queues EXCEPT ![key[t]] =
                           [i \in DOMAIN @ |-> IF @[i] = t THEN Dropped ELSE @[i]]]
<1> USE DEF IInv
<1> DEFINE k == key[t]
           q == locks[k].queue
           r == [i \in DOMAIN q |-> IF q[i] = t THEN Dropped ELSE q[i]]
<1>1. /\ k \in Keys /\ t \in Waiting
      /\ locks[k] \in LockQueues /\ q \in Seq(Tasks \cup {Dropped})
      /\ Queues[k] = q /\ key' = key /\ lost' = lost
      /\ pc' = [pc EXCEPT ![t] = "idle"]
  BY DEF CancelWaiting, Waiting, VarTypes, LockQueues, Queues
<1>2. locks' = [locks EXCEPT ![k].queue = r]
  BY <1>1 DEF CancelWaiting, VarTypes
<1>3. /\ Queues' = [Queues EXCEPT ![k] = r] /\ Blocked' = Blocked
      /\ Queues' = [Queues EXCEPT ![k] =
                       [i \in DOMAIN @ |-> IF @[i] = t THEN Dropped ELSE @[i]]]
  <2> HIDE DEF r
  <2>1. Queues' = [Queues EXCEPT ![k] = r] /\ Blocked' = Blocked
    BY <1>1, <1>2 DEF VarTypes, LockQueues, Queues, Blocked
  <2> QED  BY <1>1, <2>1 DEF r
<1>4. Holders' = Holders /\ Waiting' = Waiting \ {t}
  BY <1>1 DEF VarTypes, Holders, Waiting, Granted
<1>5. Inv(Queues', Blocked, Holders, Waiting \ {t}, key)
  BY <1>1, <1>3, DropWaiting
<1>6. r \in Seq(Tasks \cup {Dropped})
  <2> HIDE DEF r
  <2> QED  BY <1>1, <1>3, <1>5 DEF Inv, Types, Senders
<1>7. VarTypes' /\ \A l \in Keys : locks'[l].present = locks'[l].is_blocked
  <2> HIDE DEF r, k
  <2> QED  BY <1>1, <1>2, <1>6 DEF VarTypes, LockQueues
<1> QED  BY <1>1, <1>3, <1>4, <1>5, <1>7, NextStateIInv DEF LostInv

\* Dropping a task that has been sent its permit is DropGranted.
LEMMA CancelGrantedIInv ==
    ASSUME IInv, NEW t \in Tasks, CancelGranted(t)
    PROVE  /\ IInv' /\ (LostInv => LostInv')
           /\ t \in Holders /\ Holders' = Holders \ {t}
           /\ Queues' = Queues /\ key' = key /\ lost' = lost \cup {key[t]}
<1> USE DEF IInv
<1>1. /\ t \in Holders /\ locks' = locks /\ key' = key
      /\ pc' = [pc EXCEPT ![t] = "idle"] /\ lost' = lost \cup {key[t]}
  BY DEF CancelGranted, Holders, Granted
<1>2. VarTypes' /\ Queues' = Queues /\ Blocked' = Blocked
  BY <1>1 DEF VarTypes, Queues, Blocked, Holders
<1>3. Holders' = Holders \ {t} /\ Waiting' = Waiting
  BY <1>1 DEF VarTypes, Holders, Waiting, Granted, CancelGranted
<1>4. /\ Inv(Queues, Blocked, Holders \ {t}, Waiting, key)
      /\ LostInv => Lost(lost \cup {key[t]}, Blocked, Holders \ {t}, key)
  BY <1>1, DropGranted DEF LostInv
<1> QED  BY <1>1, <1>2, <1>3, <1>4, NextStateIInv DEF LostInv

\* A woken task that builds its LockGuard, and a step of nobody, change none of
\* the five values.
LEMMA ResumeIInv ==
    ASSUME IInv, NEW t \in Tasks, Resume(t)
    PROVE  /\ IInv' /\ (LostInv => LostInv')
           /\ Holders' = Holders /\ Queues' = Queues /\ key' = key /\ lost' = lost
<1> USE DEF IInv
<1>1. /\ locks' = locks /\ key' = key /\ lost' = lost
      /\ pc' = [pc EXCEPT ![t] = "holding"] /\ pc[t] = "granted"
  BY DEF Resume
<1>2. VarTypes' /\ Queues' = Queues /\ Blocked' = Blocked
  BY <1>1 DEF VarTypes, Queues, Blocked
<1>3. Holders' = Holders /\ Waiting' = Waiting
  BY <1>1 DEF VarTypes, Holders, Waiting, Granted
<1> QED  BY <1>1, <1>2, <1>3, NextStateIInv DEF LostInv

\* Every step keeps both invariants.
LEMMA NextIInv ==
    ASSUME IInv, [Next]_vars
    PROVE  IInv' /\ (LostInv => LostInv')
<1>1. CASE UNCHANGED vars
  BY <1>1 DEF vars, IInv, LostInv, VarTypes, Queues, Blocked, Holders, Waiting, Granted
<1>2. ASSUME NEW t \in Tasks, NEW k \in Keys, Acquire(t, k)
      PROVE  IInv' /\ (LostInv => LostInv')
  BY <1>2, AcquireIInv
<1>3. ASSUME NEW t \in Tasks, Resume(t) PROVE IInv' /\ (LostInv => LostInv')
  BY <1>3, ResumeIInv
<1>4. ASSUME NEW t \in Tasks, Release(t) PROVE IInv' /\ (LostInv => LostInv')
  BY <1>4, ReleaseIInv
<1>5. ASSUME NEW t \in Tasks, CancelWaiting(t) PROVE IInv' /\ (LostInv => LostInv')
  BY <1>5, CancelWaitingIInv
<1>6. ASSUME NEW t \in Tasks, CancelGranted(t) PROVE IInv' /\ (LostInv => LostInv')
  BY <1>6, CancelGrantedIInv
<1> QED  BY <1>1, <1>2, <1>3, <1>4, <1>5, <1>6 DEF Next

------------------------------------------------------------------------------
\* The variables always have their types, and a key without an entry has no
\* queue that removing the entry would have lost (parallel_task_queue.rs, drop).
THEOREM TypeCorrect == Spec => []TypeOK
<1>1. IInv => TypeOK
  <2> SUFFICES ASSUME IInv, NEW k \in Keys, ~ locks[k].present
               PROVE  locks[k] = NoEntry
    BY DEF IInv, TypeOK
  <2>1. locks[k] \in LockQueues /\ locks[k].present = FALSE /\ locks[k].is_blocked = FALSE
    BY DEF IInv, VarTypes, LockQueues
  <2>2. k \in Keys \ Blocked /\ Queues[k] = locks[k].queue
    BY <2>1 DEF Blocked, Queues
  <2>3. locks[k].queue = <<>>
    BY <2>2 DEF IInv, Inv, Exclusive
  <2> QED  BY <2>1, <2>3 DEF LockQueues, NoEntry
<1> QED  BY <1>1, InitIInv, NextIInv, PTL DEF Spec

\* Mutual exclusion for any tasks and keys and any cancellation: acquire_permit
\* never gives two tasks the permit of one key, because is_blocked stays set
\* while end_task passes the permit on (parallel_task_queue.rs, end_task).
THEOREM MutualExclusionHolds == Spec => []MutualExclusion
<1>1. IInv => MutualExclusion
  BY DEF IInv, Inv, Exclusive, Holders, MutualExclusion
<1> QED  BY <1>1, InitIInv, NextIInv, PTL DEF Spec

\* LockGuard::drop forgets no waiter: somebody has the permit its key waits for,
\* unless that permit went with a task dropped between the send() and its poll
\* (parallel_task_queue.rs, end_task).
THEOREM NoLostWaiterHolds == Spec => []NoLostWaiter
<1>1. IInv /\ LostInv => NoLostWaiter
  <2> SUFFICES ASSUME IInv, LostInv, NEW t \in Tasks, pc[t] = "waiting"
               PROVE  /\ \E i \in 1..Len(locks[key[t]].queue) : locks[key[t]].queue[i] = t
                      /\ key[t] \in lost \/ \E u \in Tasks : Granted(u) /\ key[u] = key[t]
    BY DEF NoLostWaiter
  <2>1. t \in Waiting /\ key[t] \in Keys /\ Queues[key[t]] = locks[key[t]].queue
    BY DEF Waiting, IInv, VarTypes, Queues
  <2>2. PICK i \in 1..Len(Queues[key[t]]) : Queues[key[t]][i] = t
    BY <2>1 DEF IInv, Inv, Queued
  <2>3. key[t] \in Blocked
    BY <2>1, <2>2 DEF IInv, Inv, Exclusive
  <2> QED  BY <2>1, <2>2, <2>3 DEF LostInv, Lost, Holders
<1>2. IInv /\ LostInv /\ [Next]_vars => IInv' /\ LostInv'
  BY NextIInv
<1> QED  BY <1>1, <1>2, InitIInv, PTL DEF Spec

\* The map has an entry for the keys in use, for those whose permit was lost, and
\* for no other, so the expect() of LockGuard::drop never fires and entries do
\* not pile up (parallel_task_queue.rs, LockGuard::drop).
THEOREM EntriesInUseHolds == Spec => []EntriesInUse
<1>1. IInv /\ LostInv => EntriesInUse
  <2> SUFFICES ASSUME IInv, LostInv, NEW k \in Keys
               PROVE  locks[k].present
                        <=> k \in lost \/ \E t \in Tasks : Granted(t) /\ key[t] = k
    BY DEF EntriesInUse
  <2>1. locks[k].present <=> k \in Blocked
    BY DEF IInv, Blocked
  <2>2. k \in lost <=> k \in Blocked /\ ~ \E t \in Tasks : Granted(t) /\ key[t] = k
    BY DEF LostInv, Lost, Holders
  <2>3. \A t \in Tasks : Granted(t) /\ key[t] = k => k \in Blocked
    BY DEF IInv, Inv, Exclusive, Holders
  <2> QED  BY <2>1, <2>2, <2>3
<1>2. IInv /\ LostInv /\ [Next]_vars => IInv' /\ LostInv'
  BY NextIInv
<1> QED  BY <1>1, <1>2, InitIInv, PTL DEF Spec

------------------------------------------------------------------------------
(* The refinement of OrderedPermits. *)

\* The line of k: who has the permit, then the live Senders.
AskedFor(S, K, k) == {t \in S : K[t] = k}
Ahead(H, K, k) == SetToSeq(AskedFor(H, K, k))
Kept(Q, k) == OnlyIn(Q[k], Tasks)
LineOf(Q, H, K, k) == Ahead(H, K, k) \o Kept(Q, k)

\* Sets and functions with one change, which the provers need not look into.
With(S, e) == S \cup {e}
Without(S, e) == S \ {e}
Put(f, x, v) == [f EXCEPT ![x] = v]

\* Line is this expression, in both states of a step.
LEMMA LineIs ==
    ASSUME NEW k \in Keys
    PROVE  /\ Line(k) = LineOf(Queues, Holders, key, k)
           /\ Line(k)' = LineOf(Queues', Holders', key', k)
<1>1. /\ {t \in Tasks : Granted(t) /\ key[t] = k} = {t \in Holders : key[t] = k}
      /\ {t \in Tasks : Granted(t) /\ key[t] = k}' = {t \in Holders' : key'[t] = k}
  BY DEF Holders
<1>2. Queues[k] = locks[k].queue /\ Queues'[k] = locks'[k].queue
  BY DEF Queues
<1> QED  BY <1>1, <1>2 DEF Line, LineOf, Ahead, AskedFor, Kept

\* Sequences of at most one entry.
LEMMA SetToSeqSmall ==
    /\ SetToSeq({}) = <<>>
    /\ \A t : SetToSeq({t}) = <<t>>
<1>1. SetToSeq({}) = <<>>
  <2>1. Cardinality({}) = 0
    BY FS_EmptySet
  <2>2. <<>> \in [1..0 -> {}] /\ IsInjective(<<>>)
    BY DEF IsInjective
  <2>3. SetToSeq({}) \in [1..0 -> {}]
    BY <2>1, <2>2 DEF SetToSeq
  <2> QED  BY <2>3
<1>2. ASSUME NEW t PROVE SetToSeq({t}) = <<t>>
  <2>1. Cardinality({t}) = 1
    BY FS_Singleton
  <2>2. <<t>> \in [1..1 -> {t}] /\ IsInjective(<<t>>)
    BY DEF IsInjective
  <2>3. SetToSeq({t}) \in [1..1 -> {t}]
    BY <2>1, <2>2 DEF SetToSeq
  <2> QED  BY <2>3
<1> QED  BY <1>1, <1>2

\* The holder is the first of its line, and behind it are those who wait for
\* the key; the line of a key without a holder is made of these alone.
LEMMA LineFacts ==
    ASSUME NEW Q, NEW B, NEW H, NEW W, NEW K, Inv(Q, B, H, W, K), NEW k \in Keys
    PROVE  /\ Kept(Q, k) \in Seq(AskedFor(W, K, k)) /\ Kept(Q, k) \in Seq(Tasks)
           /\ Ahead(H, K, k) \in Seq(AskedFor(H, K, k)) /\ Ahead(H, K, k) \in Seq(Tasks)
           /\ \A t \in H : K[t] = k => Ahead(H, K, k) = <<t>>
           /\ (\A t \in H : K[t] # k) => Ahead(H, K, k) = <<>>
<1>1. Kept(Q, k) \in Seq(AskedFor(W, K, k))
  <2> DEFINE S == AskedFor(W, K, k) \cup {Dropped}
  <2>1. Q[k] \in Seq(Senders) /\ \A i \in 1..Len(Q[k]) : Q[k][i] \in S
    BY DEF Inv, Types, Sound, AskedFor
  <2>2. S \cap Tasks \subseteq AskedFor(W, K, k)
    BY ConstantsAssumption
  <2> HIDE DEF S
  <2>3. Q[k] \in Seq(S)
    BY <2>1
  <2>4. OnlyIn(Q[k], Tasks) \in Seq(S \cap Tasks)
    BY <2>3, OnlyInEntries
  <2> QED  BY <2>2, <2>4, SeqMono DEF Kept
<1>2. ASSUME NEW t \in H, K[t] = k PROVE Ahead(H, K, k) = <<t>> /\ t \in AskedFor(H, K, k)
  <2>1. AskedFor(H, K, k) = {t}
    BY <1>2 DEF Inv, Exclusive, AskedFor
  <2> QED  BY <2>1, SetToSeqSmall DEF Ahead
<1>3. ASSUME \A t \in H : K[t] # k PROVE Ahead(H, K, k) = <<>>
  <2>1. AskedFor(H, K, k) = {}
    BY <1>3 DEF AskedFor
  <2> QED  BY <2>1, SetToSeqSmall DEF Ahead
<1>4. Ahead(H, K, k) \in Seq(AskedFor(H, K, k))
  <2>1. CASE \E t \in H : K[t] = k
    <3>1. PICK t \in H : K[t] = k
      BY <2>1
    <3>2. Ahead(H, K, k) = <<t>> /\ t \in AskedFor(H, K, k)
      BY <1>2, <3>1
    <3>3. <<t>> \in Seq(AskedFor(H, K, k))
      BY <3>2
    <3> QED  BY <3>2, <3>3
  <2>2. CASE \A t \in H : K[t] # k
    <3>1. Ahead(H, K, k) = <<>>
      BY <1>3, <2>2
    <3>2. <<>> \in Seq(AskedFor(H, K, k))
      OBVIOUS
    <3> QED  BY <3>1, <3>2
  <2> QED  BY <2>1, <2>2
<1>5. AskedFor(W, K, k) \subseteq Tasks /\ AskedFor(H, K, k) \subseteq Tasks
  BY DEF Inv, Types, AskedFor
<1>6. Kept(Q, k) \in Seq(Tasks) /\ Ahead(H, K, k) \in Seq(Tasks)
  BY <1>1, <1>4, <1>5, SeqMono
<1> QED  BY <1>1, <1>2, <1>3, <1>4, <1>6

\* The line of a key depends on its holder and its queue.
LEMMA LineSame ==
    ASSUME NEW Q, NEW H, NEW K, NEW Q2, NEW H2, NEW K2, NEW k,
           Q2[k] = Q[k], AskedFor(H2, K2, k) = AskedFor(H, K, k)
    PROVE  LineOf(Q2, H2, K2, k) = LineOf(Q, H, K, k)
BY DEF LineOf, Ahead, Kept

\* A task joins the line of a blocked key behind the others.
LEMMA LineEnqueue ==
    ASSUME NEW Q, NEW B, NEW H, NEW W, NEW K, Inv(Q, B, H, W, K),
           NEW t \in Tasks, t \notin H, NEW k \in Keys,
           NEW Q2, Q2 = Put(Q, k, Append(Q[k], t)),
           NEW K2, K2 = Put(K, t, k)
    PROVE  /\ LineOf(Q2, H, K2, k) = Append(LineOf(Q, H, K, k), t)
           /\ \A l \in Keys \ {k} : LineOf(Q2, H, K2, l) = LineOf(Q, H, K, l)
<1>1. /\ Q \in [Keys -> Seq(Senders)] /\ Q2[k] = Append(Q[k], t)
      /\ \A l \in Keys \ {k} : Q2[l] = Q[l]
      /\ \A u \in H : K2[u] = K[u]
  BY DEF Inv, Types, Put
<1>2. \A l : AskedFor(H, K2, l) = AskedFor(H, K, l)
  BY <1>1 DEF AskedFor
<1>3. Kept(Q2, k) = Append(Kept(Q, k), t)
  <2>1. Q[k] \in Seq(Senders) /\ t \in Senders
    BY <1>1 DEF Senders
  <2> QED  BY <1>1, <2>1, OnlyInAppend DEF Kept
<1>4. LineOf(Q2, H, K2, k) = Ahead(H, K, k) \o Append(Kept(Q, k), t)
  BY <1>2, <1>3 DEF LineOf, Ahead
<1>5. Ahead(H, K, k) \in Seq(Tasks) /\ Kept(Q, k) \in Seq(Tasks)
  BY LineFacts
<1>6. Ahead(H, K, k) \o Append(Kept(Q, k), t) = Append(Ahead(H, K, k) \o Kept(Q, k), t)
  BY <1>5, ConcatAppend
<1>7. ASSUME NEW l \in Keys \ {k} PROVE LineOf(Q2, H, K2, l) = LineOf(Q, H, K, l)
  <2>1. Kept(Q2, l) = Kept(Q, l)
    BY <1>1 DEF Kept
  <2> QED  BY <1>2, <2>1 DEF LineOf, Ahead
<1> QED  BY <1>4, <1>6, <1>7 DEF LineOf

\* A task that finds a free key is the only one in its line.
LEMMA LineGrab ==
    ASSUME NEW Q, NEW B, NEW H, NEW W, NEW K, Inv(Q, B, H, W, K),
           NEW t \in Tasks, t \notin H, NEW k \in Keys, k \notin B,
           NEW K2, K2 = Put(K, t, k)
    PROVE  /\ LineOf(Q, H, K, k) = <<>>
           /\ LineOf(Q, With(H, t), K2, k) = <<t>>
           /\ \A l \in Keys \ {k} : LineOf(Q, With(H, t), K2, l) = LineOf(Q, H, K, l)
<1>1. /\ Q[k] = <<>> /\ K2[t] = k /\ \A u \in H : K2[u] = K[u]
      /\ \A u \in H : K[u] # k
  BY DEF Inv, Types, Exclusive, Put
<1>2. Kept(Q, k) = <<>>
  BY <1>1, OnlyInEmpty DEF Kept
<1>3. AskedFor(H, K, k) = {} /\ AskedFor(With(H, t), K2, k) = {t}
  BY <1>1 DEF AskedFor, With
<1>4. <<>> \o <<>> = <<>> /\ <<t>> \o <<>> = <<t>>
  OBVIOUS
<1>5. ASSUME NEW l \in Keys \ {k} PROVE LineOf(Q, With(H, t), K2, l) = LineOf(Q, H, K, l)
  <2>1. AskedFor(With(H, t), K2, l) = AskedFor(H, K, l)
    BY <1>1 DEF AskedFor, With
  <2> QED  BY <2>1, LineSame
<1>6. Ahead(H, K, k) = <<>> /\ Ahead(With(H, t), K2, k) = <<t>>
  BY <1>3, SetToSeqSmall DEF Ahead
<1> QED  BY <1>2, <1>4, <1>5, <1>6 DEF LineOf

\* Without a live Sender the line ends with the holder.
LEMMA LineLast ==
    ASSUME NEW Q, NEW B, NEW H, NEW W, NEW K, Inv(Q, B, H, W, K),
           NEW t \in H, NEW k, k = K[t],
           \A i \in 1..Len(Q[k]) : Q[k][i] = Dropped,
           NEW Q2, Q2 = Put(Q, k, <<>>)
    PROVE  /\ LineOf(Q, H, K, k) = <<t>>
           /\ LineOf(Q2, Without(H, t), K, k) = <<>>
           /\ \A l \in Keys \ {k} : LineOf(Q2, Without(H, t), K, l) = LineOf(Q, H, K, l)
<1>1. /\ k \in Keys /\ Q \in [Keys -> Seq(Senders)] /\ Q2[k] = <<>>
      /\ \A l \in Keys \ {k} : Q2[l] = Q[l]
  BY DEF Inv, Types, Put
<1>2. Kept(Q, k) = <<>>
  <2>1. Q[k] \in Seq({Dropped})
    BY <1>1
  <2>2. OnlyIn(Q[k], Tasks) \in Seq({Dropped} \cap Tasks)
    BY <2>1, OnlyInEntries
  <2>3. {Dropped} \cap Tasks = {}
    BY ConstantsAssumption
  <2> QED  BY <2>2, <2>3 DEF Kept
<1>3. Kept(Q2, k) = <<>>
  BY <1>1, OnlyInEmpty DEF Kept
<1>4. AskedFor(H, K, k) = {t} /\ AskedFor(Without(H, t), K, k) = {}
  BY DEF Inv, Exclusive, AskedFor, Without
<1>5. <<>> \o <<>> = <<>> /\ <<t>> \o <<>> = <<t>>
  OBVIOUS
<1>6. ASSUME NEW l \in Keys \ {k} PROVE LineOf(Q2, Without(H, t), K, l) = LineOf(Q, H, K, l)
  <2>1. AskedFor(Without(H, t), K, l) = AskedFor(H, K, l)
    BY DEF AskedFor, Without
  <2>2. Kept(Q2, l) = Kept(Q, l)
    BY <1>1 DEF Kept
  <2> QED  BY <2>1, <2>2 DEF LineOf, Ahead
<1>7. Ahead(H, K, k) = <<t>> /\ Ahead(Without(H, t), K, k) = <<>>
  BY <1>4, SetToSeqSmall DEF Ahead
<1> QED  BY <1>2, <1>3, <1>5, <1>6, <1>7 DEF LineOf

\* The live Sender that end_task sends to is the second of the line.
LEMMA LineHandOver ==
    ASSUME NEW Q, NEW B, NEW H, NEW W, NEW K, Inv(Q, B, H, W, K),
           NEW t \in H, NEW i, NEW u, NEW Q2, PopsTo(Q, K[t], i, u, Q2)
    PROVE  /\ LineOf(Q, H, K, K[t]) = Cat(<<t>>, LineOf(Q2, With(Without(H, t), u), K, K[t]))
           /\ \A l \in Keys \ {K[t]} : LineOf(Q2, With(Without(H, t), u), K, l) = LineOf(Q, H, K, l)
<1> DEFINE k == K[t]
           q == Q[k]
           H2 == With(Without(H, t), u)
<1>1. /\ k \in Keys /\ q \in Seq(Senders) /\ i \in 1..Len(q) /\ q[i] = u
      /\ \A j \in 1..(i - 1) : q[j] = Dropped
      /\ Q2[k] = SubSeq(q, i + 1, Len(q)) /\ \A l \in Keys \ {k} : Q2[l] = Q[l]
  BY DEF Inv, Types, PopsTo
<1>2. u \in W /\ u \in Tasks /\ K[u] = k /\ u \notin H
  BY <1>1 DEF Inv, Types, Sound, PopsTo
<1>3. Kept(Q, k) = <<u>> \o Kept(Q2, k)
  <2> HIDE DEF q, k
  <2>1. q[i] \in Tasks /\ \A j \in 1..(i - 1) : q[j] \notin Tasks
    BY <1>1, <1>2, ConstantsAssumption
  <2>2. OnlyIn(q, Tasks) = <<q[i]>> \o OnlyIn(SubSeq(q, i + 1, Len(q)), Tasks)
    BY <1>1, <2>1, OnlyInPop
  <2>3. q[i] = u /\ Q2[k] = SubSeq(q, i + 1, Len(q))
    BY <1>1
  <2> QED  BY <2>2, <2>3 DEF Kept, q
<1>4. /\ AskedFor(H, K, k) = {t} /\ AskedFor(H2, K, k) = {u}
      /\ \A l \in Keys \ {k} : AskedFor(H2, K, l) = AskedFor(H, K, l)
  BY <1>2 DEF Inv, Exclusive, AskedFor, With, Without
<1> HIDE DEF k, q, H2
<1>5. Ahead(H, K, k) = <<t>> /\ Ahead(H2, K, k) = <<u>>
  BY <1>4, SetToSeqSmall DEF Ahead
<1>6. LineOf(Q, H, K, k) = <<t>> \o LineOf(Q2, H2, K, k)
  BY <1>3, <1>5 DEF LineOf
<1>7. ASSUME NEW l \in Keys \ {k} PROVE LineOf(Q2, H2, K, l) = LineOf(Q, H, K, l)
  <2>1. Kept(Q2, l) = Kept(Q, l)
    BY <1>1 DEF Kept
  <2> QED  BY <1>4, <2>1 DEF LineOf, Ahead
<1> QED  BY <1>6, <1>7 DEF k, H2, Cat

\* Q2 is Q with t's Sender in the queue of k gone dead.
Drops(Q, k, t, Q2) ==
    Q2 = [Q EXCEPT ![k] = [i \in DOMAIN @ |-> IF @[i] = t THEN Dropped ELSE @[i]]]

\* A dropped task leaves its place in the line.
LEMMA LineDrop ==
    ASSUME NEW Q, NEW B, NEW H, NEW W, NEW K, Inv(Q, B, H, W, K),
           NEW t \in W, NEW Q2, Drops(Q, K[t], t, Q2)
    PROVE  /\ LineOf(Q2, H, K, K[t]) = RemoveFirst(LineOf(Q, H, K, K[t]), t)
           /\ \A l \in Keys \ {K[t]} : LineOf(Q2, H, K, l) = LineOf(Q, H, K, l)
           /\ \E i \in 1..Len(LineOf(Q, H, K, K[t])) : LineOf(Q, H, K, K[t])[i] = t
<1> DEFINE k == K[t]
           q == Q[k]
           r == Q2[k]
           n == Len(q)
           f == Ahead(H, K, k)
<1>1. /\ k \in Keys /\ t \in Tasks /\ Dropped \notin Tasks /\ t \notin H
      /\ q \in Seq(Senders) /\ n \in Nat /\ DOMAIN q = 1..n
      /\ \A l \in Keys \ {k} : Q2[l] = Q[l]
  <2>1. /\ k \in Keys /\ t \in Tasks /\ Dropped \notin Tasks /\ t \notin H
        /\ Q[k] \in Seq(Senders)
    BY ConstantsAssumption DEF Inv, Types
  <2>2. n \in Nat /\ DOMAIN q = 1..n
    BY <2>1
  <2>3. \A l \in Keys \ {k} : Q2[l] = Q[l]
    BY DEF Inv, Types, Drops
  <2> QED  BY <2>1, <2>2, <2>3
<1>2. r = [i \in 1..n |-> IF q[i] = t THEN Dropped ELSE q[i]]
  <2>1. r = [i \in DOMAIN q |-> IF q[i] = t THEN Dropped ELSE q[i]]
    BY <1>1 DEF Inv, Types, Drops
  <2> QED  BY <1>1, <2>1
<1>3. PICK j \in 1..n : q[j] = t
  BY DEF Inv, Queued
<1>4. \A i \in 1..n : q[i] = t => i = j
  BY <1>1, <1>3 DEF Inv, Distinct
<1>5. f \in Seq(Tasks) /\ Lacks(f, t)
  <2>0. k \in Keys /\ t \notin AskedFor(H, K, k)
    BY <1>1 DEF AskedFor
  <2> HIDE DEF k
  <2>1. f \in Seq(Tasks) /\ f \in Seq(AskedFor(H, K, k))
    BY <2>0, LineFacts, Zenon
  <2> HIDE DEF f
  <2>2. \A i \in 1..Len(f) : f[i] \in AskedFor(H, K, k)
    BY <2>1
  <2> QED  BY <2>0, <2>1, <2>2 DEF Lacks
<1>6. \A l \in Keys \ {k} : LineOf(Q2, H, K, l) = LineOf(Q, H, K, l)
  BY <1>1 DEF LineOf, Kept
<1> HIDE DEF k, q, r, n, f
<1>7. /\ r \in Seq(Senders) /\ Len(r) = n /\ r[j] = Dropped
      /\ \A i \in 1..n : i # j => r[i] = q[i] /\ q[i] # t
  <2>1. \A i \in 1..n : q[i] \in Senders
    BY <1>1 DEF n
  <2>2. r \in Seq(Senders) /\ Len(r) = n
    BY <1>1, <1>2, <2>1 DEF Senders
  <2>3. \A i \in 1..n : r[i] = IF q[i] = t THEN Dropped ELSE q[i]
    BY <1>2
  <2> QED  BY <1>3, <1>4, <2>2, <2>3
<1>8. /\ RemoveFirst(Cat(f, OnlyIn(q, Tasks)), t) = Cat(f, OnlyIn(r, Tasks))
      /\ \E i \in 1..Len(Cat(f, OnlyIn(q, Tasks))) : Cat(f, OnlyIn(q, Tasks))[i] = t
  <2>1. Replaces(q, r, j, Senders, Tasks)
    BY <1>1, <1>3, <1>7 DEF n, Replaces
  <2>2. Senders \cap Tasks = Tasks
    BY DEF Senders
  <2>3. f \in Seq(Senders \cap Tasks) /\ Lacks(f, q[j])
    BY <1>3, <1>5, <2>2
  <2>4. /\ RemoveFirst(Cat(f, OnlyIn(q, Tasks)), q[j]) = Cat(f, OnlyIn(r, Tasks))
        /\ \E i \in 1..Len(Cat(f, OnlyIn(q, Tasks))) : Cat(f, OnlyIn(q, Tasks))[i] = q[j]
    BY <2>1, <2>3, OnlyInTakesOut
  <2> QED  BY <1>3, <2>4
<1>9. /\ LineOf(Q, H, K, k) = Cat(f, OnlyIn(q, Tasks))
      /\ LineOf(Q2, H, K, k) = Cat(f, OnlyIn(r, Tasks))
  BY DEF LineOf, Kept, Cat, q, r, f
<1>10. /\ LineOf(Q2, H, K, k) = RemoveFirst(LineOf(Q, H, K, k), t)
       /\ \E i \in 1..Len(LineOf(Q, H, K, k)) : LineOf(Q, H, K, k)[i] = t
  BY <1>8, <1>9
<1> QED  BY <1>6, <1>10 DEF k

\* The state of OrderedPermits that ParallelTaskQueue implements.
Lines == [k \in Keys |-> Line(k)]
Inside == {t \in Tasks : pc[t] = "holding"}

\* Lines in both states of a step; it changes as the line of one key does.
LEMMA LinesAre ==
    /\ \A k \in Keys : Lines[k] = LineOf(Queues, Holders, key, k)
    /\ \A k \in Keys : Lines'[k] = LineOf(Queues', Holders', key', k)
BY LineIs DEF Lines

LEMMA LinesStep ==
    ASSUME NEW k \in Keys, NEW v, LineOf(Queues', Holders', key', k) = v,
           \A l \in Keys \ {k} :
              LineOf(Queues', Holders', key', l) = LineOf(Queues, Holders, key, l)
    PROVE  Lines' = [Lines EXCEPT ![k] = v]
<1>1. /\ Lines' = [l \in Keys |-> Lines'[l]] /\ Lines = [l \in Keys |-> Lines[l]]
  BY DEF Lines
<1>2. Lines'[k] = v /\ \A l \in Keys \ {k} : Lines'[l] = Lines[l]
  BY LinesAre
<1> QED  BY <1>1, <1>2

\* Whoever stands in a line has or awaits a permit.
LEMMA NotInLine ==
    ASSUME IInv, NEW t, t \notin Holders \cup Waiting, NEW k \in Keys
    PROVE  ~ Abstract!InLine(t, k)
<1> DEFINE f == Ahead(Holders, key, k)
           q == Kept(Queues, k)
           A == Holders \cup Waiting
<1>1. f \in Seq(AskedFor(Holders, key, k)) /\ q \in Seq(AskedFor(Waiting, key, k))
  BY LineFacts DEF IInv
<1>2. AskedFor(Holders, key, k) \subseteq A /\ AskedFor(Waiting, key, k) \subseteq A
  BY DEF AskedFor
<1> HIDE DEF f, q, A
<1>3. f \in Seq(A) /\ q \in Seq(A)
  BY <1>1, <1>2, SeqMono
<1> DEFINE s == f \o q
<1>4. s \in Seq(A)
  BY <1>3, ConcatProperties
<1>5. Lines[k] = s
  BY LinesAre DEF LineOf, f, q
<1> HIDE DEF s
<1>6. t \notin Range(s)
  BY <1>4 DEF Range, A
<1> QED  BY <1>5, <1>6 DEF Abstract!InLine, Abstract!Range, Range, Lines

\* Who has a permit is the first in the line of its key, which is open.
LEMMA FirstInLine ==
    ASSUME IInv, LostInv, NEW t \in Holders
    PROVE  /\ key[t] \in Keys \ lost
           /\ Lines[key[t]] # <<>> /\ Head(Lines[key[t]]) = t
           /\ Tail(Lines[key[t]]) = Kept(Queues, key[t])
           /\ Lines[key[t]] = <<t>> \o Kept(Queues, key[t])
<1> DEFINE k == key[t]
<1>1. t \in Tasks /\ k \in Keys /\ k \notin lost
  BY DEF IInv, LostInv, Lost, VarTypes, Holders
<1>2. Ahead(Holders, key, k) = <<t>> /\ Kept(Queues, k) \in Seq(Tasks)
  BY <1>1, LineFacts DEF IInv
<1>3. Lines[k] = <<t>> \o Kept(Queues, k)
  BY <1>1, <1>2, LinesAre DEF LineOf
<1> HIDE DEF k
<1> DEFINE q == Kept(Queues, k)
<1>4. q \in Seq(Tasks)
  BY <1>2
<1> HIDE DEF q
<1>5. <<t>> \o q # <<>> /\ Head(<<t>> \o q) = t /\ Tail(<<t>> \o q) = q
  BY <1>1, <1>4, OneInFront
<1>6. Lines[k] = <<t>> \o q
  BY <1>3 DEF q
<1> QED  BY <1>1, <1>5, <1>6 DEF k, q

\* acquire_permit joins the line.
LEMMA AcquireJoins ==
    ASSUME IInv, NEW t \in Tasks, NEW k \in Keys, Acquire(t, k)
    PROVE  Abstract!Join(t, k)
<1>1. /\ t \notin Holders \cup Waiting /\ key' = [key EXCEPT ![t] = k]
      /\ \/ /\ k \in Blocked /\ Holders' = Holders
            /\ Queues' = [Queues EXCEPT ![k] = Append(@, t)]
         \/ /\ k \notin Blocked /\ Holders' = Holders \cup {t}
            /\ Queues' = Queues
  BY AcquireIInv
<1>2. Inv(Queues, Blocked, Holders, Waiting, key)
  BY DEF IInv
<1>3. /\ LineOf(Queues', Holders', key', k) = Append(LineOf(Queues, Holders, key, k), t)
      /\ \A l \in Keys \ {k} :
            LineOf(Queues', Holders', key', l) = LineOf(Queues, Holders, key, l)
  <2>1. CASE k \in Blocked /\ Holders' = Holders /\ Queues' = [Queues EXCEPT ![k] = Append(@, t)]
    <3>1. t \notin Holders /\ key' = Put(key, t, k)
      BY <1>1 DEF Put
    <3>2. Queues' = Put(Queues, k, Append(Queues[k], t))
      BY <2>1 DEF Put
    <3>3. /\ LineOf(Queues', Holders, key', k) = Append(LineOf(Queues, Holders, key, k), t)
          /\ \A l \in Keys \ {k} :
               LineOf(Queues', Holders, key', l) = LineOf(Queues, Holders, key, l)
      BY <1>2, <3>1, <3>2, LineEnqueue
    <3> QED  BY <2>1, <3>3
  <2>2. CASE k \notin Blocked /\ Holders' = Holders \cup {t} /\ Queues' = Queues
    <3>0. t \notin Holders /\ key' = Put(key, t, k) /\ k \notin Blocked
      BY <1>1, <2>2 DEF Put
    <3>1. /\ LineOf(Queues, Holders, key, k) = <<>>
          /\ LineOf(Queues, With(Holders, t), key', k) = <<t>>
          /\ \A l \in Keys \ {k} :
               LineOf(Queues, With(Holders, t), key', l) = LineOf(Queues, Holders, key, l)
      BY <1>2, <3>0, LineGrab
    <3>2. Append(<<>>, t) = <<t>>
      OBVIOUS
    <3> QED  BY <2>2, <3>1, <3>2 DEF With
  <2> QED  BY <1>1, <2>1, <2>2
<1>4. Lines' = [Lines EXCEPT ![k] = Append(Lines[k], t)]
  BY <1>3, LinesStep, LinesAre
<1>5. \A l \in Keys : ~ Abstract!InLine(t, l)
  BY <1>1, NotInLine
<1>6. Inside' = Inside /\ lost' = lost
  BY DEF Acquire, Inside, IInv, VarTypes
<1> QED  BY <1>4, <1>5, <1>6 DEF Abstract!Join, Lines, Inside

\* The task that builds its LockGuard is the first in line.
LEMMA ResumeEnters ==
    ASSUME IInv, LostInv, NEW t \in Tasks, Resume(t)
    PROVE  Abstract!Enter(t)
<1>1. /\ pc[t] = "granted" /\ pc' = [pc EXCEPT ![t] = "holding"]
      /\ locks' = locks /\ key' = key /\ lost' = lost /\ t \in Holders
  BY DEF Resume, Holders, Granted
<1>2. Inside' = Inside \cup {t} /\ t \notin Inside
  BY <1>1 DEF Inside, IInv, VarTypes
<1>3. Lines' = Lines
  <2>1. Holders' = Holders /\ Queues' = Queues /\ key' = key
    BY ResumeIInv
  <2>2. \A k \in Keys : Lines'[k] = Lines[k]
    BY <2>1, LinesAre
  <2> QED  BY <2>2 DEF Lines
<1>4. key[t] \in Keys \ lost /\ Lines[key[t]] # <<>> /\ Head(Lines[key[t]]) = t
  BY <1>1, FirstInLine
<1> QED  BY <1>1, <1>2, <1>3, <1>4 DEF Abstract!Enter, Lines, Inside

\* LockGuard::drop leaves the line to those behind.
LEMMA ReleaseLeaves ==
    ASSUME IInv, LostInv, NEW t \in Tasks, Release(t)
    PROVE  Abstract!Leave(t)
<1> DEFINE k == key[t]
<1>1. /\ t \in Holders /\ key' = key
      /\ \/ /\ \A i \in 1..Len(Queues[k]) : Queues[k][i] = Dropped
            /\ Queues' = [Queues EXCEPT ![k] = <<>>]
            /\ Holders' = Holders \ {t} /\ pc' = [pc EXCEPT ![t] = "idle"]
         \/ \E i, u : /\ PopsTo(Queues, k, i, u, Queues')
                      /\ u \in Waiting /\ Holders' = (Holders \ {t}) \cup {u}
                      /\ pc' = [pc EXCEPT ![t] = "idle", ![u] = "granted"]
  BY ReleaseIInv
<1>2. Inv(Queues, Blocked, Holders, Waiting, key)
  BY DEF IInv
<1>3. t \in Inside /\ lost' = lost
  BY DEF Release, Inside
<1>4. k \in Keys /\ Lines[k] # <<>> /\ Head(Lines[k]) = t
  BY <1>1, FirstInLine
<1>5. Inside' = Inside \ {t} /\ Lines' = [Lines EXCEPT ![k] = Tail(Lines[k])]
  <2>1. CASE /\ \A i \in 1..Len(Queues[k]) : Queues[k][i] = Dropped
             /\ Queues' = [Queues EXCEPT ![k] = <<>>]
             /\ Holders' = Holders \ {t} /\ pc' = [pc EXCEPT ![t] = "idle"]
    <3>1. Inside' = Inside \ {t}
      BY <2>1 DEF Inside, IInv, VarTypes
    <3>a. /\ \A i \in 1..Len(Queues[k]) : Queues[k][i] = Dropped
          /\ Queues' = Put(Queues, k, <<>>)
          /\ t \in Holders /\ k = key[t]
      BY <1>1, <2>1 DEF Put
    <3>b. /\ LineOf(Queues, Holders, key, k) = <<t>>
          /\ LineOf(Queues', Without(Holders, t), key, k) = <<>>
          /\ \A l \in Keys \ {k} :
               LineOf(Queues', Without(Holders, t), key, l) = LineOf(Queues, Holders, key, l)
      <4> HIDE DEF k
      <4> QED  BY <1>2, <3>a, LineLast
    <3>2. /\ LineOf(Queues, Holders, key, k) = <<t>>
          /\ LineOf(Queues', Holders', key', k) = <<>>
          /\ \A l \in Keys \ {k} :
               LineOf(Queues', Holders', key', l) = LineOf(Queues, Holders, key, l)
      BY <1>1, <2>1, <3>b DEF Without
    <3>3. Tail(<<t>>) = <<>>
      OBVIOUS
    <3>4. Tail(Lines[k]) = <<>>
      BY <1>4, <3>2, <3>3, LinesAre
    <3> QED  BY <1>4, <3>1, <3>2, <3>4, LinesStep
  <2>2. ASSUME NEW i, NEW u, PopsTo(Queues, k, i, u, Queues'), u \in Waiting,
               Holders' = (Holders \ {t}) \cup {u},
               pc' = [pc EXCEPT ![t] = "idle", ![u] = "granted"]
        PROVE  Inside' = Inside \ {t} /\ Lines' = [Lines EXCEPT ![k] = Tail(Lines[k])]
    <3>1. Inside' = Inside \ {t}
      BY <2>2 DEF Inside, Waiting, IInv, VarTypes
    <3>2. /\ LineOf(Queues, Holders, key, k) = <<t>> \o LineOf(Queues', Holders', key', k)
          /\ \A l \in Keys \ {k} :
               LineOf(Queues', Holders', key', l) = LineOf(Queues, Holders, key, l)
      <4>1. t \in Holders /\ PopsTo(Queues, key[t], i, u, Queues')
        BY <1>1, <2>2
      <4>2. /\ LineOf(Queues, Holders, key, key[t])
                 = Cat(<<t>>, LineOf(Queues', With(Without(Holders, t), u), key, key[t]))
            /\ \A l \in Keys \ {key[t]} :
                 LineOf(Queues', With(Without(Holders, t), u), key, l) = LineOf(Queues, Holders, key, l)
        BY <1>2, <4>1, LineHandOver
      <4> QED  BY <1>1, <2>2, <4>2 DEF With, Without, Cat
    <3>3. Inv(Queues', Blocked', Holders', Waiting', key')
      BY ReleaseIInv DEF IInv
    <3> DEFINE s == LineOf(Queues', Holders', key', k)
    <3>4. s \in Seq(Tasks)
      BY <1>4, <3>3, LineFacts, ConcatProperties DEF LineOf
    <3>5. Lines[k] = <<t>> \o s
      BY <1>4, <3>2, LinesAre
    <3> HIDE DEF s
    <3>6. Tail(<<t>> \o s) = s
      BY <3>4, OneInFront
    <3>7. s = Tail(Lines[k])
      BY <3>5, <3>6
    <3> QED  BY <1>4, <3>1, <3>2, <3>7, LinesStep DEF s
  <2> QED  BY <1>1, <2>1, <2>2
<1> HIDE DEF k
<1> QED  BY <1>3, <1>4, <1>5 DEF Abstract!Leave, Lines, Inside

\* The operators of SequencesExt are the same in both specifications.
LEMMA SameOperators ==
    /\ \A s, e : Abstract!RemoveFirst(s, e) = RemoveFirst(s, e)
    /\ \A s : Abstract!Range(s) = Range(s)
<1>1. ASSUME NEW s, NEW e PROVE Abstract!RemoveFirst(s, e) = RemoveFirst(s, e)
  BY DEF Abstract!RemoveFirst, RemoveFirst, Abstract!RemoveAt, RemoveAt,
         Abstract!SelectInSeq, SelectInSeq, Abstract!Min, Min
<1>2. ASSUME NEW s PROVE Abstract!Range(s) = Range(s)
  BY DEF Abstract!Range, Range
<1> QED  BY <1>1, <1>2

\* A future dropped while it waits gives up its place.
LEMMA CancelWaitingGivesUp ==
    ASSUME IInv, NEW t \in Tasks, CancelWaiting(t)
    PROVE  Abstract!GiveUp(t)
<1> DEFINE k == key[t]
<1>1. t \in Waiting /\ key' = key /\ Holders' = Holders /\ Drops(Queues, k, t, Queues')
  BY CancelWaitingIInv DEF Drops
<1>2. Inv(Queues, Blocked, Holders, Waiting, key) /\ k \in Keys
  BY DEF IInv, VarTypes
<1>3. /\ LineOf(Queues', Holders', key', k) = RemoveFirst(LineOf(Queues, Holders, key, k), t)
      /\ \A l \in Keys \ {k} :
            LineOf(Queues', Holders', key', l) = LineOf(Queues, Holders, key, l)
      /\ \E i \in 1..Len(LineOf(Queues, Holders, key, k)) :
            LineOf(Queues, Holders, key, k)[i] = t
  BY <1>1, <1>2, LineDrop
<1> HIDE DEF k
<1> DEFINE s == Lines[k]
<1>4. s = LineOf(Queues, Holders, key, k)
  BY <1>2, LinesAre
<1>5. s \in Seq(Tasks)
  BY <1>2, <1>4, LineFacts, ConcatProperties DEF LineOf
<1> HIDE DEF s
<1>6. t \in Range(s)
  <2>1. \E i \in 1..Len(s) : s[i] = t
    BY <1>3, <1>4
  <2> QED  BY <1>5, <2>1 DEF Range
<1>7. Lines' = [Lines EXCEPT ![k] = Abstract!RemoveFirst(s, t)]
  <2>1. Abstract!RemoveFirst(s, t) = RemoveFirst(s, t)
    BY SameOperators
  <2> QED  BY <1>2, <1>3, <1>4, <2>1, LinesStep
<1>8. Abstract!InLine(t, k)
  BY <1>6, SameOperators DEF Abstract!InLine, Lines, s
<1>9. Inside' = Inside /\ t \notin Inside /\ lost' = lost
  BY DEF CancelWaiting, Inside, IInv, VarTypes
<1> QED  BY <1>2, <1>7, <1>8, <1>9 DEF Abstract!GiveUp, Lines, Inside, s

\* A future dropped between the send() and its poll closes the line of its key.
LEMMA CancelGrantedVanishes ==
    ASSUME IInv, LostInv, NEW t \in Tasks, CancelGranted(t)
    PROVE  Abstract!Vanish(t)
<1> DEFINE k == key[t]
<1>1. /\ t \in Holders /\ Holders' = Holders \ {t}
      /\ Queues' = Queues /\ key' = key /\ lost' = lost \cup {k}
  BY CancelGrantedIInv
<1>2. Inv(Queues, Blocked, Holders, Waiting, key)
  BY DEF IInv
<1>3. /\ k \in Keys \ lost /\ Lines[k] # <<>> /\ Head(Lines[k]) = t
      /\ Tail(Lines[k]) = Kept(Queues, k)
  BY <1>1, FirstInLine
<1>4. LineOf(Queues', Holders', key', k) = Tail(Lines[k])
  <2>1. AskedFor(Holders \ {t}, key, k) = {}
    BY <1>1, <1>2 DEF Inv, Exclusive, AskedFor
  <2>2. Ahead(Holders \ {t}, key, k) = <<>>
    BY <2>1, SetToSeqSmall DEF Ahead
  <2> DEFINE q == Kept(Queues, k)
  <2>3. q \in Seq(Tasks)
    BY <1>2, <1>3, LineFacts
  <2>4. LineOf(Queues', Holders', key', k) = <<>> \o q
    BY <1>1, <2>2 DEF LineOf
  <2> HIDE DEF q
  <2>5. <<>> \o q = q
    BY <2>3, ConcatEmptySeq
  <2> QED  BY <1>3, <2>4, <2>5 DEF q
<1>5. ASSUME NEW l \in Keys \ {k}
      PROVE  LineOf(Queues', Holders', key', l) = LineOf(Queues, Holders, key, l)
  <2>1. AskedFor(Holders \ {t}, key, l) = AskedFor(Holders, key, l)
    BY DEF AskedFor
  <2> QED  BY <1>1, <2>1 DEF LineOf, Ahead
<1> HIDE DEF k
<1>6. Lines' = [Lines EXCEPT ![k] = Tail(Lines[k])]
  BY <1>3, <1>4, <1>5, LinesStep
<1>7. Inside' = Inside /\ t \notin Inside
  BY DEF CancelGranted, Inside, IInv, VarTypes
<1> QED  BY <1>1, <1>3, <1>6, <1>7 DEF Abstract!Vanish, Lines, Inside

\* ParallelTaskQueue hands out permits as OrderedPermits does, step by step: one
\* line per key, served in the order of the calls of acquire_permit, by one task
\* at a time, whoever is cancelled (parallel_task_queue.rs).  What is left of
\* ImplementsOrderedPermits is the fairness of Enter.
THEOREM ImplementsSafety == Spec => Abstract!Safety
<1>1. Init => Abstract!Init
  <2> SUFFICES ASSUME Init PROVE Abstract!Init
    OBVIOUS
  <2>1. Holders = {} /\ Inside = {} /\ lost = {} /\ \A k \in Keys : Queues[k] = <<>>
    BY DEF Init, Holders, Granted, Inside, Queues, NoEntry
  <2>2. <<>> \o <<>> = <<>>
    OBVIOUS
  <2>3. ASSUME NEW k \in Keys PROVE Lines[k] = <<>>
    <3>1. Kept(Queues, k) = <<>>
      BY <2>1, OnlyInEmpty DEF Kept
    <3>2. AskedFor(Holders, key, k) = {}
      BY <2>1 DEF AskedFor
    <3>3. Ahead(Holders, key, k) = <<>>
      BY <3>2, SetToSeqSmall DEF Ahead
    <3> QED  BY <2>2, <3>1, <3>3, LinesAre DEF LineOf
  <2>4. Lines = [k \in Keys |-> <<>>]
    BY <2>3 DEF Lines
  <2> QED  BY <2>1, <2>4 DEF Abstract!Init, Lines, Inside
<1>2. ASSUME IInv, LostInv, [Next]_vars PROVE [Abstract!Next]_Abstract!vars
  <2>1. CASE UNCHANGED vars
    BY <2>1 DEF vars, Abstract!vars, Line, Granted
  <2>2. ASSUME NEW t \in Tasks, NEW k \in Keys, Acquire(t, k) PROVE Abstract!Next
    BY <1>2, <2>2, AcquireJoins DEF Abstract!Next
  <2>3. ASSUME NEW t \in Tasks, Resume(t) PROVE Abstract!Next
    BY <1>2, <2>3, ResumeEnters DEF Abstract!Next
  <2>4. ASSUME NEW t \in Tasks, Release(t) PROVE Abstract!Next
    BY <1>2, <2>4, ReleaseLeaves DEF Abstract!Next
  <2>5. ASSUME NEW t \in Tasks, CancelWaiting(t) PROVE Abstract!Next
    BY <1>2, <2>5, CancelWaitingGivesUp DEF Abstract!Next
  <2>6. ASSUME NEW t \in Tasks, CancelGranted(t) PROVE Abstract!Next
    BY <1>2, <2>6, CancelGrantedVanishes DEF Abstract!Next
  <2> QED  BY <1>2, <2>1, <2>2, <2>3, <2>4, <2>5, <2>6 DEF Next
<1>3. IInv /\ LostInv /\ [Next]_vars => IInv' /\ LostInv'
  BY NextIInv
<1> QED  BY <1>1, <1>2, <1>3, InitIInv, PTL DEF Spec, Abstract!Safety
==============================================================================
