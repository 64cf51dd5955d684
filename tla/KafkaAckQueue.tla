---------------------------- MODULE KafkaAckQueue ----------------------------
(***************************************************************************)
(* KafkaPartitionAckQueue of crates/utils (messaging_system/               *)
(* kafka_ack_queue.rs) as operators on a record.                           *)
(*                                                                         *)
(* Messages of one partition are handled concurrently and finish in any    *)
(* order, while Kafka remembers one offset per partition.  The queue keeps *)
(* the offsets that were delivered and not acknowledged, in the order of   *)
(* delivery, and hands an offset to librdkafka only when its head is       *)
(* acknowledged.                                                           *)
(***************************************************************************)
EXTENDS Integers, Sequences, SequencesExt

\* KafkaPartitionAckQueue::new.
NewQueue == [waiting_list |-> <<>>, last_offset |-> 0]

\* KafkaPartitionAckQueue::add: the offset of a message just delivered.
AddNextOffset(q, offset) ==     \* bug: last_offset is the offset to fetch next
    [waiting_list |-> Append(q.waiting_list, offset), last_offset |-> offset + 1]
AddOnly(q, offset) ==           \* bug: last_offset is not kept up to date
    [q EXCEPT !.waiting_list = Append(@, offset)]
QueueAdd(q, offset) ==
    [waiting_list |-> Append(q.waiting_list, offset), last_offset |-> offset]

\* ack() removes the first entry with this offset: the front by pop_front,
\* any other by the cursor that walks from the second entry on.
ForgetOnlyHead(q, offset) ==    \* bug: an entry that is not the front stays
    IF Head(q.waiting_list) = offset
      THEN [q EXCEPT !.waiting_list = Tail(@)]
      ELSE q
ForgetUpTo(q, offset) ==        \* bug: the cursor truncates instead of removing
    LET i == SelectInSeq(q.waiting_list, LAMBDA o : o = offset) IN
    [q EXCEPT !.waiting_list = SubSeq(@, i + 1, Len(@))]
QueueAck(q, offset) ==
    [q EXCEPT !.waiting_list = RemoveFirst(@, offset)]

\* Without an entry for the offset ack() never returns: front().unwrap()
\* panics on an empty list, and the cursor loop has no other exit.
AckReturns(q, offset) == \E i \in 1..Len(q.waiting_list) : q.waiting_list[i] = offset

\* ack() stores an offset only when the front of the list was acknowledged.
AckStores(q, offset) == Head(q.waiting_list) = offset

\* The offset ack() passes to store_offsets: one less than the next message
\* that is still waiting, or the largest offset seen when none is.
StoreLastOffset(q, offset) ==   \* bug: max() without looking at the list
    IF q.last_offset > offset THEN q.last_offset ELSE offset
StoreOwnOffset(q, offset) == offset   \* bug: later ones done before are forgotten
OffsetToStore(q, offset) ==
    LET rest == Tail(q.waiting_list) IN
    IF rest = <<>>
      THEN IF q.last_offset > offset THEN q.last_offset ELSE offset
      ELSE Head(rest) - 1
==============================================================================
