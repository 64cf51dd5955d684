---------------------------- MODULE KafkaConsumer ----------------------------
(***************************************************************************)
(* The Kafka side of CommonConsumer (crates/utils/src/messaging_system):   *)
(* the stream returned by consume(), the acknowledgement of a message from *)
(* any task, librdkafka's periodic commit of the stored offset             *)
(* (enable.auto.commit with enable.auto.offset.store = false), and what a  *)
(* restart of the process or a rebalance of the consumer group makes of    *)
(* it.                                                                     *)
(*                                                                         *)
(* Offsets of a partition are 0 .. LogEnd-1.  `committed' is the position  *)
(* from which Kafka delivers after a restart; with nothing committed that  *)
(* is 0 (auto.offset.reset = earliest).                                    *)
(***************************************************************************)
EXTENDS KafkaAckQueue

CONSTANTS Partitions,      \* the partitions assigned to the process
          LogEnd,          \* messages per partition
          MaxRestarts,     \* bound on restarts of the process
          MaxRebalances    \* bound on rebalances of each partition

ASSUME ConsumerAssumption ==
    /\ LogEnd \in Nat \ {0}
    /\ MaxRestarts \in Nat
    /\ MaxRebalances \in Nat

VARIABLES position,    \* next offset the stream fetches
          queue,       \* KafkaAckQueue.queue; an absent entry is NewQueue
          inflight,    \* delivered messages whose handler has not finished
          stored,      \* offset last passed to store_offsets, -1 for none
          committed,   \* offset the broker keeps for the consumer group
          acked,       \* history: offsets some handler acknowledged
          restarts,
          rebalances

consumerVars == <<position, queue, inflight, stored, committed, acked, restarts, rebalances>>

Offsets == 0 .. LogEnd - 1

\* One delivery of a message.  A rebalance makes Kafka deliver an offset again
\* while the first delivery is still being handled, so the generation tells
\* the two apart; the queue itself keeps offsets only.
Deliveries == [partition : Partitions, offset : Offsets, generation : 0 .. MaxRebalances]

NoneStored == -1

ConsumerInit ==
    /\ position = [p \in Partitions |-> 0]
    /\ queue = [p \in Partitions |-> NewQueue]
    /\ inflight = {}
    /\ stored = [p \in Partitions |-> NoneStored]
    /\ committed = [p \in Partitions |-> 0]
    /\ acked = [p \in Partitions |-> {}]
    /\ restarts = 0
    /\ rebalances = [p \in Partitions |-> 0]

------------------------------------------------------------------------------
\* consume(): the next message of the partition enters the ack queue, then it
\* is yielded to the service.
Poll(p) ==
    /\ position[p] < LogEnd
    /\ queue' = [queue EXCEPT ![p] = QueueAdd(@, position[p])]
    /\ inflight' = inflight \cup
           {[partition |-> p, offset |-> position[p], generation |-> rebalances[p]]}
    /\ position' = [position EXCEPT ![p] = @ + 1]
    /\ UNCHANGED <<stored, committed, acked, restarts, rebalances>>

\* KafkaCommunicationMessage::ack from the task that handled the message.
Ack(m) ==
    LET p == m.partition IN
    /\ m \in inflight
    /\ AckReturns(queue[p], m.offset)
    /\ stored' = IF AckStores(queue[p], m.offset)
                   THEN [stored EXCEPT ![p] = OffsetToStore(queue[p], m.offset)]
                   ELSE stored
    /\ queue' = [queue EXCEPT ![p] = QueueAck(@, m.offset)]
    /\ inflight' = inflight \ {m}
    /\ acked' = [acked EXCEPT ![p] = @ \cup {m.offset}]
    /\ UNCHANGED <<position, committed, restarts, rebalances>>

\* A handler that fails drops the message without ack() (the replication slave
\* of the schema registry does, slave.rs): its entry stays in the queue.
Discard(m) ==
    /\ m \in inflight
    /\ inflight' = inflight \ {m}
    /\ UNCHANGED <<position, queue, stored, committed, acked, restarts, rebalances>>

\* librdkafka commits the stored offset when it is ahead of the committed one.
AutoCommit(p) ==
    /\ stored[p] > committed[p]
    /\ committed' = [committed EXCEPT ![p] = stored[p]]
    /\ UNCHANGED <<position, queue, inflight, stored, acked, restarts, rebalances>>

\* The process dies (process::abort, a stream error, a crash) and a new one
\* subscribes: the queue and everything in flight are gone.
Restart ==
    /\ restarts < MaxRestarts
    /\ restarts' = restarts + 1
    /\ position' = committed
    /\ queue' = [p \in Partitions |-> NewQueue]
    /\ inflight' = {}
    /\ stored' = [p \in Partitions |-> NoneStored]
    /\ UNCHANGED <<committed, acked, rebalances>>

\* The group rebalances (session.timeout.ms missed) and the partition comes
\* back to the same process: the stream goes on from the committed offset
\* while the ack queue and the running handlers know nothing of it.
Rebalance(p) ==
    /\ rebalances[p] < MaxRebalances
    /\ rebalances' = [rebalances EXCEPT ![p] = @ + 1]
    /\ position' = [position EXCEPT ![p] = committed[p]]
    /\ stored' = [stored EXCEPT ![p] = NoneStored]
    /\ UNCHANGED <<queue, inflight, committed, acked, restarts>>

ConsumerNext ==
    \/ \E p \in Partitions : Poll(p) \/ AutoCommit(p) \/ Rebalance(p)
    \/ \E m \in inflight : Ack(m) \/ Discard(m)
    \/ Restart

ConsumerSpec == ConsumerInit /\ [][ConsumerNext]_consumerVars

\* The stream is polled for ever, a handler ends (every await in it has a
\* timeout or aborts the process), librdkafka commits on a timer.
Fairness ==
    /\ \A p \in Partitions : WF_consumerVars(Poll(p)) /\ WF_consumerVars(AutoCommit(p))
    /\ \A m \in Deliveries : WF_consumerVars(Ack(m))

ConsumerLiveSpec == ConsumerSpec /\ Fairness

------------------------------------------------------------------------------
\* The types of the variables.
ConsumerTypeOK ==
    /\ position \in [Partitions -> 0 .. LogEnd]
    /\ queue \in [Partitions -> [waiting_list : Seq(Offsets), last_offset : Offsets]]
    /\ inflight \subseteq Deliveries
    /\ stored \in [Partitions -> Offsets \cup {NoneStored}]
    /\ committed \in [Partitions -> Offsets]
    /\ acked \in [Partitions -> SUBSET Offsets]
    /\ restarts \in 0 .. MaxRestarts
    /\ rebalances \in [Partitions -> 0 .. MaxRebalances]

\* At-least-once: whatever order the handlers finish in, a crash after any
\* step resumes at a position all of whose predecessors were acknowledged, and
\* so does a crash after the next commit of the stored offset
\* (KafkaPartitionAckQueue::ack).
AtLeastOnce ==
    \A p \in Partitions, o \in Offsets :
        o < committed[p] \/ o <= stored[p] => o \in acked[p]

\* The entries of an offset in the ack queue, and its deliveries in flight.
Entries(p, o) == {i \in 1..Len(queue[p].waiting_list) : queue[p].waiting_list[i] = o}
Flying(p, o) == {m \in inflight : m.partition = p /\ m.offset = o}

\* ack() always finds its entry, so it neither panics in front().unwrap() nor
\* spins in the cursor loop with the queue's mutex held: every delivery in
\* flight has an entry of its own, also when a rebalance delivered an offset
\* twice.
AckFindsEntry ==
    \A p \in Partitions, o \in Offsets :
        Cardinality(Flying(p, o)) <= Cardinality(Entries(p, o))

\* A drained queue leaves nothing behind: when no entry of a partition waits,
\* the offset handed to librdkafka is that of the last delivered message or a
\* later one, unless nothing was delivered since the last commit.  It holds in
\* every order of acknowledgements and through rebalances, which take
\* last_offset back while offsets of the assignment before still wait
\* (KafkaPartitionAckQueue::ack).
DrainedIsStored ==
    \A p \in Partitions :
        queue[p].waiting_list = <<>> =>
            position[p] <= committed[p] \/ position[p] - 1 <= stored[p]

\* An entry whose delivery was dropped without ack().
Abandoned(p) ==
    \E o \in Offsets : Cardinality(Flying(p, o)) < Cardinality(Entries(p, o))

\* When restarts stop, the group's offset reaches the last message, unless a
\* handler has dropped one for good: the order of the acknowledgements alone
\* never leaves the stored offset behind (KafkaPartitionAckQueue::ack).
EventuallyCommitted ==
    \A p \in Partitions : <>[](committed[p] = LogEnd - 1) \/ <>[]Abandoned(p)
==============================================================================
