------------------------------ MODULE DataRouter -----------------------------
(***************************************************************************)
(* The data router (crates/data-router/src/main.rs) between its input      *)
(* partition and the topics of the command services: the loop of main,     *)
(* which takes messages from the stream and hands them to the TaskLimiter; *)
(* handle_message, of which several run at once, with its awaits as the    *)
(* points where they interleave; the LRU cache of schema topics; and the   *)
(* acknowledgement through KafkaAckQueue.                                  *)
(*                                                                         *)
(* The order-group guard of the loop has no step here: the closure passed  *)
(* to Option::map returns the future of acquire_permit, which is bound to  *)
(* `_guard' and dropped at the end of the task without having been polled. *)
(***************************************************************************)
EXTENDS KafkaAckQueue, SequenceFilter

CONSTANTS LogEnd,         \* messages in the input partition
          Payload,        \* offset -> schemas of its entries, or Garbage
          Group,          \* offset -> order_group_id, or NoGroup
          Garbage, NoGroup,
          Schemas, Topics,
          InitialTopic,   \* schema -> its topic in the registry at the start
          TaskLimit,      \* --task-limit
          CacheCapacity,  \* --cache-capacity
          MaxRestarts,    \* bound on deaths of the process
          MaxTopicChanges \* bound on update_schema_topic in the registry

Offsets == 0 .. LogEnd - 1

ASSUME ConstantsAssumption ==
    /\ LogEnd \in Nat \ {0}
    /\ \A o \in Offsets : Payload[o] = Garbage \/ Payload[o] \in Seq(Schemas)
    /\ InitialTopic \in [Schemas -> Topics]
    /\ TaskLimit \in Nat \ {0}
    /\ CacheCapacity \in Nat \ {0}
    /\ MaxRestarts \in Nat
    /\ MaxTopicChanges \in Nat

None == -1

VARIABLES streamOpen,   \* the stream of consume() has not ended
          position,     \* next offset the stream fetches
          pending,      \* message for which the loop awaits a permit, or None
          queue,        \* the ack queue of the partition
          stored, committed,
          task,         \* task[o]: the running handle_message of offset o
          cache,        \* LRU cache of topics, least recently used first
          registry,     \* the schema registry's topic of each schema
          published,    \* entries delivered to a topic
          reported,     \* messages with a notification in the error topic
          acked,        \* history: messages acknowledged
          lookupFailed, \* history: entries whose get_schema_topic failed
          everTopics,   \* history: topics each schema has had
          restarts, topicChanges

process == <<streamOpen, position, pending, queue, stored, task, cache>>
output == <<published, reported>>
history == <<acked, lookupFailed, everTopics>>
vars == <<process, committed, registry, output, history, restarts, topicChanges>>

Steps == {"none", "parse", "lookup", "rpc", "insert", "publish", "report", "ack"}
Tasks == [step : Steps, entry : Nat, topic : Topics \cup {None}, failed : BOOLEAN]
NoTask == [step |-> "none", entry |-> 0, topic |-> None, failed |-> FALSE]

Running == {o \in Offsets : task[o].step # "none"}
IsBatch(o) == Payload[o] # Garbage
SchemaOf(o) == Payload[o][task[o].entry]

FreshProcess(from) ==
    /\ streamOpen' = TRUE
    /\ position' = from
    /\ pending' = None
    /\ queue' = NewQueue
    /\ stored' = None
    /\ task' = [o \in Offsets |-> NoTask]
    /\ cache' = <<>>

Init ==
    /\ streamOpen = TRUE /\ position = 0 /\ pending = None
    /\ queue = NewQueue /\ stored = None /\ committed = 0
    /\ task = [o \in Offsets |-> NoTask]
    /\ cache = <<>>
    /\ registry = InitialTopic
    /\ published = {} /\ reported = {} /\ acked = {} /\ lookupFailed = {}
    /\ everTopics = [s \in Schemas |-> {registry[s]}]
    /\ restarts = 0 /\ topicChanges = 0

------------------------------------------------------------------------------
(* The loop of main. *)

\* message_stream.next(): the loop takes the next message.
Receive ==
    /\ streamOpen /\ pending = None /\ position < LogEnd
    /\ queue' = QueueAdd(queue, position)
    /\ pending' = position
    /\ position' = position + 1
    /\ UNCHANGED <<streamOpen, stored, task, cache, committed, registry, output, history,
                   restarts, topicChanges>>

\* TaskLimiter::run: with a permit of the semaphore the handler is spawned.
Spawn ==
    /\ pending # None
    /\ Cardinality(Running) < TaskLimit
    /\ task' = [task EXCEPT ![pending].step = "parse"]
    /\ pending' = None
    /\ UNCHANGED <<streamOpen, position, queue, stored, cache, committed, registry, output,
                   history, restarts, topicChanges>>

\* An error of the stream is logged and ends it (try_stream!), and so the loop.
StreamFails ==
    /\ streamOpen /\ pending = None /\ restarts < MaxRestarts
    /\ streamOpen' = FALSE
    /\ UNCHANGED <<position, pending, queue, stored, task, cache, committed, registry, output,
                   history, restarts, topicChanges>>

\* The process ends - after the loop, by process::abort or by a crash - and is
\* started again; Kafka delivers from the committed offset.
Die ==
    /\ restarts < MaxRestarts
    /\ restarts' = restarts + 1
    /\ FreshProcess(committed)

Restart == Die /\ UNCHANGED <<committed, registry, output, history, topicChanges>>

------------------------------------------------------------------------------
(* handle_message of offset o. *)

TaskStep(o, step) == o \in Offsets /\ task[o].step = step
SetTask(o, t) == task' = [task EXCEPT ![o] = t]

\* What follows an entry: the next one, or the end of the message.
NextEntryStopAtError(o, failed) ==     \* bug: `?' on the result of an entry
    IF task[o].entry < Len(Payload[o]) /\ ~ failed
      THEN [step |-> "lookup", entry |-> task[o].entry + 1, topic |-> None, failed |-> failed]
      ELSE [step |-> IF failed THEN "report" ELSE "ack",
            entry |-> 0, topic |-> None, failed |-> failed]
NextEntry(o, failed) ==
    IF task[o].entry < Len(Payload[o])
      THEN [step |-> "lookup", entry |-> task[o].entry + 1, topic |-> None, failed |-> failed]
      ELSE [step |-> IF failed THEN "report" ELSE "ack",
            entry |-> 0, topic |-> None, failed |-> failed]

\* Deserialization: an array or a single message with its entries, or an error.
ParseGivesUp(o) ==       \* bug: a malformed message is dropped without ack
    /\ TaskStep(o, "parse")
    /\ SetTask(o, IF IsBatch(o) THEN NextEntry(o, FALSE) ELSE NoTask)
    /\ UNCHANGED <<streamOpen, position, pending, queue, stored, cache, committed, registry,
                   output, history, restarts, topicChanges>>
Parse(o) ==
    /\ TaskStep(o, "parse")
    /\ \/ IsBatch(o) /\ SetTask(o, NextEntry(o, FALSE))
       \/ ~ IsBatch(o) /\ SetTask(o, [task[o] EXCEPT !.step = "report", !.failed = TRUE])
    /\ UNCHANGED <<streamOpen, position, pending, queue, stored, cache, committed, registry,
                   output, history, restarts, topicChanges>>

CachedLast(s) == {i \in 1..Len(cache) : i = Len(cache)}   \* bug: the key is not compared
Cached(s) == {i \in 1..Len(cache) : cache[i].schema = s}
CacheWithout(s) == OnlyIn(cache, [schema : Schemas \ {s}, topic : Topics])
\* LruCache::insert: the entry becomes the most recent one; the least recent
\* one makes room.
CacheInsert(s, t) ==
    LET others == CacheWithout(s)
        kept == IF Len(others) = CacheCapacity THEN Tail(others) ELSE others
    IN  Append(kept, [schema |-> s, topic |-> t])

\* get_schema_topic, first critical section: a hit also renews the entry.
LookupHit(o) ==
    /\ TaskStep(o, "lookup")
    /\ \E i \in Cached(SchemaOf(o)) :
          /\ cache' = Append(CacheWithout(SchemaOf(o)), cache[i])
          /\ SetTask(o, [task[o] EXCEPT !.step = "publish", !.topic = cache[i].topic])
    /\ UNCHANGED <<streamOpen, position, pending, queue, stored, committed, registry, output,
                   history, restarts, topicChanges>>
LookupMiss(o) ==
    /\ TaskStep(o, "lookup")
    /\ Cached(SchemaOf(o)) = {}
    /\ SetTask(o, [task[o] EXCEPT !.step = "rpc"])
    /\ UNCHANGED <<streamOpen, position, pending, queue, stored, cache, committed, registry,
                   output, history, restarts, topicChanges>>

\* The call to the schema registry, which answers or fails (no such schema, no
\* connection); a failure is the result of this entry.
RpcAnswer(o) ==
    /\ TaskStep(o, "rpc")
    /\ SetTask(o, [task[o] EXCEPT !.step = "insert", !.topic = registry[SchemaOf(o)]])
    /\ UNCHANGED <<streamOpen, position, pending, queue, stored, cache, committed, registry,
                   output, history, restarts, topicChanges>>
RpcFails(o) ==
    /\ TaskStep(o, "rpc")
    /\ lookupFailed' = lookupFailed \cup {<<o, task[o].entry>>}
    /\ SetTask(o, NextEntry(o, TRUE))
    /\ UNCHANGED <<streamOpen, position, pending, queue, stored, cache, committed, registry,
                   output, acked, everTopics, restarts, topicChanges>>

\* get_schema_topic, second critical section.
Insert(o) ==
    /\ TaskStep(o, "insert")
    /\ cache' = CacheInsert(SchemaOf(o), task[o].topic)
    /\ SetTask(o, [task[o] EXCEPT !.step = "publish"])
    /\ UNCHANGED <<streamOpen, position, pending, queue, stored, committed, registry, output,
                   history, restarts, topicChanges>>

Delivery(o) ==
    [offset |-> o, entry |-> task[o].entry, schema |-> SchemaOf(o), topic |-> task[o].topic]

\* send_message of an entry; its result does not depend on other entries.
Publish(o) ==
    /\ TaskStep(o, "publish")
    /\ published' = published \cup {Delivery(o)}
    /\ SetTask(o, NextEntry(o, task[o].failed))
    /\ UNCHANGED <<streamOpen, position, pending, queue, stored, cache, committed, registry,
                   reported, history, restarts, topicChanges>>

\* send_message of the error notification.
Report(o) ==
    /\ TaskStep(o, "report")
    /\ reported' = reported \cup {o}
    /\ SetTask(o, [task[o] EXCEPT !.step = "ack"])
    /\ UNCHANGED <<streamOpen, position, pending, queue, stored, cache, committed, registry,
                   published, history, restarts, topicChanges>>

\* send_message without a delivery status (error or 5 s timeout) aborts the
\* process; the broker may have the message all the same.
SendFails(o) ==
    /\ o \in Offsets /\ task[o].step \in {"publish", "report"}
    /\ Die
    /\ published' \in {published} \cup
           IF task[o].step = "publish" THEN {published \cup {Delivery(o)}} ELSE {}
    /\ reported' \in {reported} \cup
           IF task[o].step = "report" THEN {reported \cup {o}} ELSE {}
    /\ UNCHANGED <<committed, registry, history, topicChanges>>

\* message.ack(); the task ends and returns its permit.
Ack(o) ==
    /\ TaskStep(o, "ack")
    /\ AckReturns(queue, o)
    /\ stored' = IF AckStores(queue, o) THEN OffsetToStore(queue, o) ELSE stored
    /\ queue' = QueueAck(queue, o)
    /\ SetTask(o, NoTask)
    /\ acked' = acked \cup {o}
    /\ UNCHANGED <<streamOpen, position, pending, cache, committed, registry, output,
                   lookupFailed, everTopics, restarts, topicChanges>>

------------------------------------------------------------------------------
(* The environment. *)

\* librdkafka commits the stored offset.
AutoCommit ==
    /\ stored > committed
    /\ committed' = stored
    /\ UNCHANGED <<process, registry, output, history, restarts, topicChanges>>

\* update_schema_topic in the schema registry; nothing tells the data router.
ChangeTopic(s, t) ==
    /\ topicChanges < MaxTopicChanges /\ registry[s] # t
    /\ topicChanges' = topicChanges + 1
    /\ registry' = [registry EXCEPT ![s] = t]
    /\ everTopics' = [everTopics EXCEPT ![s] = @ \cup {t}]
    /\ UNCHANGED <<process, committed, output, acked, lookupFailed, restarts>>

Handle(o) ==
    \/ Parse(o) \/ LookupHit(o) \/ LookupMiss(o) \/ RpcAnswer(o) \/ RpcFails(o)
    \/ Insert(o) \/ Publish(o) \/ Report(o) \/ Ack(o)

Next ==
    \/ Receive \/ Spawn \/ StreamFails \/ Restart \/ AutoCommit
    \/ \E o \in Offsets : Handle(o) \/ SendFails(o)
    \/ \E s \in Schemas, t \in Topics : ChangeTopic(s, t)

Spec == Init /\ [][Next]_vars

\* The loop and every spawned task are polled, librdkafka commits on a timer,
\* and a process whose loop has ended exits and is started again.
Fairness ==
    /\ WF_vars(Receive) /\ WF_vars(Spawn) /\ WF_vars(AutoCommit)
    /\ WF_vars(~ streamOpen /\ Restart)
    /\ \A o \in Offsets : WF_vars(Handle(o))

LiveSpec == Spec /\ Fairness

------------------------------------------------------------------------------
\* The types of the variables.
TypeOK ==
    /\ streamOpen \in BOOLEAN
    /\ position \in 0 .. LogEnd
    /\ pending \in Offsets \cup {None}
    /\ queue.waiting_list \in Seq(Offsets) /\ queue.last_offset \in Offsets
    /\ stored \in Offsets \cup {None} /\ committed \in Offsets
    /\ task \in [Offsets -> Tasks]
    /\ cache \in Seq([schema : Schemas, topic : Topics]) /\ Len(cache) <= CacheCapacity
    /\ registry \in [Schemas -> Topics]
    /\ reported \subseteq Offsets /\ acked \subseteq Offsets

Routed(o, i) == \E d \in published : d.offset = o /\ d.entry = i
Settled(o) ==
    IF IsBatch(o) THEN \A i \in 1..Len(Payload[o]) :
                          Routed(o, i) \/ (<<o, i>> \in lookupFailed /\ o \in reported)
                  ELSE o \in reported

\* End to end: once a restart may skip a message, each of its entries has
\* reached a topic, or its own lookup failed and the error topic was told -
\* whatever was aborted, redelivered or handled out of order before
\* (handle_message acknowledges last; KafkaAckQueue stores in order).
NothingSkipped ==
    \A o \in Offsets : o < committed \/ o <= stored \/ o \in acked => Settled(o)

\* An entry goes to a topic its schema has had, also when a lookup of another
\* task changes the cache in between (get_schema_topic).
RoutedBySchema == \A d \in published : d.topic \in everTopics[d.schema]

\* Neither a malformed message nor a failing lookup stops the router: when the
\* restarts end, the committed offset reaches the last message.
EverythingCommitted == <>[](committed = LogEnd - 1)

\* "CDL guarantees that messages with the same order_group_id will be processed
\* in the order they were send to CDL" (docs/features/message_ordering.md): no
\* entry of a message leaves before the earlier messages of its group are
\* settled.
GroupOrder ==
    \A o, q \in Offsets :
        o < q /\ Group[o] = Group[q] /\ Group[o] # NoGroup
              /\ (\E d \in published : d.offset = q)
        => Settled(o)
==============================================================================
