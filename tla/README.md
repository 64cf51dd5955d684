# A TLA+ model of the Common Data Layer

The Common Data Layer (CDL) takes JSON objects from message queues, looks up the
schema each belongs to, hands it to the command service of the schema's
repository, stores it there and serves it through query services and a GraphQL
API. This directory models the parts of it that decide whether data is lost,
misrouted, reordered or misreported, checks them with TLC on small instances and
proves their safety properties with TLAPS for every instance.

Paths below are relative to the repository (`crates/...`, `docs/...`).

## The system

| Component | State it keeps | Operations | Interacts through |
|---|---|---|---|
| Kafka consumer, ack queue (`crates/utils/src/messaging_system`) | per partition: stream position, `waiting_list`, `last_offset`, stored and committed offset | `consume`, `add`, `ack`, auto-commit, restart, rebalance | Kafka below, every service above |
| ParallelTaskQueue (`crates/utils/src/parallel_task_queue.rs`) | map from key to `LockQueue` (blocked flag, queue of Senders) | `acquire_permit`, `LockGuard::drop`, dropping the future | tasks of the data router and the command service |
| TaskLimiter (`crates/utils/src/task_limiter.rs`) | a semaphore | `run` | the loops of both services |
| Data router (`crates/data-router`) | running `handle_message` tasks, LRU cache of topics | receive, parse, look up, publish, report, ack | consumer, schema registry (gRPC), topics of the command services, error topic |
| Command service (`crates/command-service`) | running handlers of several consumers or of gRPC calls; the repository's rows or points | receive or call, build, store, report, ack or answer | consumers or gRPC, Postgres / Druid / Victoria Metrics, report topic |
| Schema registry (`crates/schema-registry`) | a graph of schemas, definitions, views in sled | add and update schema, add version, add and update view, queries, import, export | gRPC; replication topic |
| Replication, leader elector (`crates/schema-registry/src/replication`, `crates/leader-elector`) | role, stop channel and master channel of an instance; labels of the pods | `set_role`, `replicate_message`, `consume_mq`; heartbeat, removal, promotion, label | Kafka or AMQP; Kubernetes |
| Query router (`crates/query-router`) | cache of (address, type) of a schema | `get_schema_info`, four query handlers | schema registry, query services |
| Query services (`crates/query-service`, `crates/query-service-ts`) | none | queries by object, schema, range, raw | repositories |
| Shrinker (`crates/db-shrinker-postgres`) | the objects it still has to merge | merge the versions of an object | Postgres |
| GraphQL API (`crates/api`) | one event subscription per topic, shared by all clients | mutations, queries, subscriptions | all of the above |

What is hard in it:

* **Acknowledging out of order.** Messages of a partition are handled
  concurrently, Kafka keeps one offset. The ack queue decides which.
* **Death at any point.** Both services call `process::abort` when a send, a
  deserialization or an acknowledgement fails; recovery is redelivery from the
  committed offset, and everything done before is done again.
* **Redelivery within a process.** After a missed session timeout the partition
  comes back and offsets are delivered twice to a process whose first handlers
  are still running.
* **Permits handed over by a channel.** Between the `send` of the old holder and
  the poll of the new one a key has no `LockGuard`, and tasks may be dropped.
* **Caches filled over an await.** The lock is released during the RPC; the query
  router makes two of them for one entry.
* **Calls that are many operations.** A handler of the schema registry is up to a
  dozen operations of the store, each of which can fail or be the last before a
  crash, with readers and writers of other calls in between.
* **Two programs on one table.** The shrinker deletes and rewrites rows while the
  command service inserts and the query service reads.
* **A consumer shared by many clients.** It is created under a lock across an
  await, its channel overwrites what a slow client has not read, and it can end.
* **Roles given from outside.** The elector sees lost heartbeats, not dead masters,
  and gets an answer of what it did or none.
* **Several sources of truth.** What a report says, what the repository holds and
  what Kafka considers consumed are changed in different steps.

What makes each component correct:

* consumer: an offset is stored or committed only when everything before it was
  acknowledged; `ack` always finds its entry; the offset goes on;
* permits: one holder per key, first come first served, no forgotten waiter, no
  entry that outlives its use;
* data router: every entry of every message reaches the topic of its schema or is
  reported before the message is passed over; bad messages do not stop it;
* command service: a report precedes the passing of a message, and says
  `Success` only of what is stored; bounded queues; every call answered; progress;
* schema registry: what was answered is there, versions strictly increase, are
  readable and never change, a view has one schema, readers find whole records;
* replication: a slave passes over nothing it did not apply, a replay ends with the
  newest state, one labelled pod at most, and after faults one that answers again
  (which may be a slave whose container was restarted);
* query router: answers are from the right place, not older than the request, and a
  refusal has a reason;
* shrinker: nothing the command service wrote is lost, the newest version stays;
* API: a batch is published in order up to its first failure; one consumer per
  topic, no holes, nobody forgotten.

The hazards in the code, line by line, are listed in `PROJECT.json`.

## The modules

```
KafkaAckQueue  <- KafkaConsumer      <- UtilsProofs            (the crate utils)
               <- DataRouter         <- DataRouterProofs       (with SequenceFilter)
               <- CommandService     <- CommandServiceProofs
               <- Replication        <- ReplicationProofs
OrderedPermits <= ParallelTaskQueue  <- UtilsProofs            (with SequenceFilter)
SequenceFilter <- GraphqlApi         <- GraphqlApiProofs
SchemaRegistry                       <- SchemaRegistryProofs
Repository     <- QueryRouter        <- QueryRouterProofs      (with SequenceFilter)
                                     <- MCQueries              (with JsonMerge)
SequenceLemmas: shared by all the modules of proofs
MC<module>: the instance of <module> for TLC, one .cfg per question
```

**KafkaAckQueue** - `KafkaPartitionAckQueue` as operators on the record
`[waiting_list, last_offset]`. `QueueAdd` is `add`; `QueueAck`, `AckStores`,
`OffsetToStore` are the three things `ack` decides: which entry leaves, whether
an offset is stored, which one. `AckReturns` is its precondition: without an
entry the code panics or spins.

**KafkaConsumer** - the queue under its consumer. `Poll` is one item of the
stream of `consume()` (the offset is added before the message is yielded),
`Ack` the call from the task that handled the message, `Discard` a handler that
drops a message (as the replication slave of the schema registry does),
`AutoCommit` librdkafka's periodic commit of the stored offset, `Restart` a new
process on the committed offset, `Rebalance` the return of the partition to the
same process. The offset Kafka resumes at is the one the code stores, which is
that of the last acknowledged message, so that one message is always delivered
again; `committed` is this offset, and `LogEnd - 1` its final value. The
generation of a delivery is not in the code: it tells two deliveries of one
offset apart, which the queue does not.

**ParallelTaskQueue** - an action is one section under the mutex of the map, or
the await after it. A Sender in a queue is the task at its other end, `Dropped`
when the Receiver is gone. `Acquire` is `acquire_permit` up to its await with
`add_task`; `Resume` the return of the await; `Release` is `LockGuard::drop` with
all of `end_task` and the removal of the entry; `CancelWaiting` and
`CancelGranted` the drop of the future before and after the `send`. In the second
case nobody has the permit and the entry stays blocked: `lost` is the set of keys
this has happened to.

**OrderedPermits** - what the queue promises: a line per key, the first of a line
inside; a task may leave its line, and a permit may vanish with a task that was just
admitted (`Vanish`), after which nobody of that line gets in. `ParallelTaskQueue`
implements it under the mapping `Line`: those who have the permit, then the live
Senders.

**DataRouter** - the loop of `main`, up to `TaskLimit` instances of
`handle_message`, one input partition. The awaits are where tasks interleave, so
`get_schema_topic` is three steps (cache, RPC, insertion). `Receive` and `Spawn`
are the loop: a message enters the ack queue when it is taken from the stream and
waits for a permit of the semaphore. A failed lookup is the result of its entry
only; the error notification is sent once per message and the message is
acknowledged. A failed send kills the process, with or without effect at the
broker (`SendFails`). An error of the stream ends the stream and the loop
(`StreamFails`), after which the process exits and is started again.
A payload is the sequence of the schemas of its entries, or `Garbage`.

**CommandService** - one of several configurations (`Services`): the input, the
plugin, the task limit, whether reports are sent, the messages. On a queue it is the loop of
`MessageQueueInput::listen` over several consumers with one limiter, the handler, the
output plugin, the report, the ack; every error outside the plugin aborts. On gRPC
(`Insert`, `Reply`) a call runs the same handler at once and without a limit; what
aborts the process there is the answer here, and nothing is reported:
`FullReportSenderBase::new` does not return on gRPC (`unreachable!()`), so
`ConstantsAssumption` lets only a queue have reports. A message is its primary key and its
number of data points. For Postgres, the INSERT meets the primary key or not, or the
connection breaks with or without the row; for Victoria Metrics all points go in one
request; for Druid one by one.

In both services the loop builds the future of `acquire_permit` and binds it to
`_guard` without awaiting it. A Rust future does nothing until it is polled, so
the models have no step for it; see the findings.

**SchemaRegistry** - the graph of `SchemaDb` (`vertex`, `property`, `edges`,
`viewEdges`) and the calls on it. The operators named after the handlers
(`AddSchema`, `AddSchemaVersion`, `UpdateSchemaMetadata`, `AddViewToSchema`,
`UpdateView`, `ImportAll`) give the sequence of single operations of the store each
consists of; an action carries out the next operation of one call. The
indradb transaction on sled that `connect` returns makes no group of operations atomic,
so any two may be separated by another call, by an error of the store
(`StoreFails`, the `?` after every operation) or by a crash, after which the new
process begins with the export and the import on the store it finds. Writes that were carried out
survive a crash. `ensure_schema_exists` accepts a vertex of any type; the requests
the model enumerates name schemas where a schema is asked for.

Readers are calls like the others. Those that make several reads are sequences of
steps: the resolver of `definitions` in the API lists the versions and reads each by a
request of its own (`listed` is what it has yet to read), the API reads back what it
has updated (`readBack`), the query router's `lookup` reads two properties, the list of
schemas and the list of views read every vertex and fail over one that is not whole
(answer `malformed`). Handlers with a single read are the predicates `Versions`,
`Latest`, `HasDefinition`, `Complete` and `GetProperty`.

**Repository** - the Postgres table `data` and the programs on it: `Insert` is the
INSERT of the command service (again after a redelivery), `SelectIds`, `ReadRows`,
`Transaction`, `Fail` are the shrinker's `main` and `shrink_by_id`, `QueryMultiple`
and `QueryBySchema` the statements of the query service. Several shrinkers may overlap.
A statement is atomic, and so is the shrinker's transaction. The rows that
`get_all_with_id` returns in the order of their versions are a set here: the order is in
the rows, and `MinimizeDocument` folds `Merge` from the oldest to the newest. `folded` and `late` are
history: a row that arrives below a version some shrinker has read is deleted by that
shrinker without having been merged, since the DELETE goes by version; the objects this
can happen to are in `late`.

**JsonMerge** - `merge` of the shrinker as a recursive operator on trees, and a
reference definition (`IsMergeOf`) that says for every path which version decides it.
It is a parameter of `Repository`, so that nothing else depends on a recursive operator;
what `Repository` needs of it is `MergeAssumption`, which TLC evaluates with this `merge`
on every set of versions of the instance.

**QueryRouter** - extends `Repository`. A request looks up its schema in the LRU cache,
asks the registry for address and type by two calls on a miss, and calls the service at
that address: Postgres (the operators of `Repository`), Victoria Metrics or Druid (a set
of points, selected as the filters of their requests do). The registry's update of
address and type is two steps. `ApiObject`, `ApiObjects` and `ApiSchemaObjects` are the
requests the GraphQL API makes.

**GraphqlApi** - the stateful rest of the API: `insert_message` and `insert_batch`
publish one message after the other; `Subscribe`, `Created`, `CreationFails` are
`subscribe_on_message_queue` with the mutex of the map held across the creation of the
consumer; `Forward` is its task, `Receive` a client's `EventStream` on a broadcast
channel of fixed capacity. When the stream of the consumer ends the entry stays in the
map, because the future of `on_close` is dropped. The rest of CDL is one external action
(`Reported`). Nothing is acknowledged, so a restarted process reads from the start.

**Replication** - pods of a StatefulSet with `ReplicationState`, and the elector.
A pod starts as a slave: `Receive`, `Apply`, `Refused`, `StoreFails`, `Ack` are
`consume_mq` with `consume_message`, on the ack queue of `KafkaAckQueue`. `Promoted` is
`set_role` with what its `unwrap` does when the receiver of the stop channel is gone: the
panic poisons the mutex, and the next call aborts the process. The elector's loop is
`Heartbeat...`, `RemoveMasterInstance`, `Promote`, `Label`. The thread of a master ends at
once, with the receivers of both channels (see the findings), so `replicate_db_events` and
`send_messages_to_kafka` are not actions and the events on the topic are an external input
(`Publish`): a sequence of events of every kind and of payloads that cannot be read, in
any order, because the vertex of a schema is there before `add_schema` hands its event on
and the master would publish every event by a task of its own. The database of a pod is
reduced to one schema and one view: whether the vertex is there, who wrote its metadata
last (an event or a client), its greatest version, and the view. `CanApply` is what
`SchemaDb` refuses, `Effect` and `VertexOnly` what it leaves when it comes through or
fails half-way. Clients write to the same schema and view (`Requests`) in any role. A
client's write that fails half-way is in `SchemaRegistry`, not here, and so are
definitions that refer to other schemas. `applied` is a history of the events applied.

**SequenceFilter** - `OnlyIn(s, S)`, the entries of `s` that are in `S`: the cache
without a schema, the messages of one request on a topic, the live Senders of a queue. It
is what `SelectSeq` gives for that test; `SelectSeq` takes an operator, which the provers
cannot open, a recursive function they can.

**SequenceLemmas** - what the proofs share: what `Tail`, `RemoveAt`, `RemoveFirst`,
`FlattenSeq` and `OnlyIn` return; what is in a sequence, before a place in it and around
an entry of it; and
the ack queue, once for its four users: `QueueInv` with a lemma for each of `add`,
`ack`, commit, restart and rebalance, `QueueOrdered` where there is no rebalance.

## What TLC checks

| Run | Instance | Shows |
|---|---|---|
| `consumer` | 1 partition, 4 messages, 1 restart, 1 rebalance; 82 899 states | `AtLeastOnce`, `AckFindsEntry`, `DrainedIsStored`, `EventuallyCommitted` |
| `registry` | 3 calls out of 12 requests, writers and readers, on 2 schemas and 2 views, an import, 1 crash; 589 421 states | `AnsweredIsThere`, `VersionsReadable`, `ViewHasOneSchema`, `VersionsAreFixed`, `ReadersFindWhole` |
| `registry_versions` | 2 calls that add versions 2 and 3 to one schema | violation of `VersionsGrow` |
| `permits` | 3 tasks, 2 keys, every cancellation; 8 504 states | `MutualExclusion`, `NoLostWaiter`, `EntriesInUse`, `ImplementsOrderedPermits`, `WaitersProceed` |
| `router` | batch of two schemas, malformed message, single message; 2 tasks, cache of 1, 1 restart, 1 topic change; 252 423 states | `NothingSkipped`, `RoutedBySchema`, `EverythingCommitted` |
| `router_order` | 2 messages of one group, 2 tasks | violation of `GroupOrder` |
| `commands` | 8 services: a queue with Postgres or Victoria Metrics (limit 2) or Druid (limit 1) and reports, one without, gRPC with each plugin; equal primary keys, a series, a malformed message; 1 restart; 323 767 states | `PassedIsReported`, `SuccessMeansStored`, `QueuesAreBounded`, `EverythingCommitted`, `CallsAreAnswered` |
| `queries` | 3 versions of an object in 2 schemas, any number of inserts, failures and requests, 2 shrinkers, cache of 1, 3 repositories, 1 update of metadata; 895 916 states | `MergedIsComplete`, `NewestStays`, `AnswersAreRight`, `RefusedForAReason` |
| `subscriptions` | 2 clients, a batch whose last message cannot be read and a single message, a channel of 1, a consumer that may end, 1 restart; 542 728 states | `BatchIsPrefix`, `OneConsumer`, `NoGaps`, `CreatorSeesAll`, `Delivered` |
| `subscriptions_dead` | the same without a restart | violation of `StreamsAreLive` |
| `replication` | 2 pods, 5 events, of which an update and a version come before the `AddSchema`, 1 write, 1 fault anywhere; 1 033 852 states | `NotSkipped`, `ReplayConverges`, `OneMasterLabel`, `ServiceRecovers` |
| `replication_writes` | 2 pods, no fault, 1 write | violation of `WritesReachReplicas` |

What the less obvious properties say:

* `ReadersFindWhole` - a query that lists and then reads never stumbles over what
  another call is writing, with one exception that the code has: `get_all_schemas`
  fails while a schema is being created, or was left half created.
* `QueuesAreBounded` - the messages that wait for an acknowledgement, over all consumers
  together (`Waiting`), are at most one more than the task limit: the semaphore bounds
  memory too.
* `SuccessMeansStored` is stated of Postgres and Victoria Metrics; Druid's plugin answers
  `Success` whatever its sends returned.
* `NoLostWaiter`, `EntriesInUse`, `WaitersProceed` except the keys in `lost`.
* `MergedIsComplete` - what is left in the table merges to what all versions ever
  stored say together, for objects without a late row; `NewestStays` has no exception.
* `AnswersAreRight` compares an answer with the newest rows at the time the request came:
  it is complete, has no outdated row and no row of something else.
* `TypeOK` (`ConsumerTypeOK` in the consumer) is checked where the run's cfg lists it; those of `CommandService`,
  `QueryRouter` and `Replication` hold in the same instances and are left out of the runs,
  whose other properties say more.
* `NoGaps` - a client sees a contiguous segment of the report topic: one that is
  overtaken gets an error and no later item. The capacity of 1 stands for the 32 of the
  code; three reports with a payload are the fewest that can show a hole.
* `ReplayConverges` - a slave that has read to the end since its start, without a
  failing store, has the last of the updates that are behind an `AddSchema`, or what a
  client of the instance wrote over it, although a replay takes it through old ones, and
  lacks no version behind one that is greater than all it has. An update or a version
  that overtook its `AddSchema` is refused, and there only if a restart reads it again;
  `NotSkipped` - what a restart will not read again has been applied.
* `ServiceRecovers` - after the last fault some labelled pod answers for ever.

**Bounds.** Four messages are the fewest for which the head of the queue, a
middle entry and the last offset differ while one more is to come; a rebalance
then repeats up to all of them. One restart is enough for everything a restart can
break, because it erases the process: what survives it (`committed`, the
repository, the topics) is what a second one would start from as well.
The `committed` position that a second restart would resume from is checked in
every state by `AtLeastOnce`, `NothingSkipped` and `PassedIsReported`. Three tasks
make a holder, a dropped Sender and a waiter behind it possible on one key while
the other is used. A cache of one entry with two schemas evicts on every change of
schema, in the data router and in the query router. Three calls are a writer, a rival on the same id and a reader or reference to
what they write; the crash may cut the import or any of them. The calls are
interchangeable, so `registry` uses symmetry on them (its properties are safety
properties). `MaxQueue` only keeps dropped Senders from piling up; the proofs have no
bound. The three versions in `queries` are an object, a scalar in its place and an
object again, so that every order of merging tells; the shrinkers are interchangeable
there (safety properties only). Two pods are a master and its successor. With two
faults, `Replication` has been explored for a topic of four events and three requests
(7 279 564 states under symmetry, for the invariants) and, on one pod, for eight events of
every kind and six requests (1 262 692 states, all properties), without another result;
one fault keeps `replication` short. Runs switch deadlock checking off where the system may
really stop, at the end of the log or when a bound on restarts is used up; `queries`,
`subscriptions` and `replication` check it.

**Fairness.** Weak fairness of the loop, of every spawned task and of a woken
waiter: tokio polls a task that was woken, and every await in a handler ends (a
send has a timeout of 5 s; that a gRPC call or a query gets an answer or an error
is assumed of the network, the code sets no timeout on it). Weak fairness of
the auto-commit, which librdkafka does on a timer. In the command service a single
weak fairness of all steps of the process together is enough, because its logs are
finite: no assumption is made on the order in which `select_all` and the scheduler
serve the consumers. `Restart` is fair only in the data router after its stream has
ended, where the process exits by itself, and of a container under a kubelet. In
`GraphqlApi`, the forwarding task, the clients' streams and the creation of a consumer
(which may fail) are fair; in `Replication` the slave's task, the end of the thread and
the elector's loop. No fairness for failures, lost answers or heartbeats, and none for
`Acquire`, cancellations, clients, writes or topic changes. `EventuallyCommitted`
excepts the partitions in which a message was dropped without ack, which keep their
offset; `EverythingCommitted` of the command service the logs with a malformed message,
which it meets again after every restart.

## What is proved

With TLAPS, for every value of the constants that satisfies the ASSUMEs of the
component modules, 37 theorems (and `Invariant` of `QueryRouterProofs`, which its others
rest on). Besides types and natural bounds the ASSUMEs say:

* `CommandService`: every log has a message, as a restart resumes at one.
* `GraphqlApi`: the broadcast channel has room for an item (`broadcast::channel`
  panics otherwise).
* `SchemaRegistry`: ids of definitions are not ids of schemas or views (they are fresh
  UUIDs), and the requests write and look up properties that their vertex type has.
* `Repository`: `MergeAssumption`, a claim about the function `merge` alone: the documents
  of an object, folded from the oldest to the newest, make what `IsMergeOf` says of them.
  Only `MergedIsCompleteHolds` uses it.
* `QueryRouter`: requests name schemas the registry knows, and a schema is created with
  the address of a service of its kind.
* model values that stand for "nobody", "nothing" or "dropped" are not ordinary ones.

Each theorem `XHolds` is `Spec => []X` of the property `X` that the run checks, an action
property included; `TypeCorrect` is `Spec => []TypeOK` (`ConsumerTypeCorrect` and
`ConsumerTypeOK` in `KafkaConsumer`). The `TypeOK` of `CommandService`, `Replication` and
`QueryRouter` is listed by no run. The inductive invariant of each proof is called `IInv`
(`ConsumerIInv` for the consumer).

**KafkaConsumer** - `ConsumerTypeCorrect`, `AtLeastOnceHolds`, `AckFindsEntryHolds`,
`DrainedIsStoredHolds`; any partitions, log length, restarts, rebalances.
`AtLeastOnce` says nothing of the queue, so it is not inductive. `QueueInv` adds:
everything before an entry is acknowledged *or waits in front of it*
(`EntriesCovered`); everything before the position of the stream is acknowledged or
waits; while something waits, the same holds up to `last_offset`. "The list is sorted"
would be simpler and is false: a rebalance appends small offsets behind large ones. From
`EntriesCovered` it follows that when the head is acknowledged, all below the second
entry is acknowledged, which is what `ack` stores; with an empty rest, the bound
on `last_offset` is what it needs. `AckFindsEntry` counts, so it is inductive with the
finiteness of the deliveries in flight: `RemoveFirst` takes away one entry for the one
delivery that ends. `DrainedIsStored` needs what `last_offset` is (`DInv`): the offset
before the position of the stream, as soon as anything was delivered since the last restart
or rebalance. That the stored offset only grows is not a property of the code: after a
rebalance the queue may be `[1,2,3,0]`, and the acknowledgement of 3 stores an offset below
the one of 2. `AtLeastOnce` and `DrainedIsStored` hold all the same, and `AutoCommit` never
takes the committed offset back.

**ParallelTaskQueue** - `TypeCorrect`, `MutualExclusionHolds`, `NoLostWaiterHolds`,
`EntriesInUseHolds`, `ImplementsSafety`; any tasks and keys, every cancellation.
The invariant on (queues, blocked keys, holders, waiters, keys of tasks) says that
live Senders belong to waiting tasks of that key (`Sound`), at most once (`Distinct`)
and always (`Queued`), and that a holder blocks its key alone and an unblocked key has no
queue (`Exclusive`). `Distinct` and `Sound` are needed for the hand-over: the task that
`end_task` sends to must not hold anything yet and must not stay in the queue. `Lost` - the
keys in `lost` are the blocked ones without a holder - is what the others need: only the
drop of a granted task takes a holder away without handing the permit on.

`ImplementsSafety` is `Spec => Abstract!Safety`: under the mapping `Line`, every action is
one step of `OrderedPermits` (`AcquireJoins`, `ResumeEnters`, `ReleaseLeaves`,
`CancelWaitingGivesUp`, `CancelGrantedVanishes`). `Exclusive` makes the part of a line in
front of the queue a single task; what an action does to a queue is then carried over to
its live Senders, each time for the line of one key, the others staying as they are:
`Append` stays `Append`; popping dead Senders up to a live one is `Tail` of the line,
where the live one was second; and a Sender that goes dead is `RemoveFirst`, since
`Distinct` leaves it only one place.

**DataRouter** - `TypeCorrect`, `NothingSkippedHolds`, `RoutedBySchemaHolds`; any
payloads, limits, cache size, restarts, topic changes.
`QueueInv` says that what is below the stored offset is acknowledged, so that it is left
to show that what is acknowledged is settled. `TaskInv` follows `handle_message` to the
ack: at entry *i* of a batch the entries before it were published or failed and are going
to be reported. `TopicInv` is what makes the route right in spite of a stale cache: the
cache, an answer of the registry and a delivery only hold topics the schema has had.
`LoopInv` ties the message in hand to the position, so that it has no task yet.

**CommandService** - `TypeCorrect`, `PassedIsReportedHolds`, `SuccessMeansStoredHolds`,
`QueuesAreBoundedHolds`; any services, consumers, logs, task limits.
`QInv` is the queue of each consumer (in order, for it has no rebalance here), `TaskInv`
what a handler has done by each step, in particular that a status `Success` of Postgres
or Victoria Metrics is given after everything is stored. The bound rests on
`LimitInv`: every waiting offset belongs to a running handler or is the message in hand.
The list of a consumer has no duplicates (`QueueOrdered`), so that the pairs (consumer,
place) inject into the running tasks and one more.

**GraphqlApi** - `TypeCorrect`, `BatchIsPrefixHolds`, `OneConsumerHolds`, `NoGapsHolds`,
`CreatorSeesAllHolds`; any clients, batches, capacity, reports, restarts.
`InsertInv`: a request that is sending has sent the messages before its next one; after
an error it has sent some first part, since the broker may have the message whose send
failed. `LockInv`: the client that creates the consumer has the mutex and there is no
entry, without which two clients could both be creating. `ConsumerInv`: the channel holds
the reports from the first one on, at its end perhaps the error of the stream. `StreamInv`:
what a client was shown are the reports between where it came in and its position.

**Replication** - `TypeCorrect`, `NotSkippedHolds`, `ReplayConvergesHolds`,
`OneMasterLabelHolds`; any pods, topics in any order, requests, faults.
`SlaveInv` is `QueueInv` with "applied" for "acknowledged". `Mark` says what an event
leaves in the database, as itself or overwritten by a later writer. A replay takes the
database back to old updates, so that marks are not stable; they are for the events the
process has passed, and only these count (`Done`, `Grows`), because a schema that has any
mark is not added a second time. `ReplayInv`: without a failing store, everything behind
an `AddSchema` and before the next event has its mark (`Kept`): an `AddSchema` leaves the
vertex or was refused because of it, and with the vertex an update is not refused and a
version only where there is one that is no smaller. `LabelInv`: while the elector
promotes, no pod has the label, because the old master's was removed or its pod is gone.

**SchemaRegistry** - `TypeCorrect`, `AnsweredIsThereHolds`, `VersionsReadableHolds`,
`ViewHasOneSchemaHolds`, `VersionsAreFixedHolds`, `ReadersFindWholeHolds`; any ids,
requests, number of concurrent calls, crashes.
The first part is about programs alone: in what a handler does, every operation is in its
place after those before it (`May`, `Fine`), and the whole achieves what was asked
(`Achieves`). The second part is about the graph, with calls in each other's way. What a
running call has done is there (`DoneInv`), because no call undoes anything. A vertex has
one maker (`OwnInv`), so that nobody but its maker leads an edge to it (`FreshInv`); the
maker does so last, and therefore edges lead to whole vertices (`EdgeInv`), which is what
readers rely on. `ViewHasOneSchema` and `VersionsAreFixed` follow from the same three: an
edge to a vertex is drawn, and its version set, once. `FirstRun` and `Origin` say where a
schema that is not whole comes from: a creation that was interrupted, the exception in
`ReadersFindWhole`. `ListedInv` keeps what a reader has listed. One lemma covers all
writes (`StepIInv`), as `Step` and `Grow` say all that they have in common; `StartIInv`,
`FinishIInv`, `CrashIInv` the rest.

**QueryRouter with Repository** - `TypeCorrect`, `SameMergeHolds`, `MergedIsCompleteHolds`,
`NewestStaysHolds`, `AnswersAreRightHolds`, `RefusedForAReasonHolds`; any messages, number
of overlapping shrinkers and of requests, services, cache capacity.
That the rows left of an object merge to the right document is not inductive: it does not
say which row a shrinker that has already read will overwrite. `Represents(T, S)` does: of
all rows `S` of an object, the rows `T` that are left have as their oldest the merge of
everything up to its version, and after that every row of `S` as it was. `SameUpTo` derives
that both merge to the same up to every row of `T`, by the least version for which they do
not; it needs nothing of `merge`, so `SameMergeHolds` is about every merge. An insert above
the oldest row keeps `Represents` and so does a transaction, provided that what it writes is
the merge of `S` up to its version (`DocumentInv`) and that this version is not behind
what another shrinker has deleted, which `ReadInv` says: the greatest version any shrinker
has read is still there, or nobody has read the object. Late rows break `Represents`, and for
them nothing is claimed but `NewestStays`, which needs only that a shrinker in its
transaction leaves a row at least as new as those it read (`ShrinkerInv`).

A step of the repository keeps every row or a newer one of its object (`TableKeeps`).
Therefore the newest rows a request met when it came in are outdated or still there when
the query runs (`KeptIn`), from which every handler's answer is right (`HandleIsSound`).
Answers stay right because rows that are stored later only add excuses (`RightMono`). For
refusals, `UpdateInv` says what the pair is between the two writes of an update: no update
brings the first pair of a schema back, so that "unchanged" now means unchanged at both
lookups; until then an address in hand, a pair in hand and every entry of the cache
(`Fitting`) are the registry's.

Only model-checked:

* liveness, which is out of reach of the proof system: `EventuallyCommitted`,
  `WaitersProceed`, `EverythingCommitted`, `CallsAreAnswered`, `Delivered`,
  `ServiceRecovers`;
* the fairness in `ImplementsOrderedPermits`: that whoever is first in an open line gets
  in. The rest of it is `ImplementsSafety`;
* what `merge` computes (a recursive operator): `MergeAssumption`, on the documents of
  `queries`.

The theorems of the library on induction over data cannot be used, as no prover
instantiates their operator parameter. Where a fact about a recursive function is needed
(`FlattenSeq`, `OnlyIn`, `MinimizeDocument`) it is proved from a least counterexample.

## What the checks found

* **Order groups are not ordered** (`router_order`).
  `docs/features/message_ordering.md:63` guarantees that messages with the same
  `order_group_id` are processed in order. `_guard` in the loops of the data
  router (`main.rs:105`) and of the command service (`message_queue.rs:113`) is a
  future that is never polled. Messages of a group run concurrently as soon as the
  task limit is above one.
* **Versions of a schema do not always grow** (`registry_versions`). The check against
  the greatest version (`db.rs:285`) and the edge with the new one are several
  operations apart, so two calls can both pass;
  `crates/schema-registry/README.md:15` says a new version is strictly larger than
  any other.
* **Nothing is replicated** (`replication_writes`). `docs/schema_registry.md:5` says
  replication is supported. `replicate_db_events` is async, and the closure of
  `thread::spawn` (`replication/mod.rs:117`) returns its future instead of running it.
* **A finished subscription is not recreated** (`subscriptions_dead`), against the
  comment at `crates/api/src/schema/context.rs:58`: the future of `on_close`
  (`events.rs:81`) is dropped. Later subscribers wait for ever.

Observed, where no document promises otherwise:

* Druid's plugin drops the results of its sends, so `Success` is reported of points that
  were not sent.
* The offset stored is that of the last message acknowledged rather than of the next, so
  the last message always comes again. On Postgres it meets its own row and is reported as
  a failure after it was reported as stored. A replication slave refuses an `AddSchema`
  or an `AddSchemaVersion` it has applied, and does not move its offset again.
* A replicated update or version that overtakes its `AddSchema` is refused and logged; a
  slave applies it only when a restart makes it read the topic again.
* A crash in the middle of the import leaves it partial for good, since a later start
  skips it; a crash between the first vertex and its name makes every later import fail
  with `DuplicatedUuid`, so the process no longer starts with that file.
* One schema whose creation was interrupted makes `get_all_schemas` fail for everybody,
  and an export at start-up too.
* `update_schema_metadata` with an invalid type returns an error after it has written the
  other fields, and its replication event never carries the type.
* The shrinker deletes a late row without merging it.
* `query_multiple` does not look at the type of the schema; a torn pair of address and
  type can be cached until it is evicted; Victoria Metrics is asked by object alone, so a
  range query may return points of another schema.
* A gRPC `insert` is answered with Ok whatever the resolution was.
* A task dropped between the `send` of `end_task` and its next poll takes the permit with
  it, and the key stays blocked. No caller does it.

## Not modelled

* AMQP: each delivery is acknowledged by itself; no state here.
* `replicate_db_events` and `send_messages_to_kafka`: never executed.
* Resolvers of the API that forward a single request, generated gRPC stubs and
  connects: what they do is the action of the service behind them.
* Time ranges, steps and response texts of the time series services, the content of
  definitions and the validation of values, raw statements (only where they go).
* How the topic metadata fetcher asks the broker: `CheckTopic` has either answer.
* Metrics, status endpoints, argument parsing, the command line client (one request per
  invocation), the web site, the benchmarks.

The wording of messages, reports and errors is left out throughout.

## Plan

1. *Done:* `KafkaAckQueue`, `KafkaConsumer`, `ParallelTaskQueue` with
   `OrderedPermits`, `DataRouter`, `CommandService` with both inputs, `SchemaRegistry`
   with its readers, `Repository`, `QueryRouter`, `GraphqlApi`, `Replication`; all the
   safety properties of the runs proved, and the refinement of `OrderedPermits` but for
   its fairness.
2. The registry's abstract specification: a map from schema to versions, changed by
   whole calls, and the order of calls under which the detailed one implements it.

## Running

`tlc -config X.cfg M` for a run of `PROJECT.json`, `tlapm M.tla` for
`SequenceLemmas` and the seven modules whose names end in `Proofs`.
