---------------------------- MODULE CommandService ---------------------------
(***************************************************************************)
(* The command service (crates/command-service).  On a message queue: the  *)
(* loop of MessageQueueInput::listen over several consumers, the handling  *)
(* of a message (build_message, MessageRouter::handle_message with one of  *)
(* the output plugins, the status report, ack), the abort of the process   *)
(* on every error, and the redelivery that follows.  On gRPC: one call per *)
(* message, without a limit, answered with an error where the other aborts.*)
(*                                                                         *)
(* The order-group guard of listen() has no step here, as in DataRouter:   *)
(* its future is never polled.  The payload of a message is abstracted to  *)
(* its primary key (object, version) and the number of data points it      *)
(* holds for the time-series plugins.                                      *)
(***************************************************************************)
EXTENDS KafkaAckQueue

CONSTANTS Sources,        \* the consumers: ordered and unordered topics
          Services,       \* configurations: input, output plugin, --task-limit,
                          \* whether reports are sent, and the messages that come
          NoMessage,      \* no message is pending
          Malformed,      \* a message build_message cannot deserialize
          MaxRestarts     \* bound on deaths of the process

NotSeries == -1           \* points of a payload that is no valid time series

OffsetsOf(log, src) == 0 .. Len(log[src]) - 1
Ids == UNION {{[source |-> src, offset |-> o] : o \in OffsetsOf(s.log, src)} :
                 src \in Sources, s \in Services}

ASSUME ConstantsAssumption ==
    /\ \A s \in Services :
         /\ s.input \in {"queue", "grpc"}
         /\ s.plugin \in {"postgres", "druid", "victoria"}
         /\ s.limit \in Nat \ {0}
         /\ s.report \in BOOLEAN
         /\ s.report => s.input = "queue"   \* FullReportSenderBase::new: unreachable!() on gRPC
         /\ \A src \in Sources : Len(s.log[src]) \in Nat \ {0} /\ \A o \in OffsetsOf(s.log, src) :
               s.log[src][o + 1] = Malformed
               \/ /\ s.log[src][o + 1].version \in Nat
                  /\ s.log[src][o + 1].points \in Nat \cup {NotSeries}
    /\ NoMessage \notin Ids
    /\ MaxRestarts \in Nat

None == -1

VARIABLES config,     \* the configured service, the same after a restart
          position, queue, stored, committed,   \* per source, as in KafkaConsumer
          pending,    \* the message for which the loop awaits a permit, or NoMessage
          task,       \* task[m]: the running handler of message m
          data,       \* the repository: pairs of a message and the part of it stored
          reports,    \* status reports in the report topic
          acked,      \* history: messages acknowledged
          reply,      \* the answer to the gRPC call with message m
          restarts

process == <<position, queue, stored, pending, task>>
vars == <<config, process, committed, data, reports, acked, reply, restarts>>

Resolutions == {"Success", "StorageLayerFailure", "CommandServiceFailure", "UserFailure"}
Steps == {"none", "build", "store", "report", "ack"}
Tasks == [step : Steps, sent : Nat, status : Resolutions \cup {"none"}]
NoTask == [step |-> "none", sent |-> 0, status |-> "none"]

Log == config.log
Offsets(src) == OffsetsOf(Log, src)
Msg(m) == Log[m.source][m.offset + 1]
Key(m) == <<Msg(m).object, Msg(m).version>>
OnQueue == config.input = "queue"
TaskLimit == config.limit
ReportEnabled == config.report     \* ReportSender::Full, else Disabled

Running == {m \in Ids : task[m].step # "none"}

\* The parts of a message its plugin stores: one row, or a point per line.
Parts(m) == IF config.plugin = "postgres" THEN {1} ELSE 1..Msg(m).points
Complete(m) == \A i \in Parts(m) : <<m, i>> \in data

FreshProcess(from) ==
    /\ position' = from
    /\ queue' = [src \in Sources |-> NewQueue]
    /\ stored' = [src \in Sources |-> None]
    /\ pending' = NoMessage
    /\ task' = [m \in Ids |-> NoTask]

Init ==
    /\ config \in Services
    /\ position = [src \in Sources |-> 0]
    /\ queue = [src \in Sources |-> NewQueue]
    /\ stored = [src \in Sources |-> None]
    /\ committed = [src \in Sources |-> 0]
    /\ pending = NoMessage
    /\ task = [m \in Ids |-> NoTask]
    /\ data = {} /\ reports = {} /\ acked = {}
    /\ reply = [m \in Ids |-> "none"]
    /\ restarts = 0

------------------------------------------------------------------------------
(* The loop of listen(). *)

\* The merged stream (select_all) yields the next message of one consumer.
Receive(src) ==
    /\ OnQueue /\ pending = NoMessage
    /\ position[src] \in Offsets(src)
    /\ queue' = [queue EXCEPT ![src] = QueueAdd(@, position[src])]
    /\ pending' = [source |-> src, offset |-> position[src]]
    /\ position' = [position EXCEPT ![src] = @ + 1]
    /\ UNCHANGED <<config, stored, task, committed, data, reports, acked, reply, restarts>>

\* TaskLimiter::run; one limiter for all consumers.
SpawnAtOnce ==     \* bug: the permit is not awaited
    /\ pending # NoMessage
    /\ task' = [task EXCEPT ![pending].step = "build"]
    /\ pending' = NoMessage
    /\ UNCHANGED <<config, position, queue, stored, committed, data, reports, acked, reply,
                   restarts>>
Spawn ==
    /\ pending # NoMessage
    /\ Cardinality(Running) < TaskLimit
    /\ task' = [task EXCEPT ![pending].step = "build"]
    /\ pending' = NoMessage
    /\ UNCHANGED <<config, position, queue, stored, committed, data, reports, acked, reply,
                   restarts>>

\* GRPCInput::insert is called: the handler runs at once.
Insert(m) ==
    /\ ~ OnQueue
    /\ m.offset \in Offsets(m.source)
    /\ m \notin Running /\ reply[m] = "none"
    /\ task' = [task EXCEPT ![m].step = "build"]
    /\ UNCHANGED <<config, position, queue, stored, pending, committed, data, reports, acked,
                   reply, restarts>>

\* process::abort or a crash, and the start of a new process.  The callers of
\* running calls see the connection break.
Die ==
    /\ restarts < MaxRestarts
    /\ restarts' = restarts + 1
    /\ FreshProcess(committed)
    /\ reply' = [m \in Ids |-> IF ~ OnQueue /\ m \in Running THEN "error" ELSE reply[m]]
    /\ UNCHANGED config

\* A crash, or an error of a stream, which aborts.
Restart == Die /\ UNCHANGED <<committed, data, reports, acked>>

------------------------------------------------------------------------------
(* handle_message of message m. *)

TaskStep(m, step) == m \in Ids /\ task[m].step = step
SetTask(m, t) == task' = [task EXCEPT ![m] = t]
NoLoop ==
    UNCHANGED <<config, position, queue, stored, pending, committed, acked, reply, restarts>>

\* The handler of a gRPC call returns, Ok or Err.
Reply(m, answer) ==
    /\ SetTask(m, NoTask)
    /\ reply' = [reply EXCEPT ![m] = answer]
    /\ UNCHANGED <<config, position, queue, stored, pending, committed, acked, restarts>>

\* build_message; an error aborts the process, as every error in the handler,
\* and is the answer on gRPC.
Build(m) ==
    /\ TaskStep(m, "build")
    /\ \/ /\ Msg(m) # Malformed
          /\ SetTask(m, [task[m] EXCEPT !.step = "store"])
          /\ NoLoop
       \/ /\ Msg(m) = Malformed /\ OnQueue
          /\ Die
          /\ UNCHANGED <<committed, acked>>
       \/ /\ Msg(m) = Malformed /\ ~ OnQueue
          /\ Reply(m, "error")
    /\ UNCHANGED <<data, reports>>

\* The plugin is done; MessageRouter reports every status.
Resolved(m, status) == SetTask(m, [step |-> "report", sent |-> 0, status |-> status])

Storing(m, kind) == config.plugin = kind /\ TaskStep(m, "store")
KeyTaken(m) == \E d \in data : Key(d[1]) = Key(m)

\* PostgresOutputPlugin: no connection from the pool.
PgNoConnection(m) ==
    /\ Storing(m, "postgres")
    /\ Resolved(m, "CommandServiceFailure")
    /\ NoLoop /\ UNCHANGED <<data, reports>>

\* PostgresOutputPlugin: the INSERT, with the primary key (object_id, version).
PgUpsert(m) ==       \* bug: ON CONFLICT DO NOTHING, counted as stored
    /\ Storing(m, "postgres")
    /\ data' = IF KeyTaken(m) THEN data ELSE data \cup {<<m, 1>>}
    /\ Resolved(m, "Success")
    /\ NoLoop /\ UNCHANGED reports
PgInsert(m) ==
    /\ Storing(m, "postgres")
    /\ \/ /\ ~ KeyTaken(m)
          /\ data' = data \cup {<<m, 1>>}
          /\ Resolved(m, "Success")
       \/ /\ KeyTaken(m)
          /\ Resolved(m, "StorageLayerFailure")
          /\ UNCHANGED data
    /\ NoLoop /\ UNCHANGED reports

\* PostgresOutputPlugin: the connection breaks; the row may have been written.
PgFails(m) ==
    /\ Storing(m, "postgres")
    /\ data' \in {data} \cup IF KeyTaken(m) THEN {} ELSE {data \cup {<<m, 1>>}}
    /\ Resolved(m, "StorageLayerFailure")
    /\ NoLoop /\ UNCHANGED reports

\* DruidOutputPlugin and VictoriaMetricsOutputPlugin: no valid time series.
RejectSeries(m) ==
    /\ config.plugin # "postgres" /\ TaskStep(m, "store")
    /\ Msg(m).points = NotSeries
    /\ Resolved(m, "UserFailure")
    /\ NoLoop /\ UNCHANGED <<data, reports>>

\* DruidOutputPlugin: the records are sent one after the other; each result is
\* collected and dropped, and the resolution is Success.
DruidSend(m) ==
    /\ Storing(m, "druid")
    /\ task[m].sent < Msg(m).points
    /\ SetTask(m, [task[m] EXCEPT !.sent = @ + 1])
    /\ data' \in {data, data \cup {<<m, task[m].sent + 1>>}}
    /\ NoLoop /\ UNCHANGED reports
DruidDone(m) ==
    /\ Storing(m, "druid")
    /\ task[m].sent = Msg(m).points
    /\ Resolved(m, "Success")
    /\ NoLoop /\ UNCHANGED <<data, reports>>

\* VictoriaMetricsOutputPlugin: all lines in one POST, which is accepted,
\* refused, or lost with or without effect.
VmAccepts(m) ==
    /\ Storing(m, "victoria") /\ Msg(m).points # NotSeries
    /\ data' = data \cup {<<m, i>> : i \in Parts(m)}
    /\ Resolved(m, "Success")
    /\ NoLoop /\ UNCHANGED reports
VmRefuses(m) ==
    /\ Storing(m, "victoria") /\ Msg(m).points # NotSeries
    /\ Resolved(m, "StorageLayerFailure")
    /\ NoLoop /\ UNCHANGED <<data, reports>>
VmLost(m) ==
    /\ Storing(m, "victoria") /\ Msg(m).points # NotSeries
    /\ data' \in {data, data \cup {<<m, i>> : i \in Parts(m)}}
    /\ Resolved(m, "CommandServiceFailure")
    /\ NoLoop /\ UNCHANGED reports

\* Reporter::report: published, or nothing at all when reports are disabled, as
\* they are on gRPC.  A call is then answered with Ok, whatever the status is.
ReportThenAck(m) ==     \* bug: the message of a call is acknowledged too
    /\ TaskStep(m, "report")
    /\ reports' = IF ReportEnabled THEN reports \cup {<<m, task[m].status>>} ELSE reports
    /\ SetTask(m, [task[m] EXCEPT !.step = "ack"]) /\ NoLoop
    /\ UNCHANGED data
Report(m) ==
    /\ TaskStep(m, "report")
    /\ reports' = IF ReportEnabled THEN reports \cup {<<m, task[m].status>>} ELSE reports
    /\ \/ OnQueue /\ SetTask(m, [task[m] EXCEPT !.step = "ack"]) /\ NoLoop
       \/ ~ OnQueue /\ Reply(m, "ok")
    /\ UNCHANGED data

\* A report that is not confirmed aborts; it may have been published.
ReportFailsQuietly(m) ==     \* bug: the error is logged and the message acked
    /\ ReportEnabled /\ TaskStep(m, "report")
    /\ reports' \in {reports, reports \cup {<<m, task[m].status>>}}
    /\ SetTask(m, [task[m] EXCEPT !.step = "ack"]) /\ NoLoop
    /\ UNCHANGED data
ReportFails(m) ==
    /\ ReportEnabled /\ TaskStep(m, "report")
    /\ reports' \in {reports, reports \cup {<<m, task[m].status>>}}
    /\ Die
    /\ UNCHANGED <<committed, acked, data>>

\* message.ack(), through the ack queue of the message's own consumer.
Ack(m) ==
    LET src == m.source IN
    /\ TaskStep(m, "ack")
    /\ AckReturns(queue[src], m.offset)
    /\ stored' = IF AckStores(queue[src], m.offset)
                   THEN [stored EXCEPT ![src] = OffsetToStore(queue[src], m.offset)]
                   ELSE stored
    /\ queue' = [queue EXCEPT ![src] = QueueAck(@, m.offset)]
    /\ SetTask(m, NoTask)
    /\ acked' = acked \cup {m}
    /\ UNCHANGED <<config, position, pending, committed, data, reports, reply, restarts>>

\* librdkafka commits the stored offset of a consumer.
AutoCommit(src) ==
    /\ stored[src] > committed[src]
    /\ committed' = [committed EXCEPT ![src] = stored[src]]
    /\ UNCHANGED <<config, process, data, reports, acked, reply, restarts>>

Store(m) ==
    \/ PgNoConnection(m) \/ PgInsert(m) \/ PgFails(m)
    \/ RejectSeries(m) \/ DruidSend(m) \/ DruidDone(m)
    \/ VmAccepts(m) \/ VmRefuses(m) \/ VmLost(m)

Handle(m) == Build(m) \/ Store(m) \/ Report(m) \/ Ack(m)

Next ==
    \/ \E src \in Sources : Receive(src) \/ AutoCommit(src)
    \/ Spawn \/ Restart
    \/ \E m \in Ids : Insert(m) \/ Handle(m) \/ ReportFails(m)

Spec == Init /\ [][Next]_vars

\* What the process does by itself: the runtime polls the loop and the spawned
\* tasks, librdkafka commits on a timer.  No step is repeated, so it is enough
\* that the process does not stop while it can go on.
Progress ==
    \/ Spawn \/ \E src \in Sources : Receive(src) \/ AutoCommit(src)
    \/ \E m \in Ids : Handle(m)

LiveSpec == Spec /\ WF_vars(Progress)

------------------------------------------------------------------------------
\* The types of the variables.
TypeOK ==
    /\ config \in Services
    /\ \A src \in Sources :
         /\ position[src] \in 0 .. Len(Log[src])
         /\ queue[src].waiting_list \in Seq(Offsets(src))
         /\ stored[src] \in Offsets(src) \cup {None}
         /\ committed[src] \in Offsets(src)
    /\ pending \in Ids \cup {NoMessage}
    /\ task \in [Ids -> Tasks]
    /\ data \subseteq Ids \X Nat
    /\ reports \subseteq Ids \X Resolutions
    /\ acked \subseteq Ids
    /\ reply \in [Ids -> {"none", "ok", "error"}]
    /\ restarts \in 0 .. MaxRestarts

\* A restart will not see m again, or need not.
Passed(m) == m \in acked \/ m.offset < committed[m.source] \/ m.offset <= stored[m.source]

\* A message of a queue is passed over only after its resolution was reported,
\* where reports are sent, also when the repository was down; a malformed one
\* never is, so it is never lost, and what came after it is not committed either
\* (MessageQueueInput::handle_message: the report comes before the ack, and every
\* error aborts before it).
PassedIsReported ==
    \A m \in Ids : Passed(m) =>
        /\ Msg(m) # Malformed
        /\ ReportEnabled => \E status \in Resolutions : <<m, status>> \in reports

\* "Reports inform clients about the resolution on `object` level - if data sent
\* to `MQ` has been processed by CDL and stored in DB or rejected"
\* (docs/rfc/CDLF-0000C-00-rfc-01.md): what is reported as stored is stored.  The
\* Druid plugin does not look at the results of its sends and is left out.
SuccessMeansStored ==
    config.plugin # "druid" => \A m \in Ids : <<m, "Success">> \in reports => Complete(m)

\* One limit for all consumers: their ack queues together hold no more than the
\* running handlers and the message the loop has in hand.
Waiting == UNION {{src} \X (1..Len(queue[src].waiting_list)) : src \in Sources}
QueuesAreBounded == Cardinality(Waiting) <= TaskLimit + 1

\* Without malformed messages every consumer reaches the end of its log, no
\* matter what the repository answers and how often the process restarts.
NothingMalformed ==
    \A src \in Sources : \A o \in Offsets(src) : Log[src][o + 1] # Malformed
EverythingCommitted ==
    \A src \in Sources :
        <>[](OnQueue /\ NothingMalformed => committed[src] = Len(Log[src]) - 1)

\* A gRPC call is answered, with Ok or an error, and never left hanging: no
\* plugin has a state in which the handler waits for ever.
CallsAreAnswered ==
    \A m \in Ids : (~ OnQueue /\ m \in Running) ~> reply[m] # "none"
==============================================================================
