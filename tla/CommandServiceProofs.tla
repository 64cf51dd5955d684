------------------------ MODULE CommandServiceProofs -------------------------
(***************************************************************************)
(* What the command service passes over it has reported, what it reports   *)
(* as stored is stored, and its ack queues stay within the task limit, for *)
(* every set of consumers, every log, plugin and limit.                    *)
(***************************************************************************)
EXTENDS CommandService, SequenceLemmas

Id(src, o) == [source |-> src, offset |-> o]

SourceTypes(src) ==
    /\ position[src] \in 0 .. Len(Log[src])
    /\ queue[src] \in AckQueues(Offsets(src))
    /\ stored[src] \in Offsets(src) \cup {None}
    /\ committed[src] \in Offsets(src)

PendingTypes ==
    /\ pending \in Ids \cup {NoMessage}
    /\ pending # NoMessage => pending.offset \in Offsets(pending.source)

Types ==
    /\ config \in Services
    /\ position \in [Sources -> Int] /\ stored \in [Sources -> Int]
    /\ committed \in [Sources -> Int]
    /\ queue \in [Sources -> AckQueues(Int)]
    /\ \A src \in Sources : SourceTypes(src)
    /\ PendingTypes
    /\ task \in [Ids -> Tasks]
    /\ data \subseteq Ids \X Nat
    /\ reports \subseteq Ids \X Resolutions
    /\ acked \subseteq Ids
    /\ reply \in [Ids -> {"none", "ok", "error"}]
    /\ restarts \in 0 .. MaxRestarts

\* The ack queue of one consumer: everything before a restart would resume is
\* acknowledged, and the entries are in the order of the log.
AckedOf(src) == {o \in Offsets(src) : Id(src, o) \in acked}
QInv(src) ==
    /\ QueueInv(Offsets(src), queue[src], AckedOf(src), position[src], stored[src], committed[src])
    /\ QueueOrdered(queue[src], stored[src], position[src])

\* The resolution of m was reported, if reports are sent.
Told(m) ==
    /\ Msg(m) # Malformed
    /\ ReportEnabled => \E status \in Resolutions : <<m, status>> \in reports

\* What the handler has done for m when its task is t.
TaskInv(t, m) ==
    /\ t.step # "none" => m.offset \in Offsets(m.source)
    /\ t.step \in {"store", "report"} => Msg(m) # Malformed
    /\ t.step = "report" =>
         /\ t.status \in Resolutions
         /\ t.status = "Success" /\ config.plugin # "druid" => Complete(m)
    /\ t.step = "ack" => Told(m) /\ OnQueue

\* Every waiting offset belongs to a running handler or to the message in hand.
LimitInv ==
    /\ OnQueue => IsFiniteSet(Running) /\ Cardinality(Running) <= TaskLimit
    /\ ~ OnQueue => \A src \in Sources : queue[src].waiting_list = <<>>
    /\ \A src \in Sources : \A i \in 1..Len(queue[src].waiting_list) :
          LET m == Id(src, queue[src].waiting_list[i]) IN m \in Running \/ m = pending

\* The inductive invariant.
IInv ==
    /\ Types /\ LimitInv /\ SuccessMeansStored
    /\ \A src \in Sources : QInv(src)
    /\ \A m \in Ids : TaskInv(task[m], m)
    /\ \A m \in acked : Told(m)

------------------------------------------------------------------------------
\* Messages are named by their consumer and their offset.
LEMMA IdFacts ==
    ASSUME NEW m \in Ids
    PROVE  m.source \in Sources /\ m.offset \in Int /\ m = Id(m.source, m.offset)
<1>1. PICK src \in Sources, s \in Services : \E o \in OffsetsOf(s.log, src) :
         m = [source |-> src, offset |-> o]
  BY DEF Ids
<1>2. PICK o \in OffsetsOf(s.log, src) : m = [source |-> src, offset |-> o]
  BY <1>1
<1>3. o \in Int
  BY ConstantsAssumption DEF OffsetsOf
<1>4. m.source = src /\ m.offset = o
  BY <1>2
<1> QED  BY <1>2, <1>3, <1>4 DEF Id

\* The log of a consumer in the configured service.
LEMMA LogFacts ==
    ASSUME config \in Services, NEW src \in Sources
    PROVE  /\ Len(Log[src]) \in Nat /\ Len(Log[src]) # 0
           /\ Offsets(src) \in SUBSET Nat /\ Offsets(src) \in SUBSET Int
           /\ IsLog(Offsets(src)) /\ 0 \in Offsets(src)
           /\ None = -1 /\ None \notin Offsets(src) /\ NewQueue \in AckQueues(Offsets(src))
           /\ \A o \in Offsets(src) : /\ Id(src, o) \in Ids
                                      /\ Id(src, o).source = src /\ Id(src, o).offset = o
<1>1. Len(Log[src]) \in Nat /\ Len(Log[src]) # 0
  <2>1. \A s \in Services : Len(s.log[src]) \in Nat \ {0}
    BY ConstantsAssumption
  <2> QED  BY <2>1 DEF Log
<1>2. /\ Offsets(src) \in SUBSET Nat /\ Offsets(src) \in SUBSET Int
      /\ IsLog(Offsets(src)) /\ 0 \in Offsets(src)
  <2>1. PICK n \in Nat : n # 0 /\ Offsets(src) = 0 .. n - 1
    BY <1>1 DEF Offsets, OffsetsOf
  <2>2. n - 1 \in Int
    OBVIOUS
  <2> QED  BY <2>1, <2>2 DEF IsLog
<1>3. None = -1 /\ None \notin Offsets(src)
  BY <1>2 DEF None
<1>4. NewQueue \in AckQueues(Offsets(src))
  BY <1>2 DEF NewQueue, AckQueues
<1>5. ASSUME NEW o \in Offsets(src)
      PROVE  Id(src, o) \in Ids /\ Id(src, o).source = src /\ Id(src, o).offset = o
  <2> DEFINE S == {[source |-> src, offset |-> x] : x \in OffsetsOf(config.log, src)}
  <2>1. S \in {{[source |-> c, offset |-> x] : x \in OffsetsOf(s.log, c)} :
                  c \in Sources, s \in Services}
    OBVIOUS
  <2>2. Id(src, o) \in S
    BY DEF Offsets, Log, Id
  <2> HIDE DEF S
  <2>3. Id(src, o) \in Ids
    BY <2>1, <2>2 DEF Ids
  <2> QED  BY <2>3 DEF Id
<1> QED  BY <1>1, <1>2, <1>3, <1>4, <1>5

\* What the invariant says of one consumer.
LEMMA OneSource ==
    ASSUME IInv, NEW src \in Sources
    PROVE  /\ config \in Services
           /\ position[src] \in Int /\ position[src] \in 0 .. Len(Log[src])
           /\ stored[src] \in Int /\ stored[src] \in Offsets(src) \cup {None}
           /\ committed[src] \in Int /\ committed[src] \in Offsets(src)
           /\ queue[src] \in AckQueues(Offsets(src)) /\ QInv(src)
BY DEF IInv, Types, SourceTypes

\* What was done for a message stays done.
LEMMA DoneMono ==
    ASSUME NEW m, config' = config, data \subseteq data', reports \subseteq reports'
    PROVE  /\ Complete(m) => Complete(m)'
           /\ Told(m) => Told(m)'
           /\ \A t : TaskInv(t, m) => TaskInv(t, m)'
<1>1. Msg(m)' = Msg(m) /\ OnQueue' = OnQueue /\ Parts(m)' = Parts(m)
      /\ Offsets(m.source)' = Offsets(m.source) /\ ReportEnabled' = ReportEnabled
  BY DEF Msg, Log, OnQueue, Parts, Offsets, ReportEnabled
<1>2. Complete(m) => Complete(m)'
  BY <1>1 DEF Complete
<1>3. Told(m) => Told(m)'
  BY <1>1 DEF Told
<1> QED  BY <1>1, <1>2, <1>3 DEF TaskInv

\* A step that leaves a consumer alone.
LEMMA SameSource ==
    ASSUME IInv, NEW src \in Sources, config' = config, queue'[src] = queue[src],
           position'[src] = position[src], stored'[src] = stored[src],
           committed'[src] = committed[src], acked' = acked
    PROVE  QInv(src)'
<1>1. Offsets(src)' = Offsets(src) /\ AckedOf(src)' = AckedOf(src)
  BY DEF Offsets, Log, AckedOf
<1>2. QInv(src)
  BY DEF IInv
<1> QED  BY <1>1, <1>2 DEF QInv

\* What is kept by every step that leaves the consumers and the loop alone.
LEMMA SameLoop ==
    ASSUME IInv, UNCHANGED <<config, position, queue, stored, pending, committed, acked>>
    PROVE  /\ \A src \in Sources : QInv(src)' /\ SourceTypes(src)'
           /\ PendingTypes'
           /\ OnQueue' = OnQueue /\ TaskLimit' = TaskLimit
<1>1. \A src : Offsets(src)' = Offsets(src) /\ Log' = Log
  BY DEF Offsets, Log
<1>2. \A src \in Sources : QInv(src)'
  BY SameSource
<1>3. \A src \in Sources : SourceTypes(src)'
  BY <1>1 DEF IInv, Types, SourceTypes
<1>4. PendingTypes'
  BY <1>1 DEF IInv, Types, PendingTypes
<1> QED  BY <1>2, <1>3, <1>4 DEF OnQueue, TaskLimit

\* A step within the handler of one message.
LEMMA HandlerStep ==
    ASSUME IInv, NEW m \in Ids, task[m].step # "none",
           NEW t \in Tasks, t.step # "none", task' = [task EXCEPT ![m] = t], TaskInv(t, m)',
           UNCHANGED <<config, position, queue, stored, pending, committed, acked, reply, restarts>>,
           data \subseteq data', data' \subseteq Ids \X Nat,
           reports \subseteq reports', reports' \subseteq Ids \X Resolutions,
           SuccessMeansStored'
    PROVE  IInv'
<1>0. task \in [Ids -> Tasks] /\ \A q \in Ids : task'[q] = IF q = m THEN t ELSE task[q]
  BY DEF IInv, Types
<1>1. Types'
  BY SameLoop DEF IInv, Types
<1>2. LimitInv'
  <2>1. Running' = Running
    BY <1>0 DEF Running
  <2> QED  BY <2>1, SameLoop DEF IInv, LimitInv
<1>3. ASSUME NEW q \in Ids PROVE TaskInv(task[q], q)'
  <2>1. CASE q = m
    BY <1>0, <2>1
  <2>2. CASE q # m
    <3>1. task'[q] = task[q] /\ TaskInv(task[q], q)
      BY <1>0, <2>2 DEF IInv
    <3> QED  BY <3>1, DoneMono
  <2> QED  BY <2>1, <2>2
<1>4. (\A q \in acked : Told(q))'
  BY DoneMono DEF IInv
<1> QED  BY <1>1, <1>2, <1>3, <1>4, SameLoop DEF IInv

\* What the invariant says of one message.
LEMMA OneTask ==
    ASSUME IInv, NEW m \in Ids
    PROVE  /\ task[m] \in Tasks /\ task \in [Ids -> Tasks] /\ TaskInv(task[m], m)
           /\ data \subseteq Ids \X Nat /\ reports \subseteq Ids \X Resolutions
           /\ config \in Services
BY DEF IInv, Types

\* More data makes nothing incomplete.
LEMMA MoreData ==
    ASSUME IInv, config' = config, data \subseteq data', reports' = reports
    PROVE  SuccessMeansStored'
<1>1. SuccessMeansStored
  BY DEF IInv
<1>2. \A m \in Ids : Complete(m) => Complete(m)'
  BY DoneMono
<1> QED  BY <1>1, <1>2 DEF SuccessMeansStored

\* The plugin comes to a resolution.
LEMMA ResolvedIInv ==
    ASSUME IInv, NEW m \in Ids, TaskStep(m, "store"), NEW status \in Resolutions,
           Resolved(m, status), NoLoop, data \subseteq data', data' \subseteq Ids \X Nat,
           reports' = reports,
           status = "Success" /\ config.plugin # "druid" => Complete(m)'
    PROVE  IInv'
<1>0. /\ task[m].step = "store"
      /\ UNCHANGED <<config, position, queue, stored, pending, committed, acked, reply, restarts>>
  BY DEF TaskStep, NoLoop
<1>1. PICK t \in Tasks : /\ t.step = "report" /\ t.status = status
                         /\ task' = [task EXCEPT ![m] = t]
  <2> DEFINE t == [step |-> "report", sent |-> 0, status |-> status]
  <2>1. t \in Tasks /\ t.step = "report" /\ t.status = status
    BY DEF Tasks, Steps
  <2> QED  BY <2>1 DEF Resolved, SetTask
<1>2. TaskInv(t, m)'
  <2>1. m.offset \in Offsets(m.source) /\ Msg(m) # Malformed
    BY <1>0, OneTask DEF TaskInv
  <2>2. Offsets(m.source)' = Offsets(m.source) /\ Msg(m)' = Msg(m)
    BY <1>0 DEF Offsets, Log, Msg
  <2> QED  BY <1>0, <1>1, <2>1, <2>2 DEF TaskInv
<1> QED  BY <1>0, <1>1, <1>2, OneTask, MoreData, HandlerStep

\* A message the plugin works on.
LEMMA InHand ==
    ASSUME IInv, NEW m \in Ids, task[m].step = "store"
    PROVE  /\ Msg(m) # Malformed /\ Msg(m).points \in Nat \cup {NotSeries}
           /\ Msg(m).points \in Int
<1>1. m.offset \in Offsets(m.source) /\ Msg(m) # Malformed
  BY OneTask DEF TaskInv
<1>2. m.source \in Sources /\ config \in Services
  BY IdFacts, OneTask
<1>3. m.offset \in OffsetsOf(config.log, m.source)
  BY <1>1 DEF Offsets, Log
<1>4. \/ config.log[m.source][m.offset + 1] = Malformed
      \/ config.log[m.source][m.offset + 1].points \in Nat \cup {NotSeries}
  BY <1>2, <1>3, ConstantsAssumption
<1>5. Msg(m).points \in Nat \cup {NotSeries}
  BY <1>1, <1>4 DEF Msg, Log
<1> QED  BY <1>1, <1>5 DEF NotSeries

\* The PostgreSQL plugin.
LEMMA PostgresIInv ==
    ASSUME IInv, NEW m \in Ids, PgNoConnection(m) \/ PgInsert(m) \/ PgFails(m) PROVE IInv'
<1>0. <<m, 1>> \in Ids \X Nat /\ data \subseteq Ids \X Nat
  BY OneTask
<1>1. CASE PgNoConnection(m)
  BY <1>0, <1>1, ResolvedIInv DEF PgNoConnection, Storing, Resolutions
<1>2. CASE PgInsert(m)
  <2>0. TaskStep(m, "store") /\ config.plugin = "postgres" /\ NoLoop /\ reports' = reports
    BY <1>2 DEF PgInsert, Storing
  <2>1. CASE data' = data \cup {<<m, 1>>} /\ Resolved(m, "Success")
    <3>1. Complete(m)'
      BY <2>0, <2>1 DEF Complete, Parts, NoLoop
    <3>2. data' \subseteq Ids \X Nat /\ "Success" \in Resolutions
      BY <1>0, <2>1 DEF Resolutions
    <3> QED  BY <2>0, <2>1, <3>1, <3>2, ResolvedIInv
  <2>2. CASE data' = data /\ Resolved(m, "StorageLayerFailure")
    BY <1>0, <2>0, <2>2, ResolvedIInv DEF Resolutions
  <2> QED  BY <1>2, <2>1, <2>2 DEF PgInsert
<1>3. CASE PgFails(m)
  <2>1. /\ TaskStep(m, "store") /\ NoLoop /\ reports' = reports
        /\ Resolved(m, "StorageLayerFailure")
        /\ data' = data \/ data' = data \cup {<<m, 1>>}
    BY <1>3 DEF PgFails, Storing
  <2>2. data \subseteq data' /\ data' \subseteq Ids \X Nat
    BY <1>0, <2>1
  <2>3. "StorageLayerFailure" \in Resolutions
    BY DEF Resolutions
  <2> QED  BY <2>1, <2>2, <2>3, ResolvedIInv
<1> QED  BY <1>1, <1>2, <1>3

\* The points of a series are in the domain of the repository.
LEMMA SeriesParts ==
    ASSUME IInv, NEW m \in Ids, task[m].step = "store", config.plugin # "postgres"
    PROVE  {<<m, i>> : i \in Parts(m)} \subseteq Ids \X Nat
<1>1. PICK n \in Int : n = Msg(m).points
  BY InHand
<1>2. Parts(m) = 1..n
  BY <1>1 DEF Parts
<1>3. \A i \in 1..n : i \in Nat
  OBVIOUS
<1> QED  BY <1>2, <1>3

\* The Druid plugin, and what both time-series plugins refuse.
LEMMA DruidIInv ==
    ASSUME IInv, NEW m \in Ids, RejectSeries(m) \/ DruidSend(m) \/ DruidDone(m) PROVE IInv'
<1>0. data \subseteq Ids \X Nat
  BY OneTask
<1>1. CASE RejectSeries(m)
  BY <1>0, <1>1, ResolvedIInv DEF RejectSeries, Resolutions
<1>2. CASE DruidDone(m)
  BY <1>0, <1>2, ResolvedIInv DEF DruidDone, Storing, Resolutions
<1>3. CASE DruidSend(m)
  <2>0. /\ task[m].step = "store" /\ task[m] \in Tasks /\ reports' = reports
        /\ UNCHANGED <<config, position, queue, stored, pending, committed, acked, reply,
                       restarts>>
    BY <1>3, OneTask DEF DruidSend, Storing, TaskStep, NoLoop
  <2>1. PICK t \in Tasks : t.step = "store" /\ task' = [task EXCEPT ![m] = t]
    <3> DEFINE t == [task[m] EXCEPT !.sent = @ + 1]
    <3>1. t \in Tasks /\ t.step = "store"
      BY <2>0 DEF Tasks
    <3> QED  BY <1>3, <3>1 DEF DruidSend, SetTask
  <2>2. data \subseteq data' /\ data' \subseteq Ids \X Nat
    <3>1. task[m].sent + 1 \in Nat
      BY <2>0 DEF Tasks
    <3>2. data' = data \/ data' = data \cup {<<m, task[m].sent + 1>>}
      BY <1>3 DEF DruidSend
    <3> QED  BY <1>0, <3>1, <3>2
  <2>3. TaskInv(t, m)'
    <3>1. m.offset \in Offsets(m.source) /\ Msg(m) # Malformed
      BY <2>0, OneTask DEF TaskInv
    <3>2. Offsets(m.source)' = Offsets(m.source) /\ Msg(m)' = Msg(m)
      BY <2>0 DEF Offsets, Log, Msg
    <3> QED  BY <2>1, <3>1, <3>2 DEF TaskInv
  <2> QED  BY <2>0, <2>1, <2>2, <2>3, OneTask, MoreData, HandlerStep
<1> QED  BY <1>1, <1>2, <1>3

\* The VictoriaMetrics plugin.
LEMMA VictoriaIInv ==
    ASSUME IInv, NEW m \in Ids, VmAccepts(m) \/ VmRefuses(m) \/ VmLost(m) PROVE IInv'
<1> DEFINE new == {<<m, i>> : i \in Parts(m)}
<1>0. /\ data \subseteq Ids \X Nat /\ TaskStep(m, "store") /\ NoLoop /\ reports' = reports
      /\ config.plugin = "victoria"
  BY OneTask DEF VmAccepts, VmRefuses, VmLost, Storing
<1>n. new \subseteq Ids \X Nat
  BY <1>0, SeriesParts DEF TaskStep
<1>1. CASE VmAccepts(m)
  <2>1. data' = data \cup new /\ Resolved(m, "Success")
    BY <1>1 DEF VmAccepts
  <2>2. Complete(m)'
    <3>1. Parts(m)' = Parts(m)
      BY <1>0 DEF Parts, Msg, Log, NoLoop
    <3> QED  BY <2>1, <3>1 DEF Complete
  <2> HIDE DEF new
  <2>3. data \subseteq data' /\ data' \subseteq Ids \X Nat /\ "Success" \in Resolutions
    BY <1>0, <1>n, <2>1 DEF Resolutions
  <2> QED  BY <1>0, <2>1, <2>2, <2>3, ResolvedIInv
<1>2. CASE VmRefuses(m)
  BY <1>0, <1>2, ResolvedIInv DEF VmRefuses, Resolutions
<1>3. CASE VmLost(m)
  <2>1. (data' = data \/ data' = data \cup new) /\ Resolved(m, "CommandServiceFailure")
    BY <1>3 DEF VmLost
  <2> HIDE DEF new
  <2>2. data \subseteq data' /\ data' \subseteq Ids \X Nat /\ "CommandServiceFailure" \in Resolutions
    BY <1>0, <1>n, <2>1 DEF Resolutions
  <2> QED  BY <1>0, <2>1, <2>2, ResolvedIInv
<1> QED  BY <1>1, <1>2, <1>3

\* A gRPC call is answered.
LEMMA ReplyIInv ==
    ASSUME IInv, NEW m \in Ids, ~ OnQueue, NEW a \in {"ok", "error"}, Reply(m, a),
           data' = data, reports \subseteq reports', reports' \subseteq Ids \X Resolutions,
           SuccessMeansStored'
    PROVE  IInv'
<1>0. /\ UNCHANGED <<config, position, queue, stored, pending, committed, acked, restarts>>
      /\ task' = [task EXCEPT ![m] = NoTask] /\ reply' = [reply EXCEPT ![m] = a]
  BY DEF Reply, SetTask
<1>1. /\ NoTask \in Tasks /\ NoTask.step = "none"
      /\ task \in [Ids -> Tasks] /\ reply \in [Ids -> {"none", "ok", "error"}]
  BY DEF NoTask, Tasks, Steps, IInv, Types
<1>2. Types'
  <2>1. task' \in [Ids -> Tasks] /\ reply' \in [Ids -> {"none", "ok", "error"}]
    BY <1>0, <1>1
  <2> QED  BY <1>0, <2>1, SameLoop DEF IInv, Types
<1>3. LimitInv'
  <2>1. ~ OnQueue' /\ \A src \in Sources : queue'[src].waiting_list = <<>>
    BY <1>0, SameLoop DEF IInv, LimitInv
  <2>2. Len(<<>>) = 0 /\ 1..0 = {}
    OBVIOUS
  <2> QED  BY <2>1, <2>2 DEF LimitInv
<1>4. ASSUME NEW q \in Ids PROVE TaskInv(task[q], q)'
  <2>1. CASE q = m
    <3>1. task'[q].step = "none"
      BY <1>0, <1>1, <2>1
    <3> QED  BY <3>1 DEF TaskInv
  <2>2. CASE q # m
    <3>1. task'[q] = task[q] /\ TaskInv(task[q], q)
      BY <1>0, <1>1, <2>2 DEF IInv
    <3> QED  BY <1>0, <3>1, DoneMono
  <2> QED  BY <2>1, <2>2
<1>5. (\A q \in acked : Told(q))'
  BY <1>0, DoneMono DEF IInv
<1> QED  BY <1>0, <1>2, <1>3, <1>4, <1>5, SameLoop DEF IInv

\* What a report adds is a resolution, and Success only for what is stored.
LEMMA ReportsGrow ==
    ASSUME IInv, NEW m \in Ids, task[m].step = "report", config' = config, data' = data,
           reports' = reports \/ reports' = reports \cup {<<m, task[m].status>>}
    PROVE  /\ reports \subseteq reports' /\ reports' \subseteq Ids \X Resolutions
           /\ SuccessMeansStored'
<1>1. /\ task[m].status \in Resolutions
      /\ task[m].status = "Success" /\ config.plugin # "druid" => Complete(m)
  BY OneTask DEF TaskInv
<1>2. reports \subseteq Ids \X Resolutions
  BY OneTask
<1>3. reports \subseteq reports' /\ reports' \subseteq Ids \X Resolutions
  BY <1>1, <1>2
<1>4. ASSUME config.plugin # "druid", NEW q \in Ids, <<q, "Success">> \in reports'
      PROVE  Complete(q)'
  <2>1. Complete(q)
    <3>1. CASE <<q, "Success">> \in reports
      BY <1>4, <3>1 DEF IInv, SuccessMeansStored
    <3>2. CASE <<q, "Success">> = <<m, task[m].status>>
      BY <1>1, <1>4, <3>2
    <3> QED  BY <1>4, <3>1, <3>2
  <2> QED  BY <2>1, <1>3, DoneMono
<1> QED  BY <1>3, <1>4 DEF SuccessMeansStored

\* The process dies; nothing it told is taken back.
LEMMA DieIInv ==
    ASSUME IInv, Die, UNCHANGED <<committed, acked>>, data' = data,
           reports \subseteq reports', reports' \subseteq Ids \X Resolutions,
           SuccessMeansStored'
    PROVE  IInv'
<1>0. /\ config' = config /\ restarts < MaxRestarts /\ restarts' = restarts + 1
      /\ position' = committed /\ queue' = [src \in Sources |-> NewQueue]
      /\ stored' = [src \in Sources |-> None] /\ pending' = NoMessage
      /\ task' = [q \in Ids |-> NoTask]
      /\ reply' = [q \in Ids |-> IF ~ OnQueue /\ q \in Running THEN "error" ELSE reply[q]]
  BY DEF Die, FreshProcess
<1>1. /\ NoTask \in Tasks /\ NoTask.step = "none"
      /\ reply \in [Ids -> {"none", "ok", "error"}]
      /\ restarts \in 0 .. MaxRestarts /\ MaxRestarts \in Nat
      /\ config \in Services /\ data \subseteq Ids \X Nat /\ acked \subseteq Ids
      /\ committed \in [Sources -> Int]
  BY ConstantsAssumption DEF NoTask, Tasks, Steps, IInv, Types
<1>2. \A src \in Sources : /\ queue'[src] = NewQueue /\ stored'[src] = None
                           /\ position'[src] = committed[src]
                           /\ committed'[src] = committed[src]
  BY <1>0
<1>3. ASSUME NEW src \in Sources PROVE SourceTypes(src)' /\ QInv(src)'
  <2>0. Offsets(src)' = Offsets(src) /\ AckedOf(src)' = AckedOf(src) /\ Log' = Log
    BY <1>0 DEF Offsets, Log, AckedOf
  <2>1. committed[src] \in Int /\ committed[src] \in Offsets(src) /\ QInv(src)
    BY OneSource
  <2>2. /\ Offsets(src) \in SUBSET Nat /\ None = -1
        /\ NewQueue \in AckQueues(Offsets(src)) /\ Len(Log[src]) \in Nat
    BY <1>1, LogFacts
  <2>3. AllBelow(Offsets(src), committed[src], AckedOf(src))
    BY <2>1, QueueInvBelow DEF QInv
  <2>4. QueueInv(Offsets(src), NewQueue, AckedOf(src), committed[src], -1, committed[src])
    BY <2>1, <2>2, <2>3, NewQueueInv
  <2>5. committed[src] \in 0 .. Len(Log[src]) /\ -1 < committed[src]
    <3>1. committed[src] \in 0 .. Len(Log[src]) - 1
      BY <2>1 DEF Offsets, OffsetsOf
    <3> QED  BY <2>2, <3>1
  <2>6. QueueOrdered(NewQueue, -1, committed[src])
    <3>1. NewQueue.waiting_list = <<>> /\ Len(<<>>) = 0 /\ 1..0 = {}
      BY DEF NewQueue
    <3> QED  BY <2>5, <3>1 DEF QueueOrdered, Ordered
  <2> QED  BY <1>2, <2>0, <2>1, <2>2, <2>4, <2>5, <2>6 DEF SourceTypes, QInv
<1>4. Types'
  <2>1. task' \in [Ids -> Tasks] /\ reply' \in [Ids -> {"none", "ok", "error"}]
    BY <1>0, <1>1
  <2>2. restarts' \in 0 .. MaxRestarts
    BY <1>0, <1>1
  <2>3. /\ position' \in [Sources -> Int] /\ committed' \in [Sources -> Int]
        /\ stored' \in [Sources -> Int] /\ queue' \in [Sources -> AckQueues(Int)]
    <3>1. None \in Int /\ NewQueue \in AckQueues(Int)
      BY DEF None, NewQueue, AckQueues
    <3> QED  BY <1>0, <1>1, <3>1
  <2>4. PendingTypes'
    BY <1>0 DEF PendingTypes
  <2> QED  BY <1>0, <1>1, <1>3, <2>1, <2>2, <2>3, <2>4 DEF Types
<1>5. LimitInv'
  <2>1. \A q \in Ids : task'[q].step = "none"
    BY <1>0, <1>1
  <2>2. Running' = {}
    BY <2>1 DEF Running
  <2>3. \A src \in Sources : queue'[src].waiting_list = <<>>
    BY <1>2 DEF NewQueue
  <2>4. Len(<<>>) = 0 /\ 1..0 = {}
    OBVIOUS
  <2>5. IsFiniteSet({}) /\ Cardinality({}) = 0
    BY FS_EmptySet
  <2>6. TaskLimit' \in Nat
    <3>1. config.limit \in Nat
      BY <1>1, ConstantsAssumption
    <3> QED  BY <1>0, <3>1 DEF TaskLimit
  <2>7. 0 <= TaskLimit'
    BY <2>6
  <2> QED  BY <2>2, <2>3, <2>4, <2>5, <2>7 DEF LimitInv
<1>6. ASSUME NEW q \in Ids PROVE TaskInv(task[q], q)'
  <2>1. task'[q].step = "none"
    BY <1>0, <1>1
  <2> QED  BY <2>1 DEF TaskInv
<1>7. (\A q \in acked : Told(q))'
  BY <1>0, DoneMono DEF IInv
<1> QED  BY <1>3, <1>4, <1>5, <1>6, <1>7 DEF IInv

\* A crash.
LEMMA RestartIInv == ASSUME IInv, Restart PROVE IInv'
<1>1. Die /\ UNCHANGED <<committed, acked>> /\ data' = data /\ reports' = reports /\ config' = config
  BY DEF Restart, Die
<1>2. reports \subseteq Ids \X Resolutions
  BY DEF IInv, Types
<1> QED  BY <1>1, <1>2, MoreData, DieIInv

\* The message is deserialized, or the process dies of it.
LEMMA BuildIInv == ASSUME IInv, NEW m \in Ids, Build(m) PROVE IInv'
<1>0. /\ task[m].step = "build" /\ task[m] \in Tasks /\ data' = data /\ reports' = reports
      /\ data \subseteq Ids \X Nat /\ reports \subseteq Ids \X Resolutions
      /\ m.offset \in Offsets(m.source)
  BY OneTask DEF Build, TaskStep, TaskInv
<1>1. CASE Msg(m) # Malformed /\ SetTask(m, [task[m] EXCEPT !.step = "store"]) /\ NoLoop
  <2>0. UNCHANGED <<config, position, queue, stored, pending, committed, acked, reply, restarts>>
    BY <1>1 DEF NoLoop
  <2>1. PICK t \in Tasks : t.step = "store" /\ task' = [task EXCEPT ![m] = t]
    <3> DEFINE t == [task[m] EXCEPT !.step = "store"]
    <3>1. t \in Tasks /\ t.step = "store"
      BY <1>0 DEF Tasks, Steps
    <3> QED  BY <1>1, <3>1 DEF SetTask
  <2>2. TaskInv(t, m)'
    <3>1. Offsets(m.source)' = Offsets(m.source) /\ Msg(m)' = Msg(m)
      BY <2>0 DEF Offsets, Log, Msg
    <3> QED  BY <1>0, <1>1, <2>1, <3>1 DEF TaskInv
  <2> QED  BY <1>0, <2>0, <2>1, <2>2, MoreData, HandlerStep
<1>2. CASE OnQueue /\ Die /\ UNCHANGED <<committed, acked>>
  <2>1. config' = config
    BY <1>2 DEF Die
  <2> QED  BY <1>0, <1>2, <2>1, MoreData, DieIInv
<1>3. CASE ~ OnQueue /\ Reply(m, "error")
  <2>1. config' = config
    BY <1>3 DEF Reply
  <2> QED  BY <1>0, <1>3, <2>1, MoreData, ReplyIInv
<1> QED  BY <1>1, <1>2, <1>3 DEF Build

\* The status is reported: then m may be acknowledged, or the call answered.
LEMMA ReportIInv == ASSUME IInv, NEW m \in Ids, Report(m) PROVE IInv'
<1>0. /\ task[m].step = "report" /\ task[m] \in Tasks /\ data' = data
      /\ data \subseteq Ids \X Nat /\ TaskInv(task[m], m)
      /\ reports' = IF ReportEnabled THEN reports \cup {<<m, task[m].status>>} ELSE reports
      /\ config' = config
  BY OneTask DEF Report, TaskStep, NoLoop, Reply
<1>1. /\ reports \subseteq reports' /\ reports' \subseteq Ids \X Resolutions
      /\ SuccessMeansStored'
  BY <1>0, ReportsGrow
<1>2. Told(m)'
  <2>1. /\ Msg(m)' = Msg(m) /\ Msg(m) # Malformed /\ task[m].status \in Resolutions
        /\ ReportEnabled' = ReportEnabled
    BY <1>0 DEF Msg, Log, TaskInv, ReportEnabled
  <2>2. ASSUME ReportEnabled PROVE <<m, task[m].status>> \in reports'
    BY <1>0, <2>2
  <2> QED  BY <2>1, <2>2 DEF Told
<1>3. CASE OnQueue /\ SetTask(m, [task[m] EXCEPT !.step = "ack"]) /\ NoLoop
  <2>0. UNCHANGED <<config, position, queue, stored, pending, committed, acked, reply, restarts>>
    BY <1>3 DEF NoLoop
  <2>1. PICK t \in Tasks : t.step = "ack" /\ task' = [task EXCEPT ![m] = t]
    <3> DEFINE t == [task[m] EXCEPT !.step = "ack"]
    <3>1. t \in Tasks /\ t.step = "ack"
      BY <1>0 DEF Tasks, Steps
    <3> QED  BY <1>3, <3>1 DEF SetTask
  <2>2. TaskInv(t, m)'
    <3>1. /\ Offsets(m.source)' = Offsets(m.source) /\ OnQueue' = OnQueue
          /\ m.offset \in Offsets(m.source)
      BY <1>0 DEF Offsets, Log, OnQueue, TaskInv
    <3> QED  BY <1>2, <1>3, <2>1, <3>1 DEF TaskInv
  <2> QED  BY <1>0, <1>1, <2>0, <2>1, <2>2, HandlerStep
<1>4. CASE ~ OnQueue /\ Reply(m, "ok")
  BY <1>0, <1>1, <1>2, <1>4, ReplyIInv
<1> QED  BY <1>3, <1>4 DEF Report

\* The report may or may not be out when the process dies.
LEMMA ReportFailsIInv == ASSUME IInv, NEW m \in Ids, ReportFails(m) PROVE IInv'
<1>0. /\ task[m].step = "report" /\ data' = data /\ config' = config
      /\ reports' = reports \/ reports' = reports \cup {<<m, task[m].status>>}
  BY DEF ReportFails, TaskStep, Die
<1>1. /\ reports \subseteq reports' /\ reports' \subseteq Ids \X Resolutions
      /\ SuccessMeansStored'
  BY <1>0, ReportsGrow
<1>2. Die /\ UNCHANGED <<committed, acked>>
  BY DEF ReportFails
<1> QED  BY <1>0, <1>1, <1>2, DieIInv

------------------------------------------------------------------------------
(* The loop and the ack queues. *)

\* A message is acknowledged: one entry leaves the queue of its consumer.
LEMMA AckIInv == ASSUME IInv, NEW m \in Ids, Ack(m) PROVE IInv'
<1> DEFINE c == m.source
           e == m.offset
           q == queue[c]
<1>0. /\ task[m].step = "ack" /\ AckReturns(q, e)
      /\ stored' = IF AckStores(q, e) THEN [stored EXCEPT ![c] = OffsetToStore(q, e)]
                                      ELSE stored
      /\ queue' = [queue EXCEPT ![c] = QueueAck(@, e)]
      /\ task' = [task EXCEPT ![m] = NoTask] /\ acked' = acked \cup {m}
      /\ UNCHANGED <<config, position, pending, committed, data, reports, reply, restarts>>
  BY DEF Ack, TaskStep, SetTask
<1>1. c \in Sources /\ m = Id(c, e)
  BY IdFacts
<1>2. e \in Offsets(c) /\ Told(m) /\ OnQueue
  BY <1>0, OneTask DEF TaskInv
<1>3. /\ position[c] \in Int /\ stored[c] \in Int /\ committed[c] \in Int
      /\ q \in AckQueues(Offsets(c)) /\ QInv(c) /\ config \in Services
      /\ stored[c] \in Offsets(c) \cup {None}
  BY <1>1, OneSource
<1>4. IsLog(Offsets(c)) /\ Offsets(c) \in SUBSET Int /\ None = -1
  BY <1>1, <1>3, LogFacts
<1>5. /\ task \in [Ids -> Tasks] /\ NoTask \in Tasks /\ NoTask.step = "none"
      /\ queue \in [Sources -> AckQueues(Int)] /\ stored \in [Sources -> Int]
      /\ acked \subseteq Ids
  BY DEF IInv, Types, NoTask, Tasks, Steps
<1>6. \A src : Offsets(src)' = Offsets(src) /\ Log' = Log
  BY <1>0 DEF Offsets, Log
<1>q. /\ QueueInv(Offsets(c), q, AckedOf(c), position[c], stored[c], committed[c])
      /\ QueueOrdered(q, stored[c], position[c])
  BY <1>3 DEF QInv
<1> HIDE DEF c, e, q
<1>7. PICK q2 \in AckQueues(Offsets(c)), s2 \in Offsets(c) \cup {None} :
         q2 = QueueAck(q, e) /\ s2 = StoredAfter(q, e, stored[c])
  <2>1. QueueAck(q, e) \in AckQueues(Offsets(c))
    BY <1>0, <1>3, <1>4, QueueAckTypes
  <2>2. StoredAfter(q, e, stored[c]) \in Offsets(c) \cup {None}
    BY <1>0, <1>3, <1>4, QueueAckTypes DEF StoredAfter
  <2> QED  BY <2>1, <2>2
<1>8. /\ queue' = [queue EXCEPT ![c] = q2] /\ queue'[c] = q2
      /\ stored' = [stored EXCEPT ![c] = s2] /\ stored'[c] = s2
      /\ \A src \in Sources : src # c => queue'[src] = queue[src] /\ stored'[src] = stored[src]
  <2>1. queue' = [queue EXCEPT ![c] = q2]
    BY <1>0, <1>7 DEF q
  <2>2. stored' = [stored EXCEPT ![c] = s2]
    BY <1>0, <1>1, <1>5, <1>7 DEF StoredAfter
  <2> QED  BY <1>1, <1>5, <2>1, <2>2
<1>9. s2 \in Int /\ q2 \in AckQueues(Int)
  BY <1>4, AckQueuesMono
<1>10. /\ QueueInv(Offsets(c), q2, AckedOf(c) \cup {e}, position[c], s2, committed[c])
       /\ QueueOrdered(q2, s2, position[c])
  BY <1>0, <1>3, <1>4, <1>7, <1>q, QueueAckInv, QueueOrderedAck
<1>11. ASSUME NEW src \in Sources PROVE QInv(src)'
  <2>1. CASE src = c
    <3>1. AckedOf(c)' = AckedOf(c) \cup {e}
      <4>1. \A o \in Offsets(c) : Id(c, o) = m <=> o = e
        BY <1>1 DEF Id
      <4> QED  BY <1>0, <1>2, <1>6, <4>1 DEF AckedOf
    <3> QED  BY <1>0, <1>6, <1>8, <1>10, <2>1, <3>1 DEF QInv
  <2>2. CASE src # c
    <3>1. \A o : Id(src, o) # m
      BY <1>1, <2>2 DEF Id
    <3>2. AckedOf(src)' = AckedOf(src)
      BY <1>0, <1>6, <3>1 DEF AckedOf
    <3>3. QInv(src)
      BY OneSource
    <3> QED  BY <1>0, <1>6, <1>8, <2>2, <3>2, <3>3 DEF QInv
  <2> QED  BY <2>1, <2>2
<1>12. ASSUME NEW src \in Sources PROVE SourceTypes(src)'
  <2>1. CASE src = c
    BY <1>0, <1>6, <1>7, <1>8, <2>1, OneSource DEF SourceTypes
  <2>2. CASE src # c
    BY <1>0, <1>6, <1>8, <2>2, OneSource DEF SourceTypes
  <2> QED  BY <2>1, <2>2
<1>13. Types'
  <2>1. task' \in [Ids -> Tasks] /\ acked' \subseteq Ids
    BY <1>0, <1>5
  <2>2. stored' \in [Sources -> Int] /\ queue' \in [Sources -> AckQueues(Int)]
    BY <1>5, <1>8, <1>9
  <2>3. PendingTypes'
    BY <1>0, <1>6 DEF IInv, Types, PendingTypes
  <2> QED  BY <1>0, <1>12, <2>1, <2>2, <2>3 DEF IInv, Types
<1>14. LimitInv'
  <2>1. Running' = Running \ {m}
    BY <1>0, <1>5 DEF Running
  <2>2. IsFiniteSet(Running') /\ Cardinality(Running') <= TaskLimit'
    <3>1. IsFiniteSet(Running) /\ Cardinality(Running) <= TaskLimit /\ TaskLimit' = TaskLimit
      BY <1>0, <1>2 DEF IInv, LimitInv, TaskLimit
    <3>2. TaskLimit \in Nat
      BY <1>3, ConstantsAssumption DEF TaskLimit
    <3>3. Cardinality(Running) \in Nat /\ m \in Running
      BY <1>0, <3>1, FS_CardinalityType DEF Running
    <3>4. IsFiniteSet(Running \ {m}) /\ Cardinality(Running \ {m}) = Cardinality(Running) - 1
      BY <3>1, <3>3, FS_RemoveElement
    <3> QED  BY <2>1, <3>1, <3>2, <3>3, <3>4
  <2>3. OnQueue'
    BY <1>0, <1>2 DEF OnQueue
  <2>4. ASSUME NEW src \in Sources, NEW i \in 1..Len(queue'[src].waiting_list)
        PROVE  \/ Id(src, queue'[src].waiting_list[i]) \in Running'
               \/ Id(src, queue'[src].waiting_list[i]) = pending'
    <3>1. PICK j \in 1..Len(queue[src].waiting_list) :
             /\ queue'[src].waiting_list[i] = queue[src].waiting_list[j]
             /\ Id(src, queue[src].waiting_list[j]) # m
      <4>1. CASE src = c
        <5>1. i \in 1..Len(QueueAck(q, e).waiting_list)
          BY <1>7, <1>8, <2>4, <4>1
        <5>2. PICK j \in 1..Len(q.waiting_list) :
                 /\ QueueAck(q, e).waiting_list[i] = q.waiting_list[j]
                 /\ q.waiting_list[j] # e
          BY <1>0, <1>3, <1>4, <1>q, <5>1, QueueAckEntries
        <5>3. Id(c, q.waiting_list[j]) # m
          BY <1>1, <5>2 DEF Id
        <5> QED  BY <1>7, <1>8, <4>1, <5>2, <5>3 DEF q
      <4>2. CASE src # c
        <5>1. \A o : Id(src, o) # m
          BY <1>1, <4>2 DEF Id
        <5> QED  BY <1>8, <2>4, <4>2, <5>1
      <4> QED  BY <4>1, <4>2
    <3>2. \/ Id(src, queue[src].waiting_list[j]) \in Running
          \/ Id(src, queue[src].waiting_list[j]) = pending
      BY DEF IInv, LimitInv
    <3> QED  BY <1>0, <2>1, <3>1, <3>2
  <2> QED  BY <2>2, <2>3, <2>4 DEF LimitInv
<1>15. ASSUME NEW x \in Ids PROVE TaskInv(task[x], x)'
  <2>1. CASE x = m
    <3>1. task'[x].step = "none"
      BY <1>0, <1>5, <2>1
    <3> QED  BY <3>1 DEF TaskInv
  <2>2. CASE x # m
    <3>1. task'[x] = task[x] /\ TaskInv(task[x], x)
      BY <1>0, <1>5, <2>2 DEF IInv
    <3> QED  BY <1>0, <3>1, DoneMono
  <2> QED  BY <2>1, <2>2
<1>16. \A x : Told(x) => Told(x)'
  BY <1>0, DoneMono
<1>17. (\A x \in acked : Told(x))'
  BY <1>0, <1>2, <1>16 DEF IInv
<1>18. SuccessMeansStored'
  BY <1>0, MoreData
<1> QED  BY <1>11, <1>13, <1>14, <1>15, <1>17, <1>18 DEF IInv

\* The loop takes the next message of one consumer in hand.
LEMMA ReceiveIInv == ASSUME IInv, NEW c \in Sources, Receive(c) PROVE IInv'
<1> DEFINE p == position[c]
<1>0. /\ OnQueue /\ pending = NoMessage /\ p \in Offsets(c)
      /\ queue' = [queue EXCEPT ![c] = QueueAdd(@, p)]
      /\ pending' = Id(c, p) /\ position' = [position EXCEPT ![c] = @ + 1]
      /\ UNCHANGED <<config, stored, task, committed, data, reports, acked, reply, restarts>>
  BY DEF Receive, Id
<1>1. /\ stored[c] \in Int /\ committed[c] \in Int /\ p \in Int
      /\ queue[c] \in AckQueues(Offsets(c)) /\ QInv(c) /\ config \in Services
  BY OneSource
<1>2. /\ Offsets(c) \in SUBSET Int /\ Id(c, p) \in Ids
      /\ Id(c, p).source = c /\ Id(c, p).offset = p /\ Len(Log[c]) \in Nat
  BY <1>0, <1>1, LogFacts
<1>3. NoMessage \notin Ids
  BY ConstantsAssumption
<1>4. \A src : Offsets(src)' = Offsets(src) /\ AckedOf(src)' = AckedOf(src) /\ Log' = Log
  BY <1>0 DEF Offsets, Log, AckedOf
<1>5. /\ queue \in [Sources -> AckQueues(Int)] /\ position \in [Sources -> Int]
  BY DEF IInv, Types
<1>6. p + 1 \in 0 .. Len(Log[c]) /\ p + 1 \in Int
  <2>1. p \in 0 .. Len(Log[c]) - 1
    BY <1>0 DEF Offsets, OffsetsOf
  <2> QED  BY <1>2, <2>1
<1>7. PICK q2 \in AckQueues(Offsets(c)) :
         /\ q2 = QueueAdd(queue[c], p) /\ q2.waiting_list = Append(queue[c].waiting_list, p)
         /\ QueueInv(Offsets(c), q2, AckedOf(c), p + 1, stored[c], committed[c])
         /\ QueueOrdered(q2, stored[c], p + 1)
  <2>1. /\ QueueAdd(queue[c], p) \in AckQueues(Offsets(c))
        /\ QueueInv(Offsets(c), QueueAdd(queue[c], p), AckedOf(c), p + 1, stored[c], committed[c])
    BY <1>0, <1>1, <1>2, QueueAddInv DEF QInv
  <2>2. QueueOrdered(QueueAdd(queue[c], p), stored[c], p + 1)
    BY <1>1, <1>2, QueueOrderedAdd DEF QInv
  <2>3. QueueAdd(queue[c], p).waiting_list = Append(queue[c].waiting_list, p)
    BY DEF QueueAdd
  <2> QED  BY <2>1, <2>2, <2>3
<1>8. /\ queue' = [queue EXCEPT ![c] = q2] /\ queue'[c] = q2
      /\ position' = [position EXCEPT ![c] = p + 1] /\ position'[c] = p + 1
      /\ \A src \in Sources : src # c => queue'[src] = queue[src] /\ position'[src] = position[src]
  BY <1>0, <1>5, <1>7
<1> HIDE DEF p
<1>9. ASSUME NEW src \in Sources PROVE QInv(src)' /\ SourceTypes(src)'
  <2>1. CASE src = c
    <3>1. QInv(src)'
      BY <1>0, <1>4, <1>7, <1>8, <2>1 DEF QInv
    <3>2. SourceTypes(src)'
      BY <1>0, <1>4, <1>6, <1>7, <1>8, <2>1, OneSource DEF SourceTypes
    <3> QED  BY <3>1, <3>2
  <2>2. CASE src # c
    BY <1>0, <1>4, <1>8, <2>2, OneSource DEF QInv, SourceTypes
  <2> QED  BY <2>1, <2>2
<1>10. Types'
  <2>1. q2 \in AckQueues(Int)
    BY <1>2, AckQueuesMono
  <2>2. queue' \in [Sources -> AckQueues(Int)] /\ position' \in [Sources -> Int]
    BY <1>5, <1>6, <1>8, <2>1
  <2>3. PendingTypes'
    BY <1>0, <1>2, <1>4 DEF PendingTypes
  <2> QED  BY <1>0, <1>9, <2>2, <2>3 DEF IInv, Types
<1>11. LimitInv'
  <2>1. Running' = Running /\ OnQueue' /\ TaskLimit' = TaskLimit
    BY <1>0 DEF Running, OnQueue, TaskLimit
  <2>2. IsFiniteSet(Running) /\ Cardinality(Running) <= TaskLimit
    BY <1>0 DEF IInv, LimitInv
  <2>3. ASSUME NEW src \in Sources, NEW i \in 1..Len(queue[src].waiting_list)
        PROVE  Id(src, queue[src].waiting_list[i]) \in Running
    <3>1. queue[src].waiting_list[i] \in Offsets(src)
      <4>1. queue[src].waiting_list \in Seq(Offsets(src))
        BY OneSource DEF AckQueues
      <4> QED  BY <4>1
    <3>2. Id(src, queue[src].waiting_list[i]) \in Ids
      BY <1>1, <3>1, LogFacts
    <3> QED  BY <1>0, <1>3, <3>2 DEF IInv, LimitInv
  <2>4. ASSUME NEW src \in Sources, NEW i \in 1..Len(queue'[src].waiting_list)
        PROVE  \/ Id(src, queue'[src].waiting_list[i]) \in Running
               \/ Id(src, queue'[src].waiting_list[i]) = pending'
    <3>1. CASE src = c
      <4> DEFINE w == queue[c].waiting_list
      <4>1. w \in Seq(Offsets(c))
        BY <1>1 DEF AckQueues
      <4> HIDE DEF w
      <4>2. queue'[src].waiting_list = Append(w, p)
        BY <1>7, <1>8, <3>1 DEF w
      <4>3. i \in 1..Len(Append(w, p))
        BY <2>4, <4>2
      <4>4. CASE i \in 1..Len(w)
        <5>1. Append(w, p)[i] = w[i]
          BY <4>1, <4>4
        <5> QED  BY <2>3, <3>1, <4>2, <4>4, <5>1 DEF w
      <4>5. CASE i = Len(w) + 1
        <5>1. Append(w, p)[i] = p
          BY <4>1, <4>5
        <5> QED  BY <1>0, <3>1, <4>2, <5>1
      <4>6. i \in 1..Len(w) \/ i = Len(w) + 1
        BY <1>0, <4>1, <4>3
      <4> QED  BY <4>4, <4>5, <4>6
    <3>2. CASE src # c
      BY <1>8, <2>3, <2>4, <3>2
    <3> QED  BY <3>1, <3>2
  <2> QED  BY <2>1, <2>2, <2>4 DEF LimitInv
<1>12. \A x : Told(x) => Told(x)'
  BY <1>0, DoneMono
<1>13. ASSUME NEW x \in Ids PROVE TaskInv(task[x], x)'
  <2>1. task'[x] = task[x] /\ TaskInv(task[x], x)
    BY <1>0 DEF IInv
  <2> QED  BY <1>0, <2>1, DoneMono
<1>14. (\A x \in acked : Told(x))'
  BY <1>0, <1>12 DEF IInv
<1>15. SuccessMeansStored'
  BY <1>0, MoreData
<1> QED  BY <1>9, <1>10, <1>11, <1>13, <1>14, <1>15 DEF IInv

\* A handler starts.
LEMMA StartIInv ==
    ASSUME IInv, NEW m \in Ids, m.offset \in Offsets(m.source),
           task' = [task EXCEPT ![m].step = "build"],
           UNCHANGED <<config, position, queue, stored, committed, data, reports, acked, reply,
                       restarts>>,
           PendingTypes', LimitInv'
    PROVE  IInv'
<1>1. task[m] \in Tasks /\ task \in [Ids -> Tasks]
  BY OneTask
<1>2. PICK t \in Tasks : t.step = "build" /\ task' = [task EXCEPT ![m] = t]
  <2> DEFINE t == [task[m] EXCEPT !.step = "build"]
  <2>1. t \in Tasks /\ t.step = "build"
    BY <1>1 DEF Tasks, Steps
  <2> QED  BY <2>1
<1>3. \A src : Offsets(src)' = Offsets(src) /\ Log' = Log
  BY DEF Offsets, Log
<1>4. \A src \in Sources : QInv(src)' /\ SourceTypes(src)'
  BY <1>3, SameSource, OneSource DEF SourceTypes
<1>5. Types'
  <2>1. task' \in [Ids -> Tasks]
    BY <1>1, <1>2
  <2> QED  BY <1>4, <2>1 DEF IInv, Types
<1>6. \A x : Told(x) => Told(x)'
  BY DoneMono
<1>7. ASSUME NEW x \in Ids PROVE TaskInv(task[x], x)'
  <2>1. CASE x = m
    <3>1. task'[x] = t
      BY <1>1, <1>2, <2>1
    <3>2. TaskInv(t, x)'
      BY <1>2, <1>3, <2>1 DEF TaskInv
    <3> QED  BY <3>1, <3>2
  <2>2. CASE x # m
    <3>1. task'[x] = task[x] /\ TaskInv(task[x], x)
      BY <1>1, <1>2, <2>2 DEF IInv
    <3> QED  BY <3>1, DoneMono
  <2> QED  BY <2>1, <2>2
<1>8. (\A x \in acked : Told(x))'
  BY <1>6 DEF IInv
<1>9. SuccessMeansStored'
  BY MoreData
<1> QED  BY <1>4, <1>5, <1>7, <1>8, <1>9 DEF IInv

\* The limiter has a permit for the message in hand.
LEMMA SpawnIInv == ASSUME IInv, Spawn PROVE IInv'
<1>0. /\ pending # NoMessage /\ Cardinality(Running) < TaskLimit
      /\ task' = [task EXCEPT ![pending].step = "build"] /\ pending' = NoMessage
      /\ UNCHANGED <<config, position, queue, stored, committed, data, reports, acked, reply,
                     restarts>>
  BY DEF Spawn
<1>1. pending \in Ids /\ pending.offset \in Offsets(pending.source)
  BY <1>0 DEF IInv, Types, PendingTypes
<1>2. PendingTypes'
  BY <1>0 DEF PendingTypes
<1>3. LimitInv'
  <2>1. Running' = Running \cup {pending}
    <3>1. task \in [Ids -> Tasks]
      BY DEF IInv, Types
    <3>2. \A x \in Ids : x # pending => task'[x] = task[x]
      BY <1>0, <3>1
    <3>3. task'[pending].step = "build"
      BY <1>0, <1>1, <3>1 DEF Tasks
    <3> QED  BY <1>1, <3>2, <3>3 DEF Running
  <2>2. OnQueue' = OnQueue /\ TaskLimit' = TaskLimit
    BY <1>0 DEF OnQueue, TaskLimit
  <2>3. ASSUME OnQueue PROVE IsFiniteSet(Running') /\ Cardinality(Running') <= TaskLimit
    <3>1. IsFiniteSet(Running)
      BY <2>3 DEF IInv, LimitInv
    <3>2. /\ IsFiniteSet(Running \cup {pending}) /\ Cardinality(Running) \in Nat
          /\ \/ Cardinality(Running \cup {pending}) = Cardinality(Running)
             \/ Cardinality(Running \cup {pending}) = Cardinality(Running) + 1
      BY <3>1, FS_AddElement, FS_CardinalityType
    <3>3. TaskLimit \in Nat
      BY ConstantsAssumption DEF IInv, Types, TaskLimit
    <3> QED  BY <1>0, <2>1, <3>2, <3>3
  <2> QED  BY <1>0, <2>1, <2>2, <2>3 DEF IInv, LimitInv
<1> QED  BY <1>0, <1>1, <1>2, <1>3, StartIInv

\* A gRPC call arrives.
LEMMA InsertIInv == ASSUME IInv, NEW m \in Ids, Insert(m) PROVE IInv'
<1>0. /\ ~ OnQueue /\ m.offset \in Offsets(m.source)
      /\ task' = [task EXCEPT ![m].step = "build"]
      /\ UNCHANGED <<config, position, queue, stored, pending, committed, data, reports, acked,
                     reply, restarts>>
  BY DEF Insert
<1>1. PendingTypes'
  BY <1>0, SameLoop
<1>2. LimitInv'
  <2>1. ~ OnQueue' /\ \A src \in Sources : queue'[src].waiting_list = <<>>
    BY <1>0, SameLoop DEF IInv, LimitInv
  <2>2. Len(<<>>) = 0 /\ 1..0 = {}
    OBVIOUS
  <2> QED  BY <2>1, <2>2 DEF LimitInv
<1> QED  BY <1>0, <1>1, <1>2, StartIInv

\* The stored offset of one consumer is committed.
LEMMA AutoCommitIInv == ASSUME IInv, NEW c \in Sources, AutoCommit(c) PROVE IInv'
<1>0. /\ stored[c] > committed[c] /\ committed' = [committed EXCEPT ![c] = stored[c]]
      /\ UNCHANGED <<config, position, queue, stored, pending, task, data, reports, acked, reply,
                     restarts>>
  BY DEF AutoCommit, process
<1>1. /\ stored[c] \in Int /\ committed[c] \in Int /\ committed[c] \in Offsets(c)
      /\ stored[c] \in Offsets(c) \cup {None} /\ QInv(c) /\ config \in Services
  BY OneSource
<1>2. Offsets(c) \in SUBSET Nat /\ None = -1
  BY <1>1, LogFacts
<1>3. stored[c] \in Offsets(c)
  BY <1>0, <1>1, <1>2
<1>4. committed \in [Sources -> Int]
  BY DEF IInv, Types
<1>5. /\ committed'[c] = stored[c]
      /\ \A src \in Sources : src # c => committed'[src] = committed[src]
  BY <1>0, <1>4
<1>6. \A src : Offsets(src)' = Offsets(src) /\ AckedOf(src)' = AckedOf(src) /\ Log' = Log
  BY <1>0 DEF Offsets, Log, AckedOf
<1>7. QueueInv(Offsets(c), queue[c], AckedOf(c), position[c], stored[c], stored[c])
  <2>1. QueueInv(Offsets(c), queue[c], AckedOf(c), position[c], stored[c], committed[c])
    BY <1>1 DEF QInv
  <2>2. AllBelow(Offsets(c), stored[c] + 1, AckedOf(c))
    BY <2>1, QueueInvBelow
  <2>3. \A o \in Offsets(c) : o < stored[c] => o < stored[c] + 1
    BY <1>1, <1>2
  <2>4. AllBelow(Offsets(c), stored[c], AckedOf(c))
    BY <2>2, <2>3 DEF AllBelow
  <2> QED  BY <2>1, <2>2, <2>4, QueueInvMoves
<1>8. ASSUME NEW src \in Sources PROVE QInv(src)' /\ SourceTypes(src)'
  <2>1. CASE src = c
    BY <1>0, <1>1, <1>3, <1>5, <1>6, <1>7, <2>1, OneSource DEF QInv, SourceTypes
  <2>2. CASE src # c
    BY <1>0, <1>5, <1>6, <2>2, OneSource DEF QInv, SourceTypes
  <2> QED  BY <2>1, <2>2
<1>9. Types'
  <2>1. committed' \in [Sources -> Int]
    BY <1>0, <1>1, <1>4
  <2>2. PendingTypes'
    BY <1>0, <1>6 DEF IInv, Types, PendingTypes
  <2> QED  BY <1>0, <1>8, <2>1, <2>2 DEF IInv, Types
<1>10. LimitInv'
  <2>1. Running' = Running /\ OnQueue' = OnQueue /\ TaskLimit' = TaskLimit
    BY <1>0 DEF Running, OnQueue, TaskLimit
  <2> QED  BY <1>0, <2>1 DEF IInv, LimitInv
<1>11. \A x : Told(x) => Told(x)'
  BY <1>0, DoneMono
<1>12. ASSUME NEW x \in Ids PROVE TaskInv(task[x], x)'
  <2>1. task'[x] = task[x] /\ TaskInv(task[x], x)
    BY <1>0 DEF IInv
  <2> QED  BY <1>0, <2>1, DoneMono
<1>13. (\A x \in acked : Told(x))'
  BY <1>0, <1>11 DEF IInv
<1>14. SuccessMeansStored'
  BY <1>0, MoreData
<1> QED  BY <1>8, <1>9, <1>10, <1>12, <1>13, <1>14 DEF IInv

------------------------------------------------------------------------------
(* The invariant holds. *)

\* It holds when the service starts.
LEMMA InitIInv == Init => IInv
<1> SUFFICES ASSUME Init PROVE IInv
  OBVIOUS
<1>0. /\ config \in Services /\ position = [src \in Sources |-> 0]
      /\ queue = [src \in Sources |-> NewQueue] /\ stored = [src \in Sources |-> None]
      /\ committed = [src \in Sources |-> 0] /\ pending = NoMessage
      /\ task = [m \in Ids |-> NoTask] /\ data = {} /\ reports = {} /\ acked = {}
      /\ reply = [m \in Ids |-> "none"] /\ restarts = 0
  BY DEF Init
<1>1. NoTask \in Tasks /\ NoTask.step = "none" /\ MaxRestarts \in Nat
  BY ConstantsAssumption DEF NoTask, Tasks, Steps
<1>2. ASSUME NEW src \in Sources PROVE SourceTypes(src) /\ QInv(src)
  <2>1. /\ position[src] = 0 /\ queue[src] = NewQueue /\ stored[src] = None
        /\ committed[src] = 0
    BY <1>0
  <2>2. /\ Offsets(src) \in SUBSET Nat /\ 0 \in Offsets(src) /\ None = -1
        /\ NewQueue \in AckQueues(Offsets(src)) /\ Len(Log[src]) \in Nat
    BY <1>0, LogFacts
  <2>3. AllBelow(Offsets(src), 0, AckedOf(src)) /\ 0 \in 0 .. Len(Log[src]) /\ -1 < 0 /\ 0 \in Int
    BY <2>2 DEF AllBelow
  <2>4. QueueInv(Offsets(src), NewQueue, AckedOf(src), 0, -1, 0)
    BY <2>2, <2>3, NewQueueInv
  <2>5. QueueOrdered(NewQueue, -1, 0)
    <3>1. NewQueue.waiting_list = <<>> /\ Len(<<>>) = 0 /\ 1..0 = {}
      BY DEF NewQueue
    <3> QED  BY <2>3, <3>1 DEF QueueOrdered, Ordered
  <2> QED  BY <2>1, <2>2, <2>3, <2>4, <2>5 DEF SourceTypes, QInv
<1>3. Types
  <2>1. None \in Int /\ NewQueue \in AckQueues(Int) /\ 0 \in Int
    BY DEF None, NewQueue, AckQueues
  <2>2. /\ position \in [Sources -> Int] /\ stored \in [Sources -> Int]
        /\ committed \in [Sources -> Int] /\ queue \in [Sources -> AckQueues(Int)]
    BY <1>0, <2>1
  <2>3. task \in [Ids -> Tasks] /\ reply \in [Ids -> {"none", "ok", "error"}]
    BY <1>0, <1>1
  <2>4. restarts \in 0 .. MaxRestarts
    BY <1>0, <1>1
  <2>5. PendingTypes
    BY <1>0 DEF PendingTypes
  <2> QED  BY <1>0, <1>2, <2>2, <2>3, <2>4, <2>5 DEF Types
<1>4. LimitInv
  <2>1. \A m \in Ids : task[m].step = "none"
    BY <1>0, <1>1
  <2>2. Running = {}
    BY <2>1 DEF Running
  <2>3. \A src \in Sources : queue[src].waiting_list = <<>>
    BY <1>0 DEF NewQueue
  <2>4. Len(<<>>) = 0 /\ 1..0 = {}
    OBVIOUS
  <2>5. IsFiniteSet({}) /\ Cardinality({}) = 0
    BY FS_EmptySet
  <2>6. TaskLimit \in Nat
    BY <1>0, ConstantsAssumption DEF TaskLimit
  <2>7. 0 <= TaskLimit
    BY <2>6
  <2> QED  BY <2>2, <2>3, <2>4, <2>5, <2>7 DEF LimitInv
<1>5. \A m \in Ids : TaskInv(task[m], m)
  BY <1>0, <1>1 DEF TaskInv
<1>6. SuccessMeansStored
  BY <1>0 DEF SuccessMeansStored
<1> QED  BY <1>0, <1>2, <1>3, <1>4, <1>5, <1>6 DEF IInv

\* Nothing happens.
LEMMA StutterIInv == ASSUME IInv, UNCHANGED vars PROVE IInv'
<1>0. UNCHANGED <<config, position, queue, stored, pending, task, committed, data, reports,
                  acked, reply, restarts>>
  BY DEF vars, process
<1>1. Types' /\ LimitInv'
  <2>1. Running' = Running
    BY <1>0 DEF Running
  <2> QED  BY <1>0, <2>1, SameLoop DEF IInv, Types, LimitInv
<1>2. ASSUME NEW m \in Ids PROVE TaskInv(task[m], m)' /\ (Told(m) => Told(m)')
  BY <1>0, DoneMono DEF IInv
<1>3. acked \subseteq Ids
  BY DEF IInv, Types
<1> QED  BY <1>0, <1>1, <1>2, <1>3, SameLoop, MoreData DEF IInv

\* Every step keeps the invariant.
LEMMA NextIInv == IInv /\ [Next]_vars => IInv'
<1> SUFFICES ASSUME IInv, [Next]_vars PROVE IInv'
  OBVIOUS
<1>1. ASSUME NEW src \in Sources, Receive(src) \/ AutoCommit(src) PROVE IInv'
  BY <1>1, ReceiveIInv, AutoCommitIInv
<1>2. CASE Spawn
  BY <1>2, SpawnIInv
<1>3. CASE Restart
  BY <1>3, RestartIInv
<1>4. ASSUME NEW m \in Ids, Store(m) PROVE IInv'
  BY <1>4, PostgresIInv, DruidIInv, VictoriaIInv DEF Store
<1>5. ASSUME NEW m \in Ids, Insert(m) \/ Handle(m) \/ ReportFails(m) PROVE IInv'
  BY <1>4, <1>5, InsertIInv, BuildIInv, ReportIInv, AckIInv, ReportFailsIInv DEF Handle
<1>6. CASE UNCHANGED vars
  BY <1>6, StutterIInv
<1> QED  BY <1>1, <1>2, <1>3, <1>5, <1>6 DEF Next

------------------------------------------------------------------------------
(* The properties *)

\* The type invariant of the service, its ack queues and the reports included.
THEOREM TypeCorrect == Spec => []TypeOK
<1>1. IInv => TypeOK
  <2> SUFFICES ASSUME IInv PROVE TypeOK
    OBVIOUS
  <2>1. \A src \in Sources : queue[src].waiting_list \in Seq(Offsets(src))
    BY OneSource DEF AckQueues
  <2> QED  BY <2>1, OneSource DEF IInv, Types, PendingTypes, TypeOK
<1> QED  BY <1>1, InitIInv, NextIInv, PTL DEF Spec

\* A message a restart may skip was not malformed and, where reports are sent, has
\* its resolution in the report topic: the handlers of all consumers run and die
\* in any order, and ack comes last in each.
THEOREM PassedIsReportedHolds == Spec => []PassedIsReported
<1>1. IInv => PassedIsReported
  <2> SUFFICES ASSUME IInv, NEW m \in Ids, Passed(m) PROVE Told(m)
    BY DEF PassedIsReported, Told
  <2> DEFINE c == m.source
             e == m.offset
  <2>1. c \in Sources /\ e \in Int /\ m = Id(c, e)
    BY IdFacts
  <2>2. /\ QInv(c) /\ stored[c] \in Int /\ stored[c] \in Offsets(c) \cup {None}
        /\ committed[c] \in Int /\ committed[c] \in Offsets(c) /\ config \in Services
    BY <2>1, OneSource
  <2>3. Len(Log[c]) \in Nat /\ Offsets(c) \in SUBSET Int /\ None = -1
    BY <2>1, <2>2, LogFacts
  <2>4. e >= 0
    <3>1. PICK src \in Sources, s \in Services :
             m \in {[source |-> src, offset |-> o] : o \in OffsetsOf(s.log, src)}
      BY DEF Ids
    <3>2. PICK o \in OffsetsOf(s.log, src) : m = [source |-> src, offset |-> o]
      BY <3>1
    <3>3. o >= 0
      BY ConstantsAssumption DEF OffsetsOf
    <3> QED  BY <3>2, <3>3
  <2>5. AllBelow(Offsets(c), stored[c] + 1, AckedOf(c)) /\ AllBelow(Offsets(c), committed[c], AckedOf(c))
    BY <2>2, QueueInvBelow DEF QInv
  <2>6. ASSUME e < committed[c] \/ e <= stored[c] PROVE m \in acked
    <3> HIDE DEF c, e
    <3>1. PICK n \in Nat : Offsets(c) = 0 .. n - 1
      BY <2>3 DEF Offsets, OffsetsOf
    <3>2. stored[c] <= n - 1 \/ stored[c] = -1
      BY <2>2, <2>3, <3>1
    <3>3. committed[c] <= n - 1
      BY <2>2, <3>1
    <3>4. e \in 0 .. n - 1
      BY <2>1, <2>2, <2>4, <2>6, <3>2, <3>3
    <3>5. e <= stored[c] => e < stored[c] + 1
      BY <2>1, <2>2
    <3>6. e \in AckedOf(c)
      BY <2>5, <2>6, <3>1, <3>4, <3>5 DEF AllBelow
    <3> QED  BY <2>1, <3>6 DEF AckedOf
  <2>7. m \in acked
    BY <2>6 DEF Passed
  <2> QED  BY <2>7 DEF IInv
<1> QED  BY <1>1, InitIInv, NextIInv, PTL DEF Spec

\* A report of Success is about data that is in the repository, for PostgreSQL
\* and VictoriaMetrics, across failures of the connection and restarts.
THEOREM SuccessMeansStoredHolds == Spec => []SuccessMeansStored
<1>1. IInv => SuccessMeansStored
  BY DEF IInv
<1> QED  BY <1>1, InitIInv, NextIInv, PTL DEF Spec

\* The ack queues of all consumers together hold at most --task-limit messages
\* and the one in hand: the limiter is shared, and an entry leaves the queue in
\* the step in which its handler ends.
THEOREM QueuesAreBoundedHolds == Spec => []QueuesAreBounded
<1>1. IInv => QueuesAreBounded
  <2> SUFFICES ASSUME IInv PROVE Cardinality(Waiting) <= TaskLimit + 1
    BY DEF QueuesAreBounded
  <2>0. TaskLimit \in Nat
    BY ConstantsAssumption DEF IInv, Types, TaskLimit
  <2>1. \A x \in Waiting : /\ x = <<x[1], x[2]>> /\ x[1] \in Sources
                           /\ x[2] \in 1..Len(queue[x[1]].waiting_list)
    BY DEF Waiting
  <2>2. CASE ~ OnQueue
    <3>1. \A src \in Sources : queue[src].waiting_list = <<>>
      BY <2>2 DEF IInv, LimitInv
    <3>2. Len(<<>>) = 0 /\ 1..0 = {}
      OBVIOUS
    <3>3. Waiting = {}
      BY <2>1, <3>1, <3>2
    <3> QED  BY <2>0, <3>3, FS_EmptySet
  <2>3. CASE OnQueue
    <3> DEFINE T == Running \cup {pending}
               f == [x \in Waiting |-> Id(x[1], queue[x[1]].waiting_list[x[2]])]
    <3>1. IsFiniteSet(Running) /\ Cardinality(Running) <= TaskLimit
      BY <2>3 DEF IInv, LimitInv
    <3>2. /\ IsFiniteSet(T) /\ Cardinality(Running) \in Nat
          /\ Cardinality(T) = Cardinality(Running) \/ Cardinality(T) = Cardinality(Running) + 1
      BY <3>1, FS_AddElement, FS_CardinalityType
    <3>3. \A x \in Waiting : f[x] \in T
      BY <2>1 DEF IInv, LimitInv
    <3>4. ASSUME NEW x \in Waiting, NEW y \in Waiting, f[x] = f[y] PROVE x = y
      <4>1. x[1] = y[1] /\ queue[x[1]].waiting_list[x[2]] = queue[x[1]].waiting_list[y[2]]
        BY <3>4 DEF Id
      <4>2. PICK src \in Sources : src = x[1] /\ src = y[1]
        BY <2>1, <4>1
      <4> DEFINE w == queue[src].waiting_list
      <4>3. w \in Seq(Int)
        <5>1. queue[src] \in AckQueues(Int)
          BY DEF IInv, Types
        <5> QED  BY <5>1 DEF AckQueues
      <4>4. \A i, j \in 1..Len(w) : i < j => w[i] < w[j]
        BY OneSource DEF QInv, QueueOrdered, Ordered
      <4>5. PICK i \in 1..Len(w), j \in 1..Len(w) : i = x[2] /\ j = y[2] /\ w[i] = w[j]
        BY <2>1, <4>1, <4>2
      <4> HIDE DEF w
      <4>6. w[i] \in Int /\ w[j] \in Int /\ i \in Int /\ j \in Int
        BY <4>3
      <4>7. i = j
        BY <4>4, <4>5, <4>6
      <4> QED  BY <2>1, <4>2, <4>5, <4>7
    <3>5. f \in Injection(Waiting, T)
      <4>1. f \in [Waiting -> T]
        BY <3>3
      <4> HIDE DEF f, T
      <4> QED  BY <3>4, <4>1 DEF Injection, IsInjective
    <3> HIDE DEF f, T
    <3>6. Cardinality(Waiting) <= Cardinality(T) /\ IsFiniteSet(Waiting)
      BY <3>2, <3>5, FS_Injection
    <3>7. Cardinality(Waiting) \in Nat /\ Cardinality(T) \in Nat
      BY <3>2, <3>6, FS_CardinalityType
    <3> QED  BY <2>0, <3>1, <3>2, <3>6, <3>7
  <2> QED  BY <2>2, <2>3
<1> QED  BY <1>1, InitIInv, NextIInv, PTL DEF Spec
==============================================================================
