---------------------------- MODULE Replication ----------------------------
(***************************************************************************)
(* The replication of the schema registry (schema-registry/src/replication *)
(* and the role handling of rpc.rs) with the leader elector                *)
(* (leader-elector/src/main.rs), for pods of a StatefulSet: a pod keeps    *)
(* its name, its database and its consumer group when it is restarted, and *)
(* starts as a slave.                                                      *)
(*                                                                         *)
(* A slave applies the events of the replication topic one by one and      *)
(* acknowledges those it could apply.  A master should publish its writes  *)
(* there: start_replication_master hands the future of replicate_db_events *)
(* back as the result of a thread, where it is dropped unpolled, so the    *)
(* channel's receiver and the stop signal's receiver go with the thread    *)
(* and nothing is published.  The topic is therefore an input of the model *)
(* (Publish).                                                              *)
(***************************************************************************)
EXTENDS Naturals, Sequences, FiniteSets, FiniteSetsExt, KafkaAckQueue

CONSTANTS
  Pods,      \* the instances of the schema registry
  Events,    \* the replication topic, events of one schema and one view of it
  Requests,  \* what clients ask any instance to write, of the same schema and view
  MaxFaults, \* bound: crashes, lost answers and errors of store and broker
  MaxWrites  \* bound: writes of clients

Kinds == {"AddSchema", "AddSchemaVersion", "UpdateSchemaMetadata", "AddViewToSchema",
          "UpdateView"}
EventTypes == [kind : Kinds \cup {"Unreadable"}, version : Nat]

\* Nothing is assumed of the order of the events: the handlers of the master pass
\* them on after their writes, in any order, and each is published by a task of
\* its own, so that an update may come before the event that adds its schema.
ASSUME ReplicationAssumption ==
  /\ Events \in Seq(EventTypes)
  /\ Requests \subseteq [kind : Kinds, version : Nat]
  /\ MaxFaults \in Nat /\ MaxWrites \in Nat

Nobody == "nobody"

VARIABLES
  pod,       \* the process and the pod object of each instance
  db,        \* the database of each instance, with the history of what it took in
  committed, \* the offset of each pod's consumer group
  published, \* events on the topic so far
  elector,   \* the leader elector: what it does next, to which pod
  faults

vars == <<pod, db, committed, published, elector, faults>>

Fault == faults < MaxFaults /\ faults' = faults + 1

\* A process as SchemaRegistryImpl::new leaves it: REPLICATION_ROLE is slave.
\* The consumer is at the committed offset, the label is the pod's.
Started(offset, label) ==
  [up |-> TRUE, label |-> label, role |-> "slave", poisoned |-> FALSE,
   stream |-> "open", killed |-> FALSE, thread |-> FALSE, outbox |-> 0,
   pos |-> offset, event |-> 0, step |-> "none", queue |-> NewQueue,
   stored |-> offset, clean |-> TRUE]

Down(label) == [Started(1, label) EXCEPT !.up = FALSE, !.stream = "closed"]

-----------------------------------------------------------------------------
(* SchemaDb, as far as events and requests depend on it: the vertex of the  *)
(* schema, who wrote the property that metadata updates carry, the greatest *)
(* version (0 for none, 1 for 1.0.0, the one add_schema makes), the view.   *)

Client == Len(Events) + 1   \* a client of the instance, as a writer after any event

NewDb == [schema |-> FALSE, meta |-> 0, version |-> 0, view |-> "none",
          applied |-> {}, writes |-> {}]

\* An id that is there is refused (DuplicatedUuid), complete or not; an update, a
\* version and a view need the vertex of the schema, a version must be the
\* greatest, and update_view reads the properties of the view first.  A payload
\* that cannot be read is refused by consume_message.
CanApply(d, ev) ==
  \/ ev.kind = "AddSchema" /\ ~d.schema
  \/ ev.kind = "UpdateSchemaMetadata" /\ d.schema
  \/ ev.kind = "AddSchemaVersion" /\ d.schema /\ ev.version > d.version
  \/ ev.kind = "AddViewToSchema" /\ d.schema /\ d.view = "none"
  \/ ev.kind = "UpdateView" /\ d.view = "whole"

\* Mutant: metadata that is set is not overwritten.
EffectUnlessSet(d, ev, writer) ==
  CASE ev.kind = "AddSchema" -> [d EXCEPT !.schema = TRUE, !.meta = writer, !.version = 1]
    [] ev.kind = "UpdateSchemaMetadata" -> [d EXCEPT !.meta = IF @ = 0 THEN writer ELSE @]
    [] ev.kind = "AddSchemaVersion" -> [d EXCEPT !.version = ev.version]
    [] ev.kind = "AddViewToSchema" -> [d EXCEPT !.view = "whole"]
    [] OTHER -> d

Effect(d, ev, writer) ==
  CASE ev.kind = "AddSchema" -> [d EXCEPT !.schema = TRUE, !.meta = writer, !.version = 1]
    [] ev.kind = "UpdateSchemaMetadata" -> [d EXCEPT !.meta = writer]
    [] ev.kind = "AddSchemaVersion" -> [d EXCEPT !.version = ev.version]
    [] ev.kind = "AddViewToSchema" -> [d EXCEPT !.view = "whole"]
    [] OTHER -> d

\* The first operation of a creation has made the vertex and no more.
VertexOnly(d, ev) ==
  CASE ev.kind = "AddSchema" -> [d EXCEPT !.schema = TRUE]
    [] ev.kind = "AddViewToSchema" -> [d EXCEPT !.view = "vertex"]
    [] OTHER -> d

-----------------------------------------------------------------------------
(* ReplicationState::set_role and replicate_message, under the mutex of     *)
(* SchemaRegistryImpl::replication                                          *)

\* The receiver of stop_channel lives in the slave's task or in the thread.
StopReceiverLives(p) == IF pod[p].role = "slave" THEN pod[p].stream = "open"
                                                 ELSE pod[p].thread

\* promote_to_master: what becomes of the pod.  A poisoned mutex aborts the
\* process, a lost receiver panics in send(()).unwrap() and poisons it.
\* Mutant: a poisoned mutex makes the call fail and no more.
PromotedOrStuck(p) ==
  CASE pod[p].poisoned -> pod[p]
    [] ~pod[p].poisoned /\ ~StopReceiverLives(p) -> [pod[p] EXCEPT !.poisoned = TRUE]
    [] OTHER -> [pod[p] EXCEPT !.role = "master", !.killed = TRUE,
                               !.thread = TRUE, !.outbox = 0]

Promoted(p) ==
  CASE pod[p].poisoned -> Down(pod[p].label)
    [] ~pod[p].poisoned /\ ~StopReceiverLives(p) -> [pod[p] EXCEPT !.poisoned = TRUE]
    [] OTHER -> [pod[p] EXCEPT !.role = "master", !.killed = TRUE,
                               !.thread = TRUE, !.outbox = 0]

PromotionSucceeds(p) == ~pod[p].poisoned /\ StopReceiverLives(p)

\* The closure of the thread has returned: both receivers are gone.
ThreadEnds(p) ==
  /\ pod[p].up /\ pod[p].thread
  /\ pod' = [pod EXCEPT ![p].thread = FALSE, ![p].outbox = 0]
  /\ UNCHANGED <<db, committed, published, elector, faults>>

\* replicate_message: only a master sends, into a channel nobody reads, and only
\* while it exists.
Replicated(p) ==
  CASE pod[p].poisoned -> Down(pod[p].label)
    [] ~pod[p].poisoned /\ pod[p].role = "master" /\ pod[p].thread ->
         [pod[p] EXCEPT !.outbox = @ + 1]
    [] OTHER -> pod[p]

\* A handler of rpc.rs writes for a client, in whatever role the instance is, and
\* calls replicate_message.  A refused request changes nothing.
Write(p, request) ==
  /\ pod[p].up
  /\ p \notin db[p].writes /\ Cardinality(UNION {db[q].writes : q \in Pods}) < MaxWrites
  /\ CanApply(db[p], request)
  /\ db' = [db EXCEPT ![p] = [Effect(db[p], request, Client) EXCEPT !.writes = @ \cup {p}]]
  /\ pod' = [pod EXCEPT ![p] = Replicated(p)]
  /\ UNCHANGED <<committed, published, elector, faults>>

-----------------------------------------------------------------------------
(* slave.rs: consume_mq and consume_message *)

\* Outside this program: somebody puts an event on the topic.
Publish ==
  /\ published < Len(Events)
  /\ published' = published + 1
  /\ UNCHANGED <<pod, db, committed, elector, faults>>

Consuming(p) == pod[p].up /\ pod[p].stream = "open"

\* The next message.  A stop signal is noticed now, and the message is dropped.
Receive(p) ==
  /\ Consuming(p)
  /\ pod[p].event = 0
  /\ pod[p].pos <= published
  /\ pod' = [pod EXCEPT ![p] =
       IF pod[p].killed
       THEN [pod[p] EXCEPT !.stream = "closed"]
       ELSE [pod[p] EXCEPT !.queue = QueueAdd(@, pod[p].pos), !.pos = @ + 1,
                           !.event = pod[p].pos, !.step = "apply"]]
  /\ UNCHANGED <<db, committed, published, elector, faults>>

Acceptable(p) == CanApply(db[p], Events[pod[p].event])

Apply(p) ==
  /\ Consuming(p)
  /\ pod[p].step = "apply"
  /\ Acceptable(p)
  /\ LET e == pod[p].event
     IN  db' = [db EXCEPT ![p] = [Effect(db[p], Events[e], e) EXCEPT !.applied = @ \cup {e}]]
  /\ pod' = [pod EXCEPT ![p].step = "ack"]
  /\ UNCHANGED <<committed, published, elector, faults>>

\* Mutant: an event that was refused is acknowledged like the others.
RefusedButAcked(p) ==
  /\ Consuming(p)
  /\ pod[p].step = "apply"
  /\ ~Acceptable(p)
  /\ pod' = [pod EXCEPT ![p].step = "ack"]
  /\ UNCHANGED <<db, committed, published, elector, faults>>

\* The event is refused: the error is logged, the message stays unacknowledged
\* and the loop goes on.
Refused(p) ==
  /\ Consuming(p)
  /\ pod[p].step = "apply"
  /\ ~Acceptable(p)
  /\ pod' = [pod EXCEPT ![p].step = "none", ![p].event = 0]
  /\ UNCHANGED <<db, committed, published, elector, faults>>

\* What operations of the store that fail half-way, or a crash, leave of an event:
\* nothing, its vertex, or all that others can see of it.
PartlyApplied(p) ==
  IF pod[p].step = "apply" /\ Acceptable(p)
  THEN {db[p], VertexOnly(db[p], Events[pod[p].event]),
        Effect(db[p], Events[pod[p].event], pod[p].event)}
  ELSE {db[p]}

StoreFails(p) ==
  /\ Consuming(p)
  /\ pod[p].step = "apply"
  /\ Fault
  /\ \E d \in PartlyApplied(p) : db' = [db EXCEPT ![p] = d]
  /\ pod' = [pod EXCEPT ![p].step = "none", ![p].event = 0, ![p].clean = FALSE]
  /\ UNCHANGED <<committed, published, elector>>

\* message.ack()
Ack(p) ==
  /\ Consuming(p)
  /\ pod[p].step = "ack"
  /\ LET q == pod[p].queue
         e == pod[p].event
     IN  pod' = [pod EXCEPT ![p] = [pod[p] EXCEPT
                   !.queue = QueueAck(q, e), !.step = "none", !.event = 0,
                   !.stored = IF AckStores(q, e) THEN OffsetToStore(q, e) ELSE @]]
  /\ UNCHANGED <<db, committed, published, elector, faults>>

AutoCommit(p) ==
  /\ Consuming(p)
  /\ committed[p] # pod[p].stored
  /\ committed' = [committed EXCEPT ![p] = pod[p].stored]
  /\ UNCHANGED <<pod, db, published, elector, faults>>

\* An error of the consumer is logged and ends its stream, and with it the
\* task: the slave goes on serving and applies nothing more.
StreamFails(p) ==
  /\ Consuming(p)
  /\ pod[p].event = 0
  /\ Fault
  /\ pod' = [pod EXCEPT ![p].stream = "closed"]
  /\ UNCHANGED <<db, committed, published, elector>>

-----------------------------------------------------------------------------
(* The pods *)

Crash(p) ==
  /\ pod[p].up
  /\ Fault
  /\ \E d \in PartlyApplied(p) : db' = [db EXCEPT ![p] = d]
  /\ pod' = [pod EXCEPT ![p] = Down(pod[p].label)]
  /\ UNCHANGED <<committed, published, elector>>

\* The kubelet starts the container again, with the pod's labels as they are.
Restart(p) ==
  /\ ~pod[p].up
  /\ pod' = [pod EXCEPT ![p] = Started(committed[p], pod[p].label)]
  /\ UNCHANGED <<db, committed, published, elector, faults>>

-----------------------------------------------------------------------------
(* LeaderElector::elect_leader *)

Labelled == {p \in Pods : pod[p].label}
Answering == {p \in Labelled : pod[p].up}
Sleeping == [pc |-> "sleep", pod |-> Nobody]

\* The pod behind the master service answers: the loop sleeps again.
Heartbeat ==
  /\ elector.pc = "sleep"
  /\ Answering # {}
  /\ UNCHANGED vars

\* No pod answers, or (HeartbeatLost) the answer does not come through.
HeartbeatFails ==
  /\ elector.pc = "sleep"
  /\ Answering = {}
  /\ elector' = [pc |-> "remove", pod |-> Nobody]
  /\ UNCHANGED <<pod, db, committed, published, faults>>

HeartbeatLost ==
  /\ elector.pc = "sleep"
  /\ Answering # {}
  /\ Fault
  /\ elector' = [pc |-> "remove", pod |-> Nobody]
  /\ UNCHANGED <<pod, db, committed, published>>

\* Mutant: the old master is left alone.
RemoveNobody ==
  /\ elector.pc = "remove"
  /\ elector' = [pc |-> "promote", pod |-> Nobody]
  /\ UNCHANGED <<pod, db, committed, published, faults>>

\* remove_master_instance: the deleted pod comes back without the label.
RemoveMasterInstance ==
  /\ elector.pc = "remove"
  /\ \E d \in [Labelled -> UNION {PartlyApplied(p) : p \in Pods}] :
       /\ \A p \in Labelled : d[p] \in PartlyApplied(p)
       /\ db' = [p \in Pods |-> IF p \in Labelled THEN d[p] ELSE db[p]]
  /\ pod' = [p \in Pods |-> IF p \in Labelled THEN Down(FALSE) ELSE pod[p]]
  /\ elector' = [pc |-> "promote", pod |-> Nobody]
  /\ UNCHANGED <<committed, published, faults>>

\* promote_slave_to_master: the service hands the call to any pod that is up;
\* without one, or on an error of the pod, the elector sleeps again.
Promote ==
  /\ elector.pc = "promote"
  /\ \/ /\ \E p \in Pods :
             /\ pod[p].up
             /\ pod' = [pod EXCEPT ![p] = Promoted(p)]
             /\ elector' = IF PromotionSucceeds(p) THEN [pc |-> "label", pod |-> p]
                                                   ELSE Sleeping
     \/ /\ \A p \in Pods : ~pod[p].up
        /\ elector' = Sleeping
        /\ UNCHANGED pod
  /\ UNCHANGED <<db, committed, published, faults>>

\* The answer of a promotion that was made is lost.
PromotionLost ==
  /\ elector.pc = "promote"
  /\ Fault
  /\ \E p \in Pods : /\ pod[p].up
                     /\ pod' = [pod EXCEPT ![p] = Promoted(p)]
  /\ elector' = Sleeping
  /\ UNCHANGED <<db, committed, published>>

Label ==
  /\ elector.pc = "label"
  /\ pod' = [pod EXCEPT ![elector.pod].label = TRUE]
  /\ elector' = Sleeping
  /\ UNCHANGED <<db, committed, published, faults>>

\* An error of the Kubernetes API ends the elector, which is started again.
ElectorFails ==
  /\ elector.pc # "sleep"
  /\ Fault
  /\ elector' = Sleeping
  /\ UNCHANGED <<pod, db, committed, published>>

-----------------------------------------------------------------------------
Init ==
  /\ pod = [p \in Pods |-> Started(1, FALSE)]
  /\ db = [p \in Pods |-> NewDb]
  /\ committed = [p \in Pods |-> 1]
  /\ published = 0
  /\ elector = Sleeping
  /\ faults = 0

SlaveStep(p) == Receive(p) \/ Apply(p) \/ Refused(p) \/ Ack(p) \/ AutoCommit(p)
ElectorStep == HeartbeatFails \/ RemoveMasterInstance \/ Promote \/ Label

Next ==
  \/ \E p \in Pods : \/ SlaveStep(p) \/ StoreFails(p) \/ StreamFails(p)
                     \/ ThreadEnds(p) \/ Crash(p) \/ Restart(p)
                     \/ \E request \in Requests : Write(p, request)
  \/ Publish \/ ElectorStep \/ Heartbeat \/ HeartbeatLost \/ PromotionLost \/ ElectorFails

\* Processes that can go on do so: the slave's task, the thread, the elector's
\* loop, and the kubelet that restarts a container.  Faults, writes and events
\* need not happen.
Fairness ==
  /\ \A p \in Pods : WF_vars(SlaveStep(p)) /\ WF_vars(ThreadEnds(p)) /\ WF_vars(Restart(p))
  /\ WF_vars(ElectorStep)

Spec == Init /\ [][Next]_vars /\ Fairness

-----------------------------------------------------------------------------
(* Properties *)

\* Every variable has its type; offsets stay within the topic.
TypeOK ==
  /\ published \in 0..Len(Events)
  /\ \A p \in Pods :
       /\ pod[p].up \in BOOLEAN /\ pod[p].label \in BOOLEAN
       /\ pod[p].role \in {"slave", "master"}
       /\ pod[p].stream \in {"open", "closed"}
       /\ pod[p].step \in {"none", "apply", "ack"}
       /\ pod[p].pos \in 1..(published + 1)
       /\ committed[p] \in 1..(published + 1) /\ (committed[p] > 1 => committed[p] <= published)
       /\ db[p].schema \in BOOLEAN /\ db[p].view \in {"none", "vertex", "whole"}
       /\ db[p].meta \in 0..published \cup {Client} /\ db[p].applied \subseteq 1..published
  /\ elector.pc \in {"sleep", "remove", "promote", "label"}

\* A slave never passes over an event it could not apply: what a restart does
\* not read again was applied, however the acknowledgements were refused.
NotSkipped ==
  \A p \in Pods : \A e \in 1..(committed[p] - 1) : e \in db[p].applied

\* The events of a kind among the first n that are behind an AddSchema.  One that
\* has overtaken its AddSchema is refused, and lost until a restart reads it again.
Behind(kind, n) ==
  {e \in 1..n : Events[e].kind = kind /\ \E f \in 1..(e - 1) : Events[f].kind = "AddSchema"}

\* A slave that has read the topic to its end, with no store failure since it
\* was started, has the last metadata update that is behind an AddSchema, unless
\* a client of this instance has overwritten it, and no version behind one is
\* missing that is greater than all it has: reading events a second time after a
\* restart may show old values for a while and ends with the newest
\* (consume_message).
ReplayConverges ==
  \A p \in Pods :
    Consuming(p) /\ pod[p].clean /\ pod[p].event = 0 /\ pod[p].pos = published + 1 =>
      /\ LET updates == Behind("UpdateSchemaMetadata", published)
         IN  updates # {} => db[p].meta \in {Max(updates), Client}
      /\ \A e \in Behind("AddSchemaVersion", published) : db[p].version >= Events[e].version

\* The elector never leaves two pods behind the master service.
OneMasterLabel == Cardinality(Labelled) <= 1

\* Once the faults stop, the master service gets a pod that answers and keeps
\* it, whatever poisoned or half-promoted pods were left behind.
ServiceRecovers == <>[](Answering # {})

\* A write whose event the master has handed to its replication channel reaches
\* the other instances: "Replication across multiple instances of the Schema
\* Registry is supported" (docs/schema_registry.md).
WritesReachReplicas ==
  \A p, q \in Pods : pod[p].outbox > 0 ~> p \in db[q].writes
=============================================================================
