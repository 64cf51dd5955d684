----------------------------- MODULE GraphqlApi -----------------------------
(***************************************************************************)
(* The stateful part of the GraphQL API (api/src): the mutations that put  *)
(* messages on the topic of the data router, and the subscription to the   *)
(* topic of the reports, which all websocket clients share.                *)
(*                                                                         *)
(* The first subscriber creates a consumer under the async mutex of        *)
(* Context::mq_events; a task forwards what it reads to a broadcast        *)
(* channel of fixed capacity, and every client has a receiver of its own.  *)
(* Nothing is acknowledged, so a new process reads the topic from its      *)
(* beginning.  Data router and command service are reduced to "a message   *)
(* on the data topic is reported, in order" (Reported).                    *)
(***************************************************************************)
EXTENDS Naturals, Sequences, FiniteSets, SequencesExt, SequenceFilter

CONSTANTS
  Clients,     \* websocket clients that subscribe to the reports
  Inserts,     \* insert_message and insert_batch requests
  Batch,       \* request -> its messages, one for insert_message
  Unreadable,  \* messages whose payload is not JSON
  NoPayload,   \* messages whose report has no payload
  Capacity,    \* of the broadcast channel, 32 in the code
  MayBreak,    \* does the consumer's stream ever end?
  MaxCrashes   \* bound: restarts of the process

Nobody == "nobody"

ASSUME ApiAssumption ==
  /\ Capacity \in Nat \ {0}
  /\ Batch \in [Inserts -> Seq(UNION {ToSet(Batch[r]) : r \in Inserts})]
  /\ MayBreak \in BOOLEAN /\ MaxCrashes \in Nat
  /\ Nobody \notin Clients

\* The items of the topics: a message with the request it came with.
ItemsOf(r) == {<<r, Batch[r][i]>> : i \in DOMAIN Batch[r]}
Items == UNION {ItemsOf(r) : r \in Inserts}

VARIABLES
  insert,    \* request -> where it stands and its next message
  dataTopic, \* what was published for the data router
  reports,   \* the topic of the reports
  lock,      \* who holds the mutex of mq_events
  entry,     \* is there a subscriber in the map?
  consumer,  \* the forwarding task: its state and its position in reports
  channel,   \* everything sent to the broadcast channel of the entry
  client,    \* client -> state, position in the channel, events shown
  consumers, \* history: consumers created by this process
  crashes

apiVars == <<insert, dataTopic, reports>>
streamVars == <<lock, entry, consumer, channel, client, consumers>>
vars == <<apiVars, streamVars, crashes>>

NoConsumer == [state |-> "none", next |-> 1]
NoStream == [state |-> "away", pos |-> 0, shown |-> << >>, first |-> 0]
StreamFrom(pos, first) ==
  [state |-> "streaming", pos |-> pos, shown |-> << >>, first |-> first]

-----------------------------------------------------------------------------
(* insert_message and insert_batch *)

\* Mutant: the loop goes on behind a message that fails.
PublishOthers(r) ==
  /\ insert[r].state = "sending"
  /\ LET i == insert[r].next
         m == Batch[r][i]
     IN  /\ dataTopic' = IF m \in Unreadable THEN dataTopic ELSE Append(dataTopic, <<r, m>>)
         /\ insert' = [insert EXCEPT ![r] =
              [state |-> IF i = Len(Batch[r]) THEN "true" ELSE "sending", next |-> i + 1]]
  /\ UNCHANGED <<reports, streamVars, crashes>>

\* One turn of the loop: the payload is read as JSON and the message is sent.
Publish(r) ==
  /\ insert[r].state = "sending"
  /\ LET i == insert[r].next
         m == Batch[r][i]
     IN  IF m \in Unreadable
         THEN /\ insert' = [insert EXCEPT ![r].state = "error"]
              /\ UNCHANGED dataTopic
         ELSE /\ dataTopic' = Append(dataTopic, <<r, m>>)
              /\ insert' = [insert EXCEPT ![r] =
                   [state |-> IF i = Len(Batch[r]) THEN "true" ELSE "sending", next |-> i + 1]]
  /\ UNCHANGED <<reports, streamVars, crashes>>

\* The publisher cannot be created, or reports no delivery in time although
\* the broker may have the message.
PublishFails(r) ==
  /\ insert[r].state = "sending"
  /\ insert' = [insert EXCEPT ![r].state = "error"]
  /\ LET m == Batch[r][insert[r].next]
     IN  \/ UNCHANGED dataTopic
         \/ m \notin Unreadable /\ dataTopic' = Append(dataTopic, <<r, m>>)
  /\ UNCHANGED <<reports, streamVars, crashes>>

\* The rest of CDL: the next message of the data topic gets its report.
Reported ==
  /\ Len(reports) < Len(dataTopic)
  /\ reports' = Append(reports, dataTopic[Len(reports) + 1])
  /\ UNCHANGED <<insert, dataTopic, streamVars, crashes>>

-----------------------------------------------------------------------------
(* Context::subscribe_on_message_queue *)

\* Mutant: the mutex is not held while the consumer is created.
SubscribeUnlocked(c) ==
  /\ client[c].state = "away"
  /\ \/ /\ entry
        /\ client' = [client EXCEPT ![c] = StreamFrom(Len(channel), 0)]
     \/ /\ ~entry
        /\ client' = [client EXCEPT ![c].state = "creating"]
  /\ UNCHANGED <<apiVars, lock, entry, consumer, channel, consumers, crashes>>

\* With an entry the client gets a receiver that starts behind what was sent;
\* without one it goes on to EventSubscriber::new with the lock in hand.
Subscribe(c) ==
  /\ client[c].state = "away"
  /\ lock = Nobody
  /\ \/ /\ entry
        /\ client' = [client EXCEPT ![c] = StreamFrom(Len(channel), 0)]
        /\ UNCHANGED lock
     \/ /\ ~entry
        /\ client' = [client EXCEPT ![c].state = "creating"]
        /\ lock' = c
  /\ UNCHANGED <<apiVars, entry, consumer, channel, consumers, crashes>>

\* Mutant: the creator's receiver is made by subscribe() after the task was
\* spawned, when the first events may already have been sent.
CreatedWithoutReceiver(c) ==
  /\ client[c].state = "creating"
  /\ entry' = TRUE
  /\ consumers' = consumers + 1
  /\ consumer' = [state |-> "running", next |-> IF reports = << >> THEN 1 ELSE 2]
  /\ channel' = IF reports = << >> THEN << >> ELSE <<Head(reports)>>
  /\ client' = [client EXCEPT ![c] = StreamFrom(Len(channel'), 1)]
  /\ lock' = Nobody
  /\ UNCHANGED <<apiVars, crashes>>

\* The consumer is connected, the task spawned, the entry inserted and the
\* lock released; the receiver dates from before the task.
Created(c) ==
  /\ client[c].state = "creating"
  /\ entry' = TRUE
  /\ consumers' = consumers + 1
  /\ consumer' = [state |-> "running", next |-> 1]
  /\ channel' = << >>
  /\ client' = [client EXCEPT ![c] = StreamFrom(0, 1)]
  /\ lock' = Nobody
  /\ UNCHANGED <<apiVars, crashes>>

\* Mutant: the lock stays with the client whose consumer could not be created.
FailsWithLock(c) ==
  /\ client[c].state = "creating"
  /\ client' = [client EXCEPT ![c].state = "failed"]
  /\ UNCHANGED <<apiVars, lock, entry, consumer, channel, consumers, crashes>>

\* CommonConsumer::new fails: the client gets an error and nothing is kept.
CreationFails(c) ==
  /\ client[c].state = "creating"
  /\ client' = [client EXCEPT ![c].state = "failed"]
  /\ lock' = Nobody
  /\ UNCHANGED <<apiVars, entry, consumer, channel, consumers, crashes>>

-----------------------------------------------------------------------------
(* The task of EventSubscriber::new *)

Forward ==
  /\ consumer.state = "running"
  /\ consumer.next <= Len(reports)
  /\ channel' = Append(channel, reports[consumer.next])
  /\ consumer' = [consumer EXCEPT !.next = @ + 1]
  /\ UNCHANGED <<apiVars, lock, entry, client, consumers, crashes>>

\* An error of the consumer is forwarded and ends its stream; an AMQP stream
\* that is cancelled just ends.  The future on_close returns, which would
\* remove the entry, is dropped unpolled.
StreamEnds ==
  /\ MayBreak
  /\ consumer.state = "running"
  /\ \/ channel' = Append(channel, <<"error", "error">>)
     \/ UNCHANGED channel
  /\ consumer' = [consumer EXCEPT !.state = "ended"]
  /\ UNCHANGED <<apiVars, lock, entry, client, consumers, crashes>>

-----------------------------------------------------------------------------
(* EventStream and Subscription::reports *)

Missed(c) == Len(channel) - client[c].pos

\* Mutant: a receiver that lags behind goes on with the oldest event kept.
ReceiveAfterLag(c) ==
  /\ client[c].state = "streaming"
  /\ Missed(c) > 0
  /\ LET pos == IF Missed(c) > Capacity THEN Len(channel) - Capacity ELSE client[c].pos
         item == channel[pos + 1]
     IN  client' = [client EXCEPT ![c].pos = pos + 1,
                       ![c].state = IF item[1] = "error" THEN "failed" ELSE @,
                       ![c].shown = IF item[1] = "error" \/ item[2] \in NoPayload
                                    THEN @ ELSE Append(@, item)]
  /\ UNCHANGED <<apiVars, lock, entry, consumer, channel, consumers, crashes>>

\* Mutant: an item without a payload is looked at again and again.
ReceiveStuck(c) ==
  /\ client[c].state = "streaming"
  /\ Missed(c) > 0
  /\ LET item == channel[client[c].pos + 1]
         broken == Missed(c) > Capacity \/ item[1] = "error"
     IN  /\ broken \/ item[2] \notin NoPayload
         /\ client' = [client EXCEPT ![c].pos = @ + 1,
                         ![c].state = IF broken THEN "failed" ELSE @,
                         ![c].shown = IF broken THEN @ ELSE Append(@, item)]
  /\ UNCHANGED <<apiVars, lock, entry, consumer, channel, consumers, crashes>>

\* One item of the channel.  An error of the consumer, or of recv() when the
\* receiver was overtaken, ends the client's stream; a report without a
\* payload is skipped.
Receive(c) ==
  /\ client[c].state = "streaming"
  /\ Missed(c) > 0
  /\ LET item == channel[client[c].pos + 1]
         broken == Missed(c) > Capacity \/ item[1] = "error"
         shown == client[c].shown
     IN  client' = [client EXCEPT ![c] =
           [state |-> IF broken THEN "failed" ELSE "streaming",
            pos |-> client[c].pos + 1,
            shown |-> IF broken \/ item[2] \in NoPayload THEN shown ELSE Append(shown, item),
            first |-> client[c].first]]
  /\ UNCHANGED <<apiVars, lock, entry, consumer, channel, consumers, crashes>>

\* The client closes its websocket, or asks again after an error.
Leave(c) ==
  /\ client[c].state \in {"streaming", "failed"}
  /\ client' = [client EXCEPT ![c] = NoStream]
  /\ UNCHANGED <<apiVars, lock, entry, consumer, channel, consumers, crashes>>

\* The process is restarted; requests in hand are lost.
Crash ==
  /\ crashes < MaxCrashes
  /\ crashes' = crashes + 1
  /\ insert' = [r \in Inserts |-> IF insert[r].state = "sending"
                                  THEN [insert[r] EXCEPT !.state = "error"] ELSE insert[r]]
  /\ lock' = Nobody
  /\ entry' = FALSE
  /\ consumer' = NoConsumer
  /\ channel' = << >>
  /\ client' = [c \in Clients |-> NoStream]
  /\ consumers' = 0
  /\ UNCHANGED <<dataTopic, reports>>

-----------------------------------------------------------------------------
Init ==
  /\ insert = [r \in Inserts |-> [state |-> IF Batch[r] = << >> THEN "true" ELSE "sending",
                                  next |-> 1]]
  /\ dataTopic = << >>
  /\ reports = << >>
  /\ lock = Nobody
  /\ entry = FALSE
  /\ consumer = NoConsumer
  /\ channel = << >>
  /\ client = [c \in Clients |-> NoStream]
  /\ consumers = 0
  /\ crashes = 0

Next ==
  \/ \E r \in Inserts : Publish(r) \/ PublishFails(r)
  \/ Reported
  \/ \E c \in Clients : \/ Subscribe(c) \/ Created(c) \/ CreationFails(c)
                        \/ Receive(c) \/ Leave(c)
  \/ Forward \/ StreamEnds
  \/ Crash

\* The tasks of the process run: the executor polls what is ready, and
\* connecting to the broker comes to an end.  Clients, failures and crashes
\* are not obliged to happen.
Fairness ==
  /\ WF_vars(Forward)
  /\ \A c \in Clients : WF_vars(Receive(c)) /\ WF_vars(Created(c) \/ CreationFails(c))

Spec == Init /\ [][Next]_vars /\ Fairness

-----------------------------------------------------------------------------
(* Properties *)

\* Every variable has its type, and the mutex belongs to the client that is
\* creating the consumer.
TypeOK ==
  /\ \A r \in Inserts : /\ insert[r].state \in {"sending", "true", "error"}
                        /\ insert[r].next \in 1..(Len(Batch[r]) + 1)
  /\ lock \in Clients \cup {Nobody}
  /\ entry \in BOOLEAN
  /\ consumer.state \in {"none", "running", "ended"}
  /\ consumer.next \in 1..(Len(reports) + 1)
  /\ \A c \in Clients :
       /\ client[c].state \in {"away", "creating", "streaming", "failed"}
       /\ client[c].pos \in 0..Len(channel)
       /\ client[c].state = "creating" <=> lock = c

\* What a batch puts on the data topic is a prefix of it, in its order, each
\* message once; all of it when the answer is true.
BatchIsPrefix ==
  \A r \in Inserts :
    LET sent == OnlyIn(dataTopic, ItemsOf(r))
        batch == [i \in DOMAIN Batch[r] |-> <<r, Batch[r][i]>>]
    IN  /\ IsPrefix(sent, batch)
        /\ insert[r].state = "true" => sent = batch

\* "If two clients ask for the same stream of data, you don't wanna query it
\* twice": the process creates one consumer, whoever asks at the same time.
OneConsumer == consumers <= 1

\* The reports with a payload among the items of a sequence.
WithPayload(items) == OnlyIn(items, {x \in Items : x[2] \notin NoPayload})

\* A client is shown a segment of the report topic without a hole, a
\* repetition or a change of order; a client that falls too far behind is told
\* so by the end of its stream.
NoGaps ==
  \A c \in Clients :
    \E i \in 1..(Len(reports) + 1), j \in 0..Len(reports) :
      client[c].shown = WithPayload(SubSeq(reports, i, j))

\* The client that creates the consumer is shown the topic from its start:
\* nothing is sent before its receiver exists.
CreatorSeesAll ==
  \A c \in Clients :
    client[c].state = "streaming" /\ client[c].first = 1 =>
      client[c].shown = WithPayload(SubSeq(reports, 1, client[c].pos))

\* As long as the consumer lives, a client that stays is brought up to the end
\* of the topic, or its stream ends.
Delivered ==
  \A c \in Clients :
    (client[c].state = "streaming" /\ consumer.state = "running")
      ~> (\/ client[c].state # "streaming" \/ consumer.state # "running"
          \/ client[c].pos = Len(channel) /\ consumer.next > Len(reports))

\* A client that is streaming has a consumer behind its receiver, for ever or
\* again: "Remove topic from hashmap so next time someone ask about this
\* stream, it will be recreated".
StreamsAreLive ==
  \A c \in Clients :
    (client[c].state = "streaming" /\ client[c].pos = Len(channel) /\ consumer.next <= Len(reports))
      ~> (client[c].state # "streaming" \/ client[c].pos < Len(channel))
=============================================================================
