-------------------------- MODULE DataRouterProofs ---------------------------
(***************************************************************************)
(* What the data router lets a restart skip has reached a topic or the     *)
(* error topic, and every entry went to a topic of its own schema, for     *)
(* every log, payload, cache capacity, task limit and number of restarts   *)
(* and topic changes.                                                      *)
(***************************************************************************)
EXTENDS DataRouter, SequenceLemmas

\* Entries of the cache and deliveries whose topic the schema has had.
CacheEntries == {c \in [schema : Schemas, topic : Topics] : c.topic \in everTopics[c.schema]}

TopicInv ==
    /\ everTopics \in [Schemas -> SUBSET Topics]
    /\ \A s \in Schemas : registry[s] \in everTopics[s]
    /\ cache \in Seq(CacheEntries)
    /\ \A d \in published : d.schema \in Schemas /\ d.topic \in everTopics[d.schema]

\* The first n entries of message o are done, with or without an error.
DoneUpTo(o, n, failed) ==
    \A i \in 1..n : Routed(o, i) \/ (<<o, i>> \in lookupFailed /\ failed)

\* What handle_message has done for message o when its task is t.
TaskInv(t, o) ==
    /\ t.step = "none" => t = NoTask
    /\ t.step = "parse" => t.entry = 0
    /\ t.step \in {"lookup", "rpc", "insert", "publish"} =>
          /\ IsBatch(o) /\ t.entry \in 1..Len(Payload[o])
          /\ DoneUpTo(o, t.entry - 1, t.failed)
    /\ t.step \in {"insert", "publish"} => t.topic \in everTopics[Payload[o][t.entry]]
    /\ t.step = "report" /\ IsBatch(o) => DoneUpTo(o, Len(Payload[o]), TRUE)
    /\ t.step = "ack" => Settled(o)

\* The message at hand is the last one read, and nothing runs for later ones.
LoopInv ==
    /\ pending # None => pending = position - 1 /\ task[pending] = NoTask
    /\ \A o \in Offsets : o >= position => task[o] = NoTask

\* The inductive invariant.
IInv ==
    /\ TypeOK /\ queue \in AckQueues(Offsets)
    /\ TopicInv /\ LoopInv
    /\ \A o \in Offsets : TaskInv(task[o], o)
    /\ \A o \in acked : Settled(o)
    /\ QueueInv(Offsets, queue, acked, position, stored, committed)

------------------------------------------------------------------------------
\* The offsets are those of a log, and what is no garbage is a batch.
LEMMA OffsetsFacts ==
    /\ Offsets \in SUBSET Nat /\ Offsets \in SUBSET Int /\ IsLog(Offsets) /\ 0 \in Offsets
    /\ None = -1 /\ None \notin Offsets /\ None \in Int
    /\ \A o \in Offsets : IsBatch(o) => Payload[o] \in Seq(Schemas)
<1>1. LogEnd \in Nat /\ LogEnd # 0 /\ LogEnd - 1 \in Int
  BY ConstantsAssumption
<1>2. Offsets \in SUBSET Nat /\ Offsets \in SUBSET Int /\ IsLog(Offsets) /\ 0 \in Offsets
  BY <1>1 DEF Offsets, IsLog
<1>3. None = -1 /\ None \notin Offsets /\ None \in Int
  BY <1>2 DEF None
<1> QED  BY <1>2, <1>3, ConstantsAssumption DEF IsBatch

\* No task is a task with nothing to show.
LEMMA NoTaskFacts ==
    /\ NoTask \in Tasks /\ NoTask.step = "none" /\ NoTask.entry = 0
    /\ \A o : TaskInv(NoTask, o)
<1>1. NoTask \in Tasks /\ NoTask.step = "none" /\ NoTask.entry = 0
  BY DEF NoTask, Tasks, Steps
<1> QED  BY <1>1 DEF TaskInv

\* What is true of a message stays true when more is delivered, reported or
\* known of the topics.
LEMMA SettledMono ==
    ASSUME NEW o, Settled(o), published \subseteq published', reported \subseteq reported',
           lookupFailed \subseteq lookupFailed'
    PROVE  Settled(o)'
<1>1. IsBatch(o)' = IsBatch(o)
  BY DEF IsBatch
<1>2. \A i : Routed(o, i) => Routed(o, i)'
  BY DEF Routed
<1> QED  BY <1>1, <1>2 DEF Settled

\* The same of what a task has done.
LEMMA TaskInvMono ==
    ASSUME NEW t, NEW o, TaskInv(t, o), published \subseteq published',
           reported \subseteq reported', lookupFailed \subseteq lookupFailed',
           \A i \in 1..Len(Payload[o]) :
              everTopics[Payload[o][i]] \subseteq everTopics'[Payload[o][i]]
    PROVE  TaskInv(t, o)'
<1>1. \A n, b : DoneUpTo(o, n, b) => DoneUpTo(o, n, b)'
  BY DEF DoneUpTo, Routed
<1>2. Settled(o) => Settled(o)'
  BY SettledMono
<1>3. IsBatch(o)' = IsBatch(o)
  BY DEF IsBatch
<1> QED  BY <1>1, <1>2, <1>3 DEF TaskInv

\* A step of the task of one message.
LEMMA TaskStepIInv ==
    ASSUME IInv, NEW o \in Offsets, task[o].step # "none",
           NEW t \in Tasks, task' = [task EXCEPT ![o] = t], TaskInv(t, o)',
           UNCHANGED <<streamOpen, position, pending, queue, stored, committed, registry,
                       acked, everTopics>>,
           published \subseteq published', reported \subseteq reported',
           lookupFailed \subseteq lookupFailed', reported' \subseteq Offsets,
           cache' \in Seq(CacheEntries), Len(cache') <= CacheCapacity,
           \A d \in published' : d.schema \in Schemas /\ d.topic \in everTopics[d.schema]
    PROVE  IInv'
<1>0. task \in [Offsets -> Tasks] /\ position \in Int /\ Offsets \in SUBSET Int
  BY OffsetsFacts, ConstantsAssumption DEF IInv, TypeOK
<1>1. cache' \in Seq([schema : Schemas, topic : Topics])
  <2>1. CacheEntries \subseteq [schema : Schemas, topic : Topics]
    BY DEF CacheEntries
  <2> QED  BY <2>1, SeqMono
<1>2. TypeOK'
  BY <1>1 DEF IInv, TypeOK
<1>3. TopicInv'
  <2>1. CacheEntries' = CacheEntries
    BY DEF CacheEntries
  <2> QED  BY <2>1 DEF IInv, TopicInv
<1>4. LoopInv'
  <2>1. task[o] # NoTask /\ o # pending /\ ~ (o >= position)
    BY NoTaskFacts, OffsetsFacts DEF IInv, LoopInv
  <2>2. \A q \in Offsets : q # o => task'[q] = task[q]
    BY <1>0
  <2>3. pending # None => pending = position - 1 /\ task'[pending] = NoTask
    <3>1. pending \in Offsets \cup {None}
      BY DEF IInv, TypeOK
    <3> QED  BY <2>1, <2>2, <3>1 DEF IInv, LoopInv
  <2> QED  BY <2>1, <2>2, <2>3 DEF IInv, LoopInv
<1>5. ASSUME NEW q \in Offsets PROVE TaskInv(task[q], q)'
  <2>1. CASE q = o
    BY <1>0, <2>1
  <2>2. CASE q # o
    <3>1. task'[q] = task[q] /\ TaskInv(task[q], q)
      BY <1>0, <2>2 DEF IInv
    <3>2. \A u : TaskInv(u, q) => TaskInv(u, q)'
      BY TaskInvMono
    <3> QED  BY <3>1, <3>2
  <2> QED  BY <2>1, <2>2
<1>6. \A q \in acked' : Settled(q)'
  BY SettledMono DEF IInv
<1> QED  BY <1>2, <1>3, <1>4, <1>5, <1>6 DEF IInv

\* What follows an entry that is done.
LEMMA NextEntryInv ==
    ASSUME NEW o \in Offsets, IsBatch(o), NEW n \in Nat, NEW b \in BOOLEAN,
           n = task[o].entry, n <= Len(Payload[o]), DoneUpTo(o, n, b)'
    PROVE  \A t : t = NextEntry(o, b) => t \in Tasks /\ TaskInv(t, o)'
<1> DEFINE m == Len(Payload[o])
<1>0. m \in Nat /\ IsBatch(o)'
  BY OffsetsFacts DEF IsBatch
<1> SUFFICES ASSUME NEW t, t = NextEntry(o, b) PROVE t \in Tasks /\ TaskInv(t, o)'
  OBVIOUS
<1>1. CASE n < m
  <2>1. t = [step |-> "lookup", entry |-> n + 1, topic |-> None, failed |-> b]
    BY <1>1 DEF NextEntry
  <2>2. t \in Tasks /\ t.step = "lookup" /\ t.entry = n + 1 /\ t.failed = b
    BY <2>1 DEF Tasks, Steps
  <2>3. t.entry \in 1..m /\ t.entry - 1 = n
    BY <1>0, <1>1, <2>2
  <2>4. DoneUpTo(o, t.entry - 1, t.failed)'
    BY <2>2, <2>3
  <2> QED  BY <1>0, <2>2, <2>3, <2>4 DEF TaskInv
<1>2. CASE n = m
  <2>1. t = [step |-> IF b THEN "report" ELSE "ack", entry |-> 0, topic |-> None, failed |-> b]
    BY <1>0, <1>2 DEF NextEntry
  <2>2. t \in Tasks /\ t.step = (IF b THEN "report" ELSE "ack")
    BY <2>1 DEF Tasks, Steps
  <2>3. DoneUpTo(o, m, b)'
    BY <1>2
  <2> HIDE DEF m
  <2>4. CASE b
    <3>1. b = TRUE
      BY <2>4
    <3>2. DoneUpTo(o, m, TRUE)' /\ t.step = "report"
      BY <2>2, <2>3, <3>1
    <3> QED  BY <2>2, <3>2 DEF TaskInv, m
  <2>5. CASE ~ b
    <3>1. Settled(o)'
      BY <1>0, <2>3, <2>5 DEF Settled, DoneUpTo, m
    <3>2. t.step = "ack"
      BY <2>2, <2>5
    <3> QED  BY <2>2, <3>1, <3>2 DEF TaskInv
  <2> QED  BY <2>4, <2>5
<1> QED  BY <1>0, <1>1, <1>2

------------------------------------------------------------------------------
(* The steps of handle_message. *)

\* What the invariant says of the task of one message.
LEMMA OneTask ==
    ASSUME IInv, NEW o \in Offsets
    PROVE  /\ task[o] \in Tasks /\ task \in [Offsets -> Tasks] /\ TaskInv(task[o], o)
           /\ task[o].entry \in Nat /\ task[o].failed \in BOOLEAN
           /\ cache \in Seq(CacheEntries) /\ Len(cache) <= CacheCapacity
           /\ Len(cache) \in Nat /\ CacheCapacity \in Nat /\ CacheCapacity # 0
           /\ \A d \in published : d.schema \in Schemas /\ d.topic \in everTopics[d.schema]
           /\ reported \subseteq Offsets
<1>1. task[o] \in Tasks /\ task \in [Offsets -> Tasks] /\ TaskInv(task[o], o)
  BY DEF IInv, TypeOK
<1>2. task[o].entry \in Nat /\ task[o].failed \in BOOLEAN
  BY <1>1 DEF Tasks
<1>3. cache \in Seq(CacheEntries) /\ Len(cache) <= CacheCapacity /\ reported \subseteq Offsets
  BY DEF IInv, TypeOK, TopicInv
<1>4. \A d \in published : d.schema \in Schemas /\ d.topic \in everTopics[d.schema]
  BY DEF IInv, TopicInv
<1>5. Len(cache) \in Nat
  BY <1>3
<1> QED  BY <1>1, <1>2, <1>3, <1>4, <1>5, ConstantsAssumption

\* The entry a task is at.
LEMMA AtEntry ==
    ASSUME IInv, NEW o \in Offsets, task[o].step \in {"lookup", "rpc", "insert", "publish"}
    PROVE  /\ IsBatch(o) /\ task[o].entry \in 1..Len(Payload[o]) /\ SchemaOf(o) \in Schemas
           /\ DoneUpTo(o, task[o].entry - 1, task[o].failed)
<1>1. /\ IsBatch(o) /\ task[o].entry \in 1..Len(Payload[o])
      /\ DoneUpTo(o, task[o].entry - 1, task[o].failed)
  BY OneTask DEF TaskInv
<1>2. Payload[o] \in Seq(Schemas)
  BY <1>1, OffsetsFacts
<1> QED  BY <1>1, <1>2 DEF SchemaOf

\* Deserialization.
LEMMA ParseIInv == ASSUME IInv, NEW o \in Offsets, Parse(o) PROVE IInv'
<1>0. /\ task[o].step = "parse"
      /\ UNCHANGED <<streamOpen, position, pending, queue, stored, cache, committed, registry,
                     published, reported, acked, lookupFailed, everTopics>>
  BY DEF Parse, TaskStep, output, history
<1>1. task[o].entry = 0 /\ task[o] \in Tasks
  BY <1>0, OneTask DEF TaskInv
<1>2. PICK t \in Tasks : task' = [task EXCEPT ![o] = t] /\ TaskInv(t, o)'
  <2>1. CASE IsBatch(o) /\ task' = [task EXCEPT ![o] = NextEntry(o, FALSE)]
    <3>1. DoneUpTo(o, 0, FALSE)'
      BY DEF DoneUpTo
    <3>2. Len(Payload[o]) \in Nat
      BY <2>1, OffsetsFacts
    <3>3. 0 \in Nat /\ 0 <= Len(Payload[o]) /\ FALSE \in BOOLEAN /\ 0 = task[o].entry
      BY <1>1, <3>2
    <3>4. \A t : t = NextEntry(o, FALSE) => t \in Tasks /\ TaskInv(t, o)'
      BY <2>1, <3>1, <3>3, NextEntryInv
    <3> QED  BY <2>1, <3>4
  <2>2. CASE /\ ~ IsBatch(o)
             /\ task' = [task EXCEPT ![o] = [task[o] EXCEPT !.step = "report", !.failed = TRUE]]
    <3> DEFINE t == [task[o] EXCEPT !.step = "report", !.failed = TRUE]
    <3>1. t \in Tasks /\ t.step = "report"
      BY <1>1 DEF Tasks, Steps
    <3> HIDE DEF t
    <3>2. ASSUME NEW u, u.step = "report" PROVE TaskInv(u, o)'
      BY <2>2, <3>2 DEF TaskInv, IsBatch
    <3>3. PICK u \in Tasks : u = t
      BY <3>1
    <3>4. u.step = "report" /\ task' = [task EXCEPT ![o] = u]
      BY <2>2, <3>1, <3>3 DEF t
    <3> QED  BY <3>2, <3>4
  <2> QED  BY <2>1, <2>2 DEF Parse, SetTask
<1> QED  BY <1>0, <1>2, OneTask, TaskStepIInv

\* A task that goes on with the entry it is at.
LEMMA SameEntry ==
    ASSUME IInv, NEW o \in Offsets, task[o].step \in {"lookup", "rpc", "insert"},
           NEW t \in Tasks, t.entry = task[o].entry, t.failed = task[o].failed,
           t.step \in {"rpc", "insert", "publish"},
           t.step \in {"insert", "publish"} => t.topic \in everTopics[SchemaOf(o)],
           UNCHANGED <<published, reported, lookupFailed, everTopics>>
    PROVE  TaskInv(t, o)'
<1>1. /\ IsBatch(o) /\ task[o].entry \in 1..Len(Payload[o])
      /\ DoneUpTo(o, task[o].entry - 1, task[o].failed)
  BY AtEntry
<1>2. IsBatch(o) /\ t.entry \in 1..Len(Payload[o]) /\ DoneUpTo(o, t.entry - 1, t.failed)
  BY <1>1
<1>3. t.step \in {"insert", "publish"} => t.topic \in everTopics[Payload[o][t.entry]]
  BY DEF SchemaOf
<1>4. TaskInv(t, o)
  BY <1>2, <1>3 DEF TaskInv
<1> QED  BY <1>4, TaskInvMono

\* One entry more is done.
LEMMA OneMoreDone ==
    ASSUME NEW o, NEW n \in Nat, NEW a \in BOOLEAN, NEW b \in BOOLEAN,
           DoneUpTo(o, n - 1, a), a => b,
           published \subseteq published', lookupFailed \subseteq lookupFailed',
           Routed(o, n)' \/ (<<o, n>> \in lookupFailed' /\ b)
    PROVE  DoneUpTo(o, n, b)'
<1> SUFFICES ASSUME NEW i \in 1..n
             PROVE  Routed(o, i)' \/ (<<o, i>> \in lookupFailed' /\ b)
  BY DEF DoneUpTo
<1>1. CASE i = n
  BY <1>1
<1>2. CASE i # n
  <2>1. i \in 1..(n - 1)
    BY <1>2
  <2>2. Routed(o, i) => Routed(o, i)'
    BY DEF Routed
  <2> QED  BY <2>1, <2>2 DEF DoneUpTo
<1> QED  BY <1>1, <1>2

\* The cache without an entry has room for it.
LEMMA CacheWithoutFacts ==
    ASSUME IInv, NEW s \in Schemas
    PROVE  /\ CacheWithout(s) \in Seq(CacheEntries)
           /\ Len(CacheWithout(s)) \in Nat /\ Len(CacheWithout(s)) <= CacheCapacity
           /\ Cached(s) # {} => Len(CacheWithout(s)) < CacheCapacity
<1> DEFINE S == [schema : Schemas \ {s}, topic : Topics]
<1>0. cache \in Seq(CacheEntries) /\ Len(cache) <= CacheCapacity /\ CacheCapacity \in Nat
      /\ Len(cache) \in Nat
  BY OffsetsFacts, OneTask
<1>1. CacheWithout(s) = OnlyIn(cache, S)
  BY DEF CacheWithout
<1> HIDE DEF S
<1>2. /\ OnlyIn(cache, S) \in Seq(CacheEntries \cap S)
      /\ Len(OnlyIn(cache, S)) <= Len(cache)
      /\ (\E i \in 1..Len(cache) : cache[i] \notin S) => Len(OnlyIn(cache, S)) < Len(cache)
  BY <1>0, OnlyInEntries
<1>3. OnlyIn(cache, S) \in Seq(CacheEntries)
  BY <1>2, SeqMono
<1>4. Len(OnlyIn(cache, S)) \in Nat
  BY <1>3
<1>5. Cached(s) # {} => Len(OnlyIn(cache, S)) < Len(cache)
  <2>1. \A x \in S : x.schema # s
    BY DEF S
  <2> QED  BY <1>2, <2>1 DEF Cached
<1> QED  BY <1>0, <1>1, <1>2, <1>3, <1>4, <1>5

\* The topic comes from the cache.
LEMMA LookupHitIInv == ASSUME IInv, NEW o \in Offsets, LookupHit(o) PROVE IInv'
<1>0. /\ task[o].step = "lookup"
      /\ UNCHANGED <<streamOpen, position, pending, queue, stored, committed, registry,
                     published, reported, acked, lookupFailed, everTopics>>
  BY DEF LookupHit, TaskStep, output, history
<1> DEFINE s == SchemaOf(o)
<1>1. s \in Schemas /\ task[o] \in Tasks
  BY <1>0, AtEntry, OneTask
<1>2. PICK i \in Cached(s) :
         /\ cache' = Append(CacheWithout(s), cache[i])
         /\ task' = [task EXCEPT ![o] = [task[o] EXCEPT !.step = "publish",
                                                        !.topic = cache[i].topic]]
  BY DEF LookupHit, SetTask
<1> HIDE DEF s
<1>3. cache[i] \in CacheEntries /\ cache[i].schema = s
  BY <1>2, OneTask DEF Cached
<1>4. cache[i].topic \in Topics /\ cache[i].topic \in everTopics[s]
  BY <1>3 DEF CacheEntries
<1>5. cache' \in Seq(CacheEntries) /\ Len(cache') <= CacheCapacity
  <2> DEFINE w == CacheWithout(s)
  <2>1. w \in Seq(CacheEntries) /\ Len(w) \in Nat /\ Len(w) < CacheCapacity
        /\ CacheCapacity \in Nat
    BY <1>1, <1>2, CacheWithoutFacts, OneTask
  <2> HIDE DEF w
  <2>2. Append(w, cache[i]) \in Seq(CacheEntries) /\ Len(Append(w, cache[i])) = Len(w) + 1
    BY <1>3, <2>1
  <2>3. cache' = Append(w, cache[i])
    BY <1>2 DEF w
  <2> QED  BY <2>1, <2>2, <2>3
<1>6. PICK t \in Tasks : /\ task' = [task EXCEPT ![o] = t]
                         /\ t.entry = task[o].entry /\ t.failed = task[o].failed
                         /\ t.step = "publish" /\ t.topic = cache[i].topic
  <2> DEFINE t == [task[o] EXCEPT !.step = "publish", !.topic = cache[i].topic]
  <2>1. /\ t \in Tasks /\ t.entry = task[o].entry /\ t.failed = task[o].failed
        /\ t.step = "publish" /\ t.topic = cache[i].topic
    BY <1>1, <1>4 DEF Tasks, Steps
  <2> QED  BY <1>2, <2>1
<1>7. TaskInv(t, o)'
  BY <1>0, <1>4, <1>6, SameEntry DEF s
<1> QED  BY <1>0, <1>5, <1>6, <1>7, OneTask, TaskStepIInv

\* The topic is not in the cache.
LEMMA LookupMissIInv == ASSUME IInv, NEW o \in Offsets, LookupMiss(o) PROVE IInv'
<1>0. /\ task[o].step = "lookup" /\ task[o] \in Tasks
      /\ UNCHANGED <<streamOpen, position, pending, queue, stored, cache, committed, registry,
                     published, reported, acked, lookupFailed, everTopics>>
  BY OneTask DEF LookupMiss, TaskStep, output, history
<1>1. PICK t \in Tasks : /\ task' = [task EXCEPT ![o] = t]
                         /\ t.entry = task[o].entry /\ t.failed = task[o].failed
                         /\ t.step = "rpc"
  <2> DEFINE t == [task[o] EXCEPT !.step = "rpc"]
  <2>1. /\ t \in Tasks /\ t.entry = task[o].entry /\ t.failed = task[o].failed
        /\ t.step = "rpc"
    BY <1>0 DEF Tasks, Steps
  <2>2. task' = [task EXCEPT ![o] = t]
    BY DEF LookupMiss, SetTask
  <2> QED  BY <2>1, <2>2
<1>2. TaskInv(t, o)'
  BY <1>0, <1>1, SameEntry
<1> QED  BY <1>0, <1>1, <1>2, OneTask, TaskStepIInv

\* The registry answers with the schema's topic of that moment.
LEMMA RpcAnswerIInv == ASSUME IInv, NEW o \in Offsets, RpcAnswer(o) PROVE IInv'
<1>0. /\ task[o].step = "rpc" /\ task[o] \in Tasks
      /\ UNCHANGED <<streamOpen, position, pending, queue, stored, cache, committed, registry,
                     published, reported, acked, lookupFailed, everTopics>>
  BY OneTask DEF RpcAnswer, TaskStep, output, history
<1>1. SchemaOf(o) \in Schemas
  BY <1>0, AtEntry
<1>2. registry[SchemaOf(o)] \in Topics /\ registry[SchemaOf(o)] \in everTopics[SchemaOf(o)]
  BY <1>1 DEF IInv, TypeOK, TopicInv
<1>3. PICK t \in Tasks : /\ task' = [task EXCEPT ![o] = t]
                         /\ t.entry = task[o].entry /\ t.failed = task[o].failed
                         /\ t.step = "insert" /\ t.topic = registry[SchemaOf(o)]
  <2> DEFINE t == [task[o] EXCEPT !.step = "insert", !.topic = registry[SchemaOf(o)]]
  <2>1. /\ t \in Tasks /\ t.entry = task[o].entry /\ t.failed = task[o].failed
        /\ t.step = "insert" /\ t.topic = registry[SchemaOf(o)]
    BY <1>0, <1>2 DEF Tasks, Steps
  <2>2. task' = [task EXCEPT ![o] = t]
    BY DEF RpcAnswer, SetTask
  <2> QED  BY <2>1, <2>2
<1>4. TaskInv(t, o)'
  BY <1>0, <1>2, <1>3, SameEntry
<1> QED  BY <1>0, <1>3, <1>4, OneTask, TaskStepIInv

\* The lookup of an entry fails.
LEMMA RpcFailsIInv == ASSUME IInv, NEW o \in Offsets, RpcFails(o) PROVE IInv'
<1>0. /\ task[o].step = "rpc"
      /\ UNCHANGED <<streamOpen, position, pending, queue, stored, cache, committed, registry,
                     published, reported, acked, everTopics>>
      /\ lookupFailed' = lookupFailed \cup {<<o, task[o].entry>>}
      /\ task' = [task EXCEPT ![o] = NextEntry(o, TRUE)]
  BY DEF RpcFails, TaskStep, SetTask, output
<1>1. /\ IsBatch(o) /\ task[o].entry \in 1..Len(Payload[o]) /\ task[o].failed \in BOOLEAN
      /\ DoneUpTo(o, task[o].entry - 1, task[o].failed)
  BY <1>0, AtEntry, OneTask
<1>2. PICK n \in Nat : n = task[o].entry
  BY OneTask
<1>3. n <= Len(Payload[o])
  BY <1>1, <1>2, OffsetsFacts
<1>4. DoneUpTo(o, n, TRUE)'
  BY <1>0, <1>1, <1>2, OneMoreDone
<1>5. \A t : t = NextEntry(o, TRUE) => t \in Tasks /\ TaskInv(t, o)'
  BY <1>1, <1>2, <1>3, <1>4, NextEntryInv
<1>6. PICK t \in Tasks : task' = [task EXCEPT ![o] = t] /\ TaskInv(t, o)'
  BY <1>0, <1>5
<1> QED  BY <1>0, <1>6, OneTask, TaskStepIInv

\* The answer of the registry enters the cache.
LEMMA InsertIInv == ASSUME IInv, NEW o \in Offsets, Insert(o) PROVE IInv'
<1>0. /\ task[o].step = "insert" /\ task[o] \in Tasks
      /\ UNCHANGED <<streamOpen, position, pending, queue, stored, committed, registry,
                     published, reported, acked, lookupFailed, everTopics>>
      /\ cache' = CacheInsert(SchemaOf(o), task[o].topic)
  BY OneTask DEF Insert, TaskStep, output, history
<1>1. SchemaOf(o) \in Schemas /\ task[o].topic \in everTopics[SchemaOf(o)]
  <2>1. SchemaOf(o) \in Schemas
    BY <1>0, AtEntry
  <2> QED  BY <1>0, <2>1, OneTask DEF TaskInv, SchemaOf
<1>2. PICK t \in Tasks : /\ task' = [task EXCEPT ![o] = t]
                         /\ t.entry = task[o].entry /\ t.failed = task[o].failed
                         /\ t.step = "publish" /\ t.topic = task[o].topic
  <2> DEFINE t == [task[o] EXCEPT !.step = "publish"]
  <2>1. /\ t \in Tasks /\ t.entry = task[o].entry /\ t.failed = task[o].failed
        /\ t.step = "publish" /\ t.topic = task[o].topic
    BY <1>0 DEF Tasks, Steps
  <2>2. task' = [task EXCEPT ![o] = t]
    BY DEF Insert, SetTask
  <2> QED  BY <2>1, <2>2
<1>3. TaskInv(t, o)'
  BY <1>0, <1>1, <1>2, SameEntry
<1>4. cache' \in Seq(CacheEntries) /\ Len(cache') <= CacheCapacity
  <2> DEFINE w == CacheWithout(SchemaOf(o))
             v == IF Len(w) = CacheCapacity THEN Tail(w) ELSE w
             c == [schema |-> SchemaOf(o), topic |-> task[o].topic]
  <2>1. cache' = Append(v, c)
    BY <1>0 DEF CacheInsert
  <2>2. c \in CacheEntries
    <3>1. task[o].topic \in Topics
      BY <1>1 DEF IInv, TopicInv
    <3> QED  BY <1>1, <3>1 DEF CacheEntries
  <2>3. /\ w \in Seq(CacheEntries) /\ Len(w) \in Nat /\ Len(w) <= CacheCapacity
        /\ CacheCapacity \in Nat /\ CacheCapacity # 0
    BY <1>1, CacheWithoutFacts, OneTask
  <2> HIDE DEF w, c
  <2>4. v \in Seq(CacheEntries) /\ Len(v) \in Nat /\ Len(v) < CacheCapacity
    <3>1. CASE Len(w) = CacheCapacity
      <4>1. w # <<>>
        BY <2>3, <3>1
      <4>2. Tail(w) \in Seq(CacheEntries) /\ Len(Tail(w)) = Len(w) - 1
        BY <2>3, <4>1
      <4> QED  BY <2>3, <3>1, <4>2
    <3>2. CASE Len(w) # CacheCapacity
      BY <2>3, <3>2
    <3> QED  BY <3>1, <3>2
  <2> HIDE DEF v
  <2>5. Append(v, c) \in Seq(CacheEntries) /\ Len(Append(v, c)) = Len(v) + 1
    BY <2>2, <2>4
  <2> QED  BY <2>1, <2>3, <2>4, <2>5
<1> QED  BY <1>0, <1>2, <1>3, <1>4, OneTask, TaskStepIInv

\* What is delivered of an entry at "publish" is its own.
LEMMA DeliveryFacts ==
    ASSUME IInv, NEW o \in Offsets, task[o].step = "publish"
    PROVE  /\ Delivery(o).offset = o /\ Delivery(o).entry = task[o].entry
           /\ Delivery(o).schema \in Schemas
           /\ Delivery(o).topic \in everTopics[Delivery(o).schema]
<1>1. SchemaOf(o) \in Schemas
  BY AtEntry
<1>2. task[o].topic \in everTopics[SchemaOf(o)]
  BY OneTask DEF TaskInv, SchemaOf
<1> QED  BY <1>1, <1>2 DEF Delivery

\* An entry is delivered.
LEMMA PublishIInv == ASSUME IInv, NEW o \in Offsets, Publish(o) PROVE IInv'
<1>0. /\ task[o].step = "publish"
      /\ UNCHANGED <<streamOpen, position, pending, queue, stored, cache, committed, registry,
                     reported, acked, lookupFailed, everTopics>>
      /\ published' = published \cup {Delivery(o)}
      /\ task' = [task EXCEPT ![o] = NextEntry(o, task[o].failed)]
  BY DEF Publish, TaskStep, SetTask, history
<1>1. /\ IsBatch(o) /\ task[o].entry \in 1..Len(Payload[o])
      /\ DoneUpTo(o, task[o].entry - 1, task[o].failed)
  BY <1>0, AtEntry
<1>2. PICK n \in Nat, b \in BOOLEAN : n = task[o].entry /\ b = task[o].failed
  BY OneTask
<1>3. n <= Len(Payload[o])
  BY <1>1, <1>2, OffsetsFacts
<1>4. DoneUpTo(o, n, b)'
  <2>1. Routed(o, n)'
    BY <1>0, <1>2, DeliveryFacts DEF Routed
  <2>2. DoneUpTo(o, n - 1, b)
    BY <1>1, <1>2
  <2>3. published \subseteq published' /\ lookupFailed \subseteq lookupFailed'
    BY <1>0
  <2> QED  BY <2>1, <2>2, <2>3, OneMoreDone
<1>5. \A t : t = NextEntry(o, b) => t \in Tasks /\ TaskInv(t, o)'
  BY <1>1, <1>2, <1>3, <1>4, NextEntryInv
<1>6. PICK t \in Tasks : task' = [task EXCEPT ![o] = t] /\ TaskInv(t, o)'
  BY <1>0, <1>2, <1>5
<1>7. \A d \in published' : d.schema \in Schemas /\ d.topic \in everTopics[d.schema]
  BY <1>0, DeliveryFacts, OneTask
<1> QED  BY <1>0, <1>6, <1>7, OneTask, TaskStepIInv

\* The error topic is told.
LEMMA ReportIInv == ASSUME IInv, NEW o \in Offsets, Report(o) PROVE IInv'
<1>0. /\ task[o].step = "report" /\ task[o] \in Tasks
      /\ UNCHANGED <<streamOpen, position, pending, queue, stored, cache, committed, registry,
                     published, acked, lookupFailed, everTopics>>
      /\ reported' = reported \cup {o}
  BY OneTask DEF Report, TaskStep, history
<1>1. Settled(o)'
  <2>1. IsBatch(o) => DoneUpTo(o, Len(Payload[o]), TRUE)
    BY <1>0, OneTask DEF TaskInv
  <2> QED  BY <1>0, <2>1 DEF Settled, DoneUpTo, Routed, IsBatch
<1>2. PICK t \in Tasks : task' = [task EXCEPT ![o] = t] /\ t.step = "ack"
  <2> DEFINE t == [task[o] EXCEPT !.step = "ack"]
  <2>1. t \in Tasks /\ t.step = "ack"
    BY <1>0 DEF Tasks, Steps
  <2>2. task' = [task EXCEPT ![o] = t]
    BY DEF Report, SetTask
  <2> QED  BY <2>1, <2>2
<1>3. TaskInv(t, o)'
  BY <1>1, <1>2 DEF TaskInv
<1> QED  BY <1>0, <1>2, <1>3, OneTask, TaskStepIInv

\* The types of the offsets.
LEMMA OffsetTypes ==
    ASSUME IInv
    PROVE  /\ position \in Int /\ stored \in Int /\ committed \in Int
           /\ position \in 0..LogEnd /\ stored \in Offsets \cup {None} /\ committed \in Offsets
           /\ queue \in AckQueues(Offsets)
           /\ QueueInv(Offsets, queue, acked, position, stored, committed)
<1>1. /\ position \in 0..LogEnd /\ stored \in Offsets \cup {None} /\ committed \in Offsets
      /\ queue \in AckQueues(Offsets)
      /\ QueueInv(Offsets, queue, acked, position, stored, committed)
  BY DEF IInv, TypeOK
<1>2. position \in Int
  BY <1>1, ConstantsAssumption
<1> QED  BY <1>1, <1>2, OffsetsFacts

\* The message is acknowledged after everything else was done for it.
LEMMA AckIInv == ASSUME IInv, NEW o \in Offsets, Ack(o) PROVE IInv'
<1>0. /\ task[o].step = "ack" /\ AckReturns(queue, o)
      /\ UNCHANGED <<streamOpen, position, pending, cache, committed, registry, published,
                     reported, lookupFailed, everTopics>>
      /\ stored' = StoredAfter(queue, o, stored)
      /\ queue' = QueueAck(queue, o) /\ acked' = acked \cup {o}
      /\ task' = [task EXCEPT ![o] = NoTask]
  BY DEF Ack, TaskStep, SetTask, output, StoredAfter
<1>1. QueueInv(Offsets, queue, acked, position, stored, committed)'
  BY <1>0, OffsetTypes, OffsetsFacts, QueueAckInv
<1>2. /\ queue' \in AckQueues(Offsets)
      /\ stored' \in Offsets \cup {None}
  <2>1. /\ QueueAck(queue, o) \in AckQueues(Offsets)
        /\ AckStores(queue, o) => OffsetToStore(queue, o) \in Offsets \cup {-1}
    BY <1>0, OffsetTypes, OffsetsFacts, QueueAckTypes
  <2> QED  BY <1>0, <2>1, OffsetTypes, OffsetsFacts DEF StoredAfter
<1>3. queue'.waiting_list \in Seq(Offsets) /\ queue'.last_offset \in Offsets
  BY <1>2 DEF AckQueues
<1>4. TypeOK'
  BY <1>0, <1>2, <1>3, NoTaskFacts DEF IInv, TypeOK
<1>5. TopicInv'
  BY <1>0 DEF IInv, TopicInv, CacheEntries
<1>6. task \in [Offsets -> Tasks]
  BY DEF IInv, TypeOK
<1>7. LoopInv'
  <2>1. \A q \in Offsets : task'[q] = IF q = o THEN NoTask ELSE task[q]
    BY <1>0, <1>6
  <2>2. pending \in Offsets \cup {None}
    BY DEF IInv, TypeOK
  <2> QED  BY <1>0, <2>1, <2>2 DEF IInv, LoopInv
<1>8. ASSUME NEW q \in Offsets PROVE TaskInv(task[q], q)'
  <2>1. CASE q = o
    <3>1. task'[q] = NoTask
      BY <1>0, <1>6, <2>1
    <3>2. \A u : u = NoTask => TaskInv(u, q)'
      BY NoTaskFacts DEF TaskInv
    <3> QED  BY <3>1, <3>2
  <2>2. CASE q # o
    <3>1. task'[q] = task[q] /\ TaskInv(task[q], q)
      BY <1>0, <1>6, <2>2 DEF IInv
    <3>2. \A u : TaskInv(u, q) => TaskInv(u, q)'
      BY <1>0, TaskInvMono
    <3> QED  BY <3>1, <3>2
  <2> QED  BY <2>1, <2>2
<1>9. \A q \in acked' : Settled(q)'
  <2>1. Settled(o)
    BY <1>0, OneTask DEF TaskInv
  <2>2. \A q \in acked' : Settled(q)
    BY <1>0, <2>1 DEF IInv
  <2> QED  BY <1>0, <2>2, SettledMono
<1> QED  BY <1>1, <1>2, <1>4, <1>5, <1>7, <1>8, <1>9 DEF IInv

------------------------------------------------------------------------------
(* The loop, the process and the environment. *)

\* What was done for the messages is not touched.
LEMMA NothingDone ==
    ASSUME IInv, UNCHANGED <<task, published, reported, lookupFailed, everTopics, acked>>
    PROVE  (\A o \in Offsets : TaskInv(task[o], o))' /\ (\A o \in acked : Settled(o))'
<1>1. ASSUME NEW o \in Offsets PROVE TaskInv(task[o], o)'
  <2>1. TaskInv(task[o], o) /\ task'[o] = task[o]
    BY DEF IInv
  <2>2. \A u : TaskInv(u, o) => TaskInv(u, o)'
    BY TaskInvMono
  <2> QED  BY <2>1, <2>2
<1>2. \A o \in acked' : Settled(o)'
  BY SettledMono DEF IInv
<1> QED  BY <1>1, <1>2

\* A message is read and queued.
LEMMA ReceiveIInv == ASSUME IInv, Receive PROVE IInv'
<1>0. /\ position < LogEnd /\ pending = None
      /\ queue' = QueueAdd(queue, position) /\ pending' = position /\ position' = position + 1
      /\ UNCHANGED <<streamOpen, stored, task, cache, committed, registry, published, reported,
                     acked, lookupFailed, everTopics>>
  BY DEF Receive, output, history
<1>1. position \in Offsets /\ position + 1 \in 0..LogEnd
  BY <1>0, OffsetTypes, ConstantsAssumption DEF Offsets
<1>2. /\ queue' \in AckQueues(Offsets)
      /\ QueueInv(Offsets, queue, acked, position, stored, committed)'
  BY <1>0, <1>1, OffsetTypes, OffsetsFacts, QueueAddInv
<1>3. queue'.waiting_list \in Seq(Offsets) /\ queue'.last_offset \in Offsets
  BY <1>2 DEF AckQueues
<1>4. TypeOK'
  BY <1>0, <1>1, <1>3 DEF IInv, TypeOK
<1>5. TopicInv'
  BY <1>0 DEF IInv, TopicInv, CacheEntries
<1>6. LoopInv'
  <2>1. \A o \in Offsets : o >= position => task[o] = NoTask
    BY DEF IInv, LoopInv
  <2>2. \A o \in Offsets : o >= position + 1 => o >= position
    BY <1>1, OffsetsFacts
  <2>3. task[position] = NoTask
    BY <1>1, <2>1, OffsetsFacts, OffsetTypes
  <2>4. pending' = position' - 1
    BY <1>0, OffsetTypes
  <2>5. task'[pending'] = NoTask
    BY <1>0, <2>3
  <2>6. \A o \in Offsets : o >= position' => task'[o] = NoTask
    BY <1>0, <2>1, <2>2
  <2> QED  BY <2>4, <2>5, <2>6 DEF LoopInv
<1> QED  BY <1>0, <1>2, <1>4, <1>5, <1>6, NothingDone DEF IInv

\* The handler of the message at hand starts.
LEMMA SpawnIInv == ASSUME IInv, Spawn PROVE IInv'
<1>0. /\ pending # None /\ pending' = None
      /\ UNCHANGED <<streamOpen, position, queue, stored, cache, committed, registry, published,
                     reported, acked, lookupFailed, everTopics>>
      /\ task' = [task EXCEPT ![pending] = [task[pending] EXCEPT !.step = "parse"]]
  BY DEF Spawn, output, history, IInv, TypeOK
<1>1. /\ pending \in Offsets /\ task[pending] = NoTask /\ pending = position - 1
      /\ task \in [Offsets -> Tasks] /\ NoTask \in Tasks /\ NoTask.entry = 0
  BY <1>0, NoTaskFacts DEF IInv, TypeOK, LoopInv
<1>2. PICK t \in Tasks : t.step = "parse" /\ t.entry = 0 /\ task' = [task EXCEPT ![pending] = t]
  <2> DEFINE t == [NoTask EXCEPT !.step = "parse"]
  <2>1. t \in Tasks /\ t.step = "parse" /\ t.entry = 0
    BY <1>1 DEF Tasks, Steps
  <2>2. task' = [task EXCEPT ![pending] = t]
    BY <1>0, <1>1
  <2> QED  BY <2>1, <2>2
<1>3. TypeOK'
  BY <1>0, <1>2 DEF IInv, TypeOK
<1>4. TopicInv'
  BY <1>0 DEF IInv, TopicInv, CacheEntries
<1>5. LoopInv'
  <2>1. ~ (pending >= position)
    BY <1>1, OffsetTypes
  <2>2. \A o \in Offsets : o # pending => task'[o] = task[o]
    BY <1>1, <1>2
  <2> QED  BY <1>0, <2>1, <2>2 DEF IInv, LoopInv
<1>6. ASSUME NEW q \in Offsets PROVE TaskInv(task[q], q)'
  <2>1. CASE q = pending
    <3>1. task'[q] = t
      BY <1>1, <1>2, <2>1
    <3>2. TaskInv(t, q)'
      BY <1>2 DEF TaskInv
    <3> QED  BY <3>1, <3>2
  <2>2. CASE q # pending
    <3>1. task'[q] = task[q] /\ TaskInv(task[q], q)
      BY <1>1, <1>2, <2>2 DEF IInv
    <3>2. \A u : TaskInv(u, q) => TaskInv(u, q)'
      BY <1>0, TaskInvMono
    <3> QED  BY <3>1, <3>2
  <2> QED  BY <2>1, <2>2
<1>7. \A q \in acked' : Settled(q)'
  BY <1>0, SettledMono DEF IInv
<1> QED  BY <1>0, <1>3, <1>4, <1>5, <1>6, <1>7 DEF IInv

\* The stream ends, or the stored offset is committed.
LEMMA LoopStepIInv ==
    ASSUME IInv, StreamFails \/ AutoCommit \/ UNCHANGED vars
    PROVE  IInv'
<1>0. /\ UNCHANGED <<position, pending, queue, stored, task, cache, registry, published,
                     reported, acked, lookupFailed, everTopics>>
      /\ streamOpen' \in BOOLEAN
  BY DEF StreamFails, AutoCommit, vars, process, output, history, IInv, TypeOK
<1>1. committed' = committed \/ (committed' = stored /\ stored > committed)
  BY DEF StreamFails, AutoCommit, vars
<1>2. /\ committed' \in Offsets
      /\ QueueInv(Offsets, queue, acked, position, stored, committed)'
  <2>1. CASE committed' = committed
    BY <1>0, <2>1, OffsetTypes
  <2>2. CASE committed' = stored /\ stored > committed
    <3>1. stored \in Offsets
      <4>1. stored # -1
        BY <2>2, OffsetTypes, OffsetsFacts
      <4> QED  BY <4>1, OffsetTypes, OffsetsFacts
    <3>2. AllBelow(Offsets, stored + 1, acked)
      BY OffsetTypes, QueueInvBelow
    <3>3. AllBelow(Offsets, stored, acked)
      <4>1. \A x \in Offsets : x < stored => x < stored + 1
        BY <3>1, OffsetsFacts
      <4> QED  BY <3>2, <4>1 DEF AllBelow
    <3>4. QueueInv(Offsets, queue, acked, position, stored, stored)
      BY <3>2, <3>3, OffsetTypes, QueueInvMoves
    <3> QED  BY <1>0, <2>2, <3>1, <3>4
  <2> QED  BY <1>1, <2>1, <2>2
<1>3. TypeOK'
  BY <1>0, <1>2 DEF IInv, TypeOK
<1>4. TopicInv'
  BY <1>0 DEF IInv, TopicInv, CacheEntries
<1>5. LoopInv'
  BY <1>0 DEF IInv, LoopInv
<1> QED  BY <1>0, <1>2, <1>3, <1>4, <1>5, NothingDone DEF IInv

\* The process ends, and starts again where everything before is acknowledged.
LEMMA DieIInv ==
    ASSUME IInv, FreshProcess(committed),
           UNCHANGED <<committed, registry, acked, lookupFailed, everTopics>>,
           published \subseteq published', reported \subseteq reported',
           reported' \subseteq Offsets,
           \A d \in published' : d.schema \in Schemas /\ d.topic \in everTopics[d.schema]
    PROVE  IInv'
<1>0. /\ streamOpen' = TRUE /\ position' = committed /\ pending' = None
      /\ queue' = NewQueue /\ stored' = None /\ cache' = <<>>
      /\ task' = [o \in Offsets |-> NoTask]
  BY DEF FreshProcess
<1>1. queue' \in AckQueues(Offsets) /\ QueueInv(Offsets, queue, acked, position, stored, committed)'
  <2>1. AllBelow(Offsets, committed, acked)
    BY OffsetTypes, QueueInvBelow
  <2>2. QueueInv(Offsets, NewQueue, acked, committed, -1, committed)
    BY <2>1, OffsetTypes, OffsetsFacts, NewQueueInv
  <2>3. NewQueue \in AckQueues(Offsets)
    BY OffsetsFacts DEF NewQueue, AckQueues
  <2> QED  BY <1>0, <2>2, <2>3, OffsetsFacts
<1>2. TypeOK'
  <2>1. queue'.waiting_list \in Seq(Offsets) /\ queue'.last_offset \in Offsets
    BY <1>1 DEF AckQueues
  <2>2. /\ cache' \in Seq([schema : Schemas, topic : Topics]) /\ Len(cache') <= CacheCapacity
    BY <1>0, ConstantsAssumption
  <2>3. position' \in 0..LogEnd
    BY <1>0, OffsetTypes, ConstantsAssumption DEF Offsets
  <2>4. task' \in [Offsets -> Tasks]
    BY <1>0, NoTaskFacts
  <2> QED  BY <1>0, <2>1, <2>2, <2>3, <2>4 DEF IInv, TypeOK
<1>3. TopicInv'
  <2>1. cache' \in Seq(CacheEntries')
    BY <1>0
  <2> QED  BY <2>1 DEF IInv, TopicInv
<1>4. LoopInv'
  BY <1>0 DEF LoopInv
<1>5. ASSUME NEW q \in Offsets PROVE TaskInv(task[q], q)'
  <2>1. task'[q] = NoTask
    BY <1>0
  <2>2. \A u : u = NoTask => TaskInv(u, q)'
    BY NoTaskFacts DEF TaskInv
  <2> QED  BY <2>1, <2>2
<1>6. \A q \in acked' : Settled(q)'
  BY SettledMono DEF IInv
<1> QED  BY <1>1, <1>2, <1>3, <1>4, <1>5, <1>6 DEF IInv

\* A restart, or an abort while a message is on its way.
LEMMA RestartIInv ==
    ASSUME IInv, Restart \/ \E o \in Offsets : SendFails(o)
    PROVE  IInv'
<1>1. \A d \in published : d.schema \in Schemas /\ d.topic \in everTopics[d.schema]
  BY DEF IInv, TopicInv
<1>2. reported \subseteq Offsets
  BY DEF IInv, TypeOK
<1>3. CASE Restart
  <2>1. /\ FreshProcess(committed)
        /\ UNCHANGED <<committed, registry, published, reported, acked, lookupFailed, everTopics>>
    BY <1>3 DEF Restart, Die, output, history
  <2> QED  BY <1>1, <1>2, <2>1, DieIInv
<1>4. ASSUME NEW o \in Offsets, SendFails(o) PROVE IInv'
  <2>1. /\ FreshProcess(committed)
        /\ UNCHANGED <<committed, registry, acked, lookupFailed, everTopics>>
        /\ published' = published \/ (task[o].step = "publish" /\
                                       published' = published \cup {Delivery(o)})
        /\ reported' = reported \/ reported' = reported \cup {o}
    BY <1>4 DEF SendFails, Die, history
  <2>2. /\ published \subseteq published'
        /\ \A d \in published' : d.schema \in Schemas /\ d.topic \in everTopics[d.schema]
    BY <1>1, <2>1, DeliveryFacts
  <2>3. reported \subseteq reported' /\ reported' \subseteq Offsets
    BY <1>2, <2>1
  <2> QED  BY <2>1, <2>2, <2>3, DieIInv
<1> QED  BY <1>3, <1>4

\* The registry gives a schema another topic.
LEMMA ChangeTopicIInv ==
    ASSUME IInv, NEW s \in Schemas, NEW t \in Topics, ChangeTopic(s, t) PROVE IInv'
<1>0. /\ registry' = [registry EXCEPT ![s] = t]
      /\ everTopics' = [everTopics EXCEPT ![s] = @ \cup {t}]
      /\ UNCHANGED <<streamOpen, position, pending, queue, stored, task, cache, committed,
                     published, reported, acked, lookupFailed>>
  BY DEF ChangeTopic, process, output
<1>1. everTopics \in [Schemas -> SUBSET Topics] /\ registry \in [Schemas -> Topics]
  BY DEF IInv, TopicInv, TypeOK
<1>2. /\ everTopics' \in [Schemas -> SUBSET Topics] /\ registry' \in [Schemas -> Topics]
      /\ \A u \in Schemas : everTopics[u] \subseteq everTopics'[u]
      /\ \A u \in Schemas : registry[u] \in everTopics[u] => registry'[u] \in everTopics'[u]
  BY <1>0, <1>1
<1>3. TypeOK'
  BY <1>0, <1>2 DEF IInv, TypeOK
<1>4. TopicInv'
  <2>1. CacheEntries \subseteq CacheEntries'
    BY <1>2 DEF CacheEntries
  <2>2. cache' \in Seq(CacheEntries')
    BY <1>0, <2>1, SeqMono DEF IInv, TopicInv
  <2> QED  BY <1>0, <1>2, <2>2 DEF IInv, TopicInv
<1>5. LoopInv'
  BY <1>0 DEF IInv, LoopInv
<1>6. ASSUME NEW q \in Offsets PROVE TaskInv(task[q], q)'
  <2>1. TaskInv(task[q], q) /\ task'[q] = task[q]
    BY <1>0 DEF IInv
  <2>2. CASE IsBatch(q)
    <3>1. \A i \in 1..Len(Payload[q]) : Payload[q][i] \in Schemas
      BY <2>2, OffsetsFacts
    <3>2. \A u : TaskInv(u, q) => TaskInv(u, q)'
      BY <1>0, <1>2, <3>1, TaskInvMono
    <3> QED  BY <2>1, <3>2
  <2>3. CASE ~ IsBatch(q)
    <3>1. Settled(q) => Settled(q)'
      BY <1>0, SettledMono
    <3>2. \A u : TaskInv(u, q) => TaskInv(u, q)'
      <4>1. IsBatch(q)' = IsBatch(q)
        BY DEF IsBatch
      <4> QED  BY <2>3, <3>1, <4>1 DEF TaskInv
    <3> QED  BY <2>1, <3>2
  <2> QED  BY <2>2, <2>3
<1>7. \A q \in acked' : Settled(q)'
  BY <1>0, SettledMono DEF IInv
<1> QED  BY <1>0, <1>3, <1>4, <1>5, <1>6, <1>7 DEF IInv

\* Nothing is read, delivered or known at the start.
LEMMA InitIInv == Init => IInv
<1> SUFFICES ASSUME Init PROVE IInv
  OBVIOUS
<1>0. /\ streamOpen = TRUE /\ position = 0 /\ pending = None
      /\ queue = NewQueue /\ stored = None /\ committed = 0
      /\ task = [o \in Offsets |-> NoTask] /\ cache = <<>> /\ registry = InitialTopic
      /\ published = {} /\ reported = {} /\ acked = {}
      /\ everTopics = [s \in Schemas |-> {registry[s]}]
  BY DEF Init
<1>1. queue \in AckQueues(Offsets) /\ QueueInv(Offsets, queue, acked, position, stored, committed)
  <2>1. AllBelow(Offsets, 0, {})
    BY OffsetsFacts DEF AllBelow
  <2>2. QueueInv(Offsets, NewQueue, {}, 0, -1, 0)
    BY <2>1, OffsetsFacts, NewQueueInv
  <2>3. NewQueue \in AckQueues(Offsets)
    BY OffsetsFacts DEF NewQueue, AckQueues
  <2> QED  BY <1>0, <2>2, <2>3, OffsetsFacts
<1>2. TypeOK
  <2>1. queue.waiting_list \in Seq(Offsets) /\ queue.last_offset \in Offsets
    BY <1>1 DEF AckQueues
  <2>2. /\ cache \in Seq([schema : Schemas, topic : Topics]) /\ Len(cache) <= CacheCapacity
    BY <1>0, ConstantsAssumption
  <2>3. position \in 0..LogEnd /\ registry \in [Schemas -> Topics]
    BY <1>0, ConstantsAssumption
  <2>4. task \in [Offsets -> Tasks]
    BY <1>0, NoTaskFacts
  <2> QED  BY <1>0, <2>1, <2>2, <2>3, <2>4, OffsetsFacts DEF TypeOK
<1>3. TopicInv
  BY <1>0, ConstantsAssumption DEF TopicInv
<1>4. LoopInv
  BY <1>0 DEF LoopInv
<1>5. \A q \in Offsets : TaskInv(task[q], q)
  BY <1>0, NoTaskFacts
<1> QED  BY <1>0, <1>1, <1>2, <1>3, <1>4, <1>5 DEF IInv

\* Every step keeps the invariant.
LEMMA NextIInv == IInv /\ [Next]_vars => IInv'
<1> SUFFICES ASSUME IInv, [Next]_vars PROVE IInv'
  OBVIOUS
<1>1. CASE Receive
  BY <1>1, ReceiveIInv
<1>2. CASE Spawn
  BY <1>2, SpawnIInv
<1>3. CASE StreamFails \/ AutoCommit \/ UNCHANGED vars
  BY <1>3, LoopStepIInv
<1>4. CASE Restart \/ \E o \in Offsets : SendFails(o)
  BY <1>4, RestartIInv
<1>5. ASSUME NEW o \in Offsets, Handle(o) PROVE IInv'
  BY <1>5, ParseIInv, LookupHitIInv, LookupMissIInv, RpcAnswerIInv, RpcFailsIInv, InsertIInv,
     PublishIInv, ReportIInv, AckIInv DEF Handle
<1>6. ASSUME NEW s \in Schemas, NEW t \in Topics, ChangeTopic(s, t) PROVE IInv'
  BY <1>6, ChangeTopicIInv
<1> QED  BY <1>1, <1>2, <1>3, <1>4, <1>5, <1>6 DEF Next

------------------------------------------------------------------------------
(* The properties *)

\* The type invariant, with the cache within its capacity.
THEOREM TypeCorrect == Spec => []TypeOK
<1>1. IInv => TypeOK
  BY DEF IInv
<1> QED  BY <1>1, InitIInv, NextIInv, PTL DEF Spec

\* Once a restart may skip a message every entry of it has reached a topic, or
\* its lookup failed and the error topic was told: handle_message acknowledges
\* last, in whatever order the tasks run and the process is aborted.
THEOREM NothingSkippedHolds == Spec => []NothingSkipped
<1>1. IInv => NothingSkipped
  <2> SUFFICES ASSUME IInv, NEW o \in Offsets, o < committed \/ o <= stored \/ o \in acked
               PROVE  Settled(o)
    BY DEF NothingSkipped
  <2>1. AllBelow(Offsets, stored + 1, acked) /\ AllBelow(Offsets, committed, acked)
    BY OffsetTypes, QueueInvBelow
  <2>2. o <= stored => o < stored + 1
    BY OffsetTypes, OffsetsFacts
  <2>3. o \in acked
    BY <2>1, <2>2 DEF AllBelow
  <2> QED  BY <2>3 DEF IInv
<1> QED  BY <1>1, InitIInv, NextIInv, PTL DEF Spec

\* An entry goes to a topic its own schema has had, whatever other tasks did to
\* the cache between its two critical sections.
THEOREM RoutedBySchemaHolds == Spec => []RoutedBySchema
<1>1. IInv => RoutedBySchema
  BY DEF IInv, TopicInv, RoutedBySchema
<1> QED  BY <1>1, InitIInv, NextIInv, PTL DEF Spec
==============================================================================
