-------------------------- MODULE ReplicationProofs --------------------------
(***************************************************************************)
(* What a slave commits it has applied, what it replays converges, and the *)
(* elector labels one pod, for every set of pods, every topic and every    *)
(* number of faults and writes.                                            *)
(***************************************************************************)
EXTENDS Replication, SequenceLemmas

LastEvent == Len(Events)
Log == 0..LastEvent

PodTypes ==
    [up : BOOLEAN, label : BOOLEAN, role : {"slave", "master"}, poisoned : BOOLEAN,
     stream : {"open", "closed"}, killed : BOOLEAN, thread : BOOLEAN, outbox : Nat,
     pos : 1..(LastEvent + 1), event : Log, step : {"none", "apply", "ack"},
     queue : AckQueues(Log), stored : 1..(LastEvent + 1), clean : BOOLEAN]

DbTypes ==
    [schema : BOOLEAN, meta : 0..Client, version : Nat, view : {"none", "vertex", "whole"},
     applied : SUBSET (1..LastEvent), writes : SUBSET Pods]

Types ==
    /\ pod \in [Pods -> PodTypes]
    /\ db \in [Pods -> DbTypes]
    /\ committed \in [Pods -> 1..(LastEvent + 1)]
    /\ published \in Log
    /\ elector \in [pc : {"sleep", "remove", "promote", "label"}, pod : Pods \cup {Nobody}]

\* The writer of the metadata is an update among the events, or a client.
IsUpdate(w) == w = Client \/ (w \in 1..LastEvent /\ Events[w].kind = "UpdateSchemaMetadata")

\* What an event leaves in the database d, as itself or overwritten by a later one.
\* A schema is added once, so nothing of an update or a version goes again.
Mark(d, e) ==
    /\ Events[e].kind = "AddSchema" => d.schema
    /\ Events[e].kind = "UpdateSchemaMetadata" => d.schema /\ d.meta >= e /\ IsUpdate(d.meta)
    /\ Events[e].kind = "AddSchemaVersion" => d.schema /\ d.version >= Events[e].version

\* What a restart need not read again.
AppliedTo(d, e) == e \in d.applied /\ Mark(d, e)

\* The events a process r has passed and applied; offset 0 is no event.
Done(r, d) == {0} \cup {e \in 1..(r.pos - 1) : AppliedTo(d, e)}

\* The ack queue of a running process, with "applied" for "acknowledged".  While
\* an event is replayed the database may go back to it, never behind what the
\* process has passed; so only those events count.
SlaveInv(r, d, c) ==
    /\ QueueInv(Log, r.queue, Done(r, d), r.pos, -1, c)
    /\ QueueOrdered(r.queue, 0, r.pos)
    /\ AllBelow(Log, r.stored, Done(r, d))
    /\ r.stored <= r.pos /\ c <= r.pos
    /\ r.step = "none" => r.event = 0
    /\ r.step # "none" => r.event = r.pos - 1 /\ r.event # 0 /\ AckReturns(r.queue, r.event)
    /\ r.step = "ack" => AppliedTo(d, r.event)

\* The first event a process has not dealt with.
NextEvent(r) == IF r.step = "apply" THEN r.event ELSE r.pos

\* An event has its mark, unless it came before every AddSchema.
Kept(d, e) ==
    /\ Events[e].kind = "AddSchema" => d.schema
    /\ \A f \in 1..(e - 1) : Events[f].kind = "AddSchema" => Mark(d, e)

\* Without a failing store everything before it has left its mark: an AddSchema
\* that was refused found the vertex, a version found one that is no smaller.
ReplayInv(r, d) ==
    r.stream = "open" /\ r.clean => \A e \in 1..(NextEvent(r) - 1) : Kept(d, e)

\* What a database has after the first n events it still has: the history grows
\* and no mark goes.
Grows(d, d2, n) ==
    /\ d.applied \subseteq d2.applied
    /\ d.schema => d2.schema
    /\ \A e \in 1..n : Mark(d, e) => Mark(d2, e)

\* One pod: its process, its database, its group's offset and the topic's end.
PodInv(r, d, c, n) ==
    /\ \A e \in 1..(c - 1) : AppliedTo(d, e)
    /\ r.up => SlaveInv(r, d, c) /\ ReplayInv(r, d)
    /\ r.pos <= n + 1
    /\ r.stored # 1 => r.stored <= n
    /\ c # 1 => c <= n
    /\ d.meta \in 0..n \cup {Client} /\ d.applied \subseteq 1..n
    /\ ~ r.up => r.step = "none"

\* No pod is labelled while the elector looks for a new one.
LabelInv ==
    /\ \A p, q \in Pods : pod[p].label /\ pod[q].label => p = q
    /\ elector.pc \in {"promote", "label"} => \A p \in Pods : ~ pod[p].label
    /\ elector.pc = "label" => elector.pod \in Pods

\* The inductive invariant.
IInv ==
    /\ Types
    /\ \A p \in Pods : PodInv(pod[p], db[p], committed[p], published)
    /\ LabelInv

------------------------------------------------------------------------------
\* The topic as a log.
LEMMA LogFacts ==
    /\ LastEvent \in Nat /\ Log \in SUBSET Nat /\ Log \in SUBSET Int /\ IsLog(Log)
    /\ \A e \in 1..LastEvent : Events[e] \in EventTypes
    /\ Client = LastEvent + 1
    /\ NewQueue \in AckQueues(Log)
<1>1. /\ LastEvent \in Nat /\ Client = LastEvent + 1
      /\ \A e \in 1..LastEvent : Events[e] \in EventTypes
  BY ReplicationAssumption DEF LastEvent, Client
<1>2. 0 \in Log /\ Log \in SUBSET Nat /\ Log \in SUBSET Int /\ IsLog(Log)
  BY <1>1 DEF Log, IsLog
<1>3. NewQueue \in AckQueues(Log)
  BY <1>2 DEF NewQueue, AckQueues
<1> QED  BY <1>1, <1>2, <1>3

\* A started process, and one that is down.
LEMMA StartedTypes ==
    ASSUME NEW c \in 1..(LastEvent + 1), NEW l \in BOOLEAN
    PROVE  /\ Started(c, l) \in PodTypes /\ Started(c, l).label = l
           /\ Down(l) \in PodTypes /\ Down(l).label = l /\ ~ Down(l).up
           /\ Down(l).pos = 1 /\ Down(l).stored = 1 /\ Down(l).step = "none"
<1>1. 0 \in Log /\ 0 \in Nat /\ 1 \in 1..(LastEvent + 1)
  BY LogFacts DEF Log
<1>2. ASSUME NEW b \in 1..(LastEvent + 1) PROVE Started(b, l) \in PodTypes
  BY <1>1, LogFacts DEF Started, PodTypes
<1> DEFINE r == Started(1, l)
<1>3. r \in PodTypes /\ r.label = l /\ r.pos = 1 /\ r.stored = 1 /\ r.step = "none"
  BY <1>1, <1>2 DEF Started
<1>4. /\ Down(l) \in PodTypes /\ Down(l).label = l /\ ~ Down(l).up
      /\ Down(l).pos = 1 /\ Down(l).stored = 1 /\ Down(l).step = "none"
  <2>1. Down(l) = [r EXCEPT !.up = FALSE, !.stream = "closed"]
    BY DEF Down
  <2> HIDE DEF r
  <2> QED  BY <1>3, <2>1 DEF PodTypes
<1>5. Started(c, l).label = l
  BY DEF Started
<1> QED  BY <1>1, <1>2, <1>3, <1>4, <1>5

\* A process starts where everything before is applied.
LEMMA StartedInv ==
    ASSUME NEW c \in 1..(LastEvent + 1), NEW l \in BOOLEAN, NEW d \in DbTypes,
           \A e \in 1..(c - 1) : AppliedTo(d, e)
    PROVE  SlaveInv(Started(c, l), d, c) /\ ReplayInv(Started(c, l), d)
<1> DEFINE r == Started(c, l)
<1>1. /\ r.pos = c /\ r.stored = c /\ r.step = "none" /\ r.event = 0
      /\ r.queue = NewQueue
  BY DEF Started
<1> HIDE DEF r
<1>2. c \in Int /\ c <= c /\ LastEvent \in Nat
  BY LogFacts
<1>3. AllBelow(Log, c, Done(r, d))
  <2> SUFFICES ASSUME NEW o \in Log, o < c PROVE o \in Done(r, d)
    BY DEF AllBelow
  <2>1. o = 0 \/ o \in 1..(c - 1)
    BY <1>2, LogFacts
  <2> QED  BY <1>1, <2>1 DEF Done
<1>4. QueueInv(Log, NewQueue, Done(r, d), c, -1, c)
  BY <1>2, <1>3, LogFacts, NewQueueInv
<1>5. QueueOrdered(NewQueue, 0, c)
  BY <1>2 DEF QueueOrdered, Ordered, NewQueue
<1>6. SlaveInv(r, d, c)
  BY <1>1, <1>2, <1>3, <1>4, <1>5 DEF SlaveInv
<1>7. ReplayInv(r, d)
  BY <1>1 DEF ReplayInv, NextEvent, AppliedTo, Kept, Mark
<1> QED  BY <1>6, <1>7 DEF r

\* The invariant of a process rests on what it is doing with the topic only.
LEMMA SameSlave ==
    ASSUME NEW r, NEW r2, NEW d, NEW c, NEW n, PodInv(r, d, c, n),
           r2.up = r.up, r2.pos = r.pos, r2.stored = r.stored, r2.step = r.step,
           r2.event = r.event, r2.queue = r.queue,
           r2.stream = "open" /\ r2.clean => r.stream = "open" /\ r.clean
    PROVE  PodInv(r2, d, c, n)
BY DEF PodInv, SlaveInv, ReplayInv, NextEvent, Done

\* A pod that is down has only its database and its offset.
LEMMA DownInv ==
    ASSUME NEW r, NEW d, NEW c, NEW n \in Nat, NEW l \in BOOLEAN, PodInv(r, d, c, n)
    PROVE  PodInv(Down(l), d, c, n)
<1>1. 1 \in 1..(LastEvent + 1)
  BY LogFacts
<1>2. ~ Down(l).up /\ Down(l).pos = 1 /\ Down(l).stored = 1 /\ Down(l).step = "none"
  BY <1>1, StartedTypes
<1> QED  BY <1>2 DEF PodInv

\* A step of one pod that keeps its label.
LEMMA OnePodStep ==
    ASSUME IInv, NEW p \in Pods,
           Types', published' = published, elector' = elector,
           \A q \in Pods : q # p => /\ pod'[q] = pod[q] /\ db'[q] = db[q]
                                    /\ committed'[q] = committed[q],
           pod'[p].label = pod[p].label,
           PodInv(pod'[p], db'[p], committed'[p], published)
    PROVE  IInv'
<1>1. ASSUME NEW q \in Pods PROVE PodInv(pod[q], db[q], committed[q], published)'
  <2>1. CASE q = p
    BY <2>1
  <2>2. CASE q # p
    BY <2>2 DEF IInv
  <2> QED  BY <2>1, <2>2
<1>2. \A q \in Pods : pod'[q].label = pod[q].label
  OBVIOUS
<1>3. LabelInv'
  BY <1>2 DEF IInv, LabelInv
<1> QED  BY <1>1, <1>3 DEF IInv

\* What the invariant says of one pod.
LEMMA OnePod ==
    ASSUME IInv, NEW p \in Pods
    PROVE  /\ pod[p] \in PodTypes /\ db[p] \in DbTypes /\ committed[p] \in 1..(LastEvent + 1)
           /\ PodInv(pod[p], db[p], committed[p], published)
           /\ published \in Nat /\ published <= LastEvent
<1>1. published \in Nat /\ published <= LastEvent
  BY LogFacts DEF IInv, Types, Log
<1> QED  BY <1>1 DEF IInv, Types

\* A database that has more applies no less.
LEMMA MoreApplied ==
    ASSUME NEW r \in PodTypes, NEW d, NEW d2, NEW c \in 1..(LastEvent + 1), NEW n,
           PodInv(r, d, c, n), r.up,
           Grows(d, d2, r.pos - 1), d2.meta \in 0..n \cup {Client}, d2.applied \subseteq 1..n
    PROVE  PodInv(r, d2, c, n)
<1>0. SlaveInv(r, d, c) /\ ReplayInv(r, d) /\ r.pos \in Int /\ c \in Int
  BY DEF PodInv, PodTypes
<1>t. c <= r.pos /\ (r.step # "none" => r.event = r.pos - 1 /\ r.event # 0)
  BY <1>0 DEF SlaveInv
<1>1. \A e \in 1..(r.pos - 1) : AppliedTo(d, e) => AppliedTo(d2, e)
  BY DEF AppliedTo, Grows
<1>2. Done(r, d) \subseteq Done(r, d2)
  BY <1>1 DEF Done
<1>3. SlaveInv(r, d2, c)
  <2>1. QueueInv(Log, r.queue, Done(r, d2), r.pos, -1, c)
    <3>1. QueueInv(Log, r.queue, Done(r, d), r.pos, -1, c)
      BY <1>0 DEF SlaveInv
    <3> QED  BY <1>2, <3>1, QueueInvMono
  <2>2. AllBelow(Log, r.stored, Done(r, d2))
    BY <1>0, <1>2 DEF SlaveInv, AllBelow
  <2>3. r.step = "ack" => AppliedTo(d2, r.event)
    <3>1. r.step = "ack" => r.event \in 1..(r.pos - 1)
      <4>1. r.pos \in Nat /\ r.pos >= 1
        BY LogFacts DEF PodTypes
      <4> QED  BY <1>t, <4>1
    <3> QED  BY <1>0, <1>1, <3>1 DEF SlaveInv
  <2> QED  BY <1>0, <2>1, <2>2, <2>3 DEF SlaveInv
<1>4. ReplayInv(r, d2)
  <2> SUFFICES ASSUME r.stream = "open", r.clean, NEW e \in 1..(NextEvent(r) - 1)
               PROVE  Kept(d2, e)
    BY DEF ReplayInv
  <2>1. e \in 1..(r.pos - 1)
    BY <1>0, <1>t DEF NextEvent
  <2>2. Kept(d, e)
    BY <1>0 DEF ReplayInv
  <2> QED  BY <2>1, <2>2 DEF Kept, Grows
<1>5. \A e \in 1..(c - 1) : AppliedTo(d2, e)
  <2> SUFFICES ASSUME NEW e \in 1..(c - 1) PROVE AppliedTo(d2, e)
    OBVIOUS
  <2>1. e \in 1..(r.pos - 1)
    BY <1>0, <1>t
  <2> QED  BY <1>1, <2>1 DEF PodInv
<1> QED  BY <1>3, <1>4, <1>5 DEF PodInv

\* An event or a request is carried out: the marks of what came before its writer
\* stay, because a schema that has left a mark is not added a second time.
LEMMA EffectGrows ==
    ASSUME NEW d \in DbTypes, NEW ev \in EventTypes, NEW w \in 1..Client, CanApply(d, ev),
           ev.kind = "UpdateSchemaMetadata" => IsUpdate(w), NEW n \in Nat, n <= w, n <= LastEvent
    PROVE  /\ Effect(d, ev, w) \in DbTypes
           /\ Effect(d, ev, w).applied = d.applied
           /\ Effect(d, ev, w).meta \in {d.meta, w}
           /\ Grows(d, Effect(d, ev, w), n)
<1> DEFINE d2 == Effect(d, ev, w)
<1>0. /\ LastEvent \in Nat /\ Client = LastEvent + 1 /\ ev.version \in Nat /\ d.version \in Nat
      /\ w \in 0..Client /\ w \in Int /\ d.meta \in Int
  BY LogFacts DEF EventTypes, DbTypes
<1>v. \A e \in 1..n : e \in Int /\ e <= w /\ Events[e].version \in Nat
  <2>1. \A e \in 1..n : e \in 1..LastEvent /\ e <= w
    BY <1>0
  <2> QED  BY <2>1, LogFacts DEF EventTypes
<1>1. CASE ev.kind = "AddSchema"
  <2>1. d2 = [d EXCEPT !.schema = TRUE, !.meta = w, !.version = 1] /\ ~ d.schema
    BY <1>1 DEF Effect, CanApply
  <2> HIDE DEF d2
  <2>2. d2 \in DbTypes /\ d2.applied = d.applied /\ d2.meta = w /\ d2.schema
    BY <1>0, <2>1 DEF DbTypes
  <2> QED  BY <2>1, <2>2 DEF Grows, Mark, d2
<1>2. CASE ev.kind = "UpdateSchemaMetadata"
  <2>1. d2 = [d EXCEPT !.meta = w]
    BY <1>2 DEF Effect
  <2> HIDE DEF d2
  <2>2. /\ d2 \in DbTypes /\ d2.applied = d.applied /\ d2.meta = w /\ d2.schema = d.schema
        /\ d2.version = d.version
    BY <1>0, <2>1 DEF DbTypes
  <2>3. \A e \in 1..n : d2.meta >= e /\ IsUpdate(d2.meta)
    BY <1>0, <1>2, <1>v, <2>2
  <2> QED  BY <2>2, <2>3 DEF Grows, Mark, d2
<1>3. CASE ev.kind = "AddSchemaVersion"
  <2>1. d2 = [d EXCEPT !.version = ev.version] /\ ev.version > d.version
    BY <1>3 DEF Effect, CanApply
  <2> HIDE DEF d2
  <2>2. /\ d2 \in DbTypes /\ d2.applied = d.applied /\ d2.meta = d.meta /\ d2.schema = d.schema
        /\ d2.version = ev.version
    BY <1>0, <2>1 DEF DbTypes
  <2>3. \A e \in 1..n : d.version >= Events[e].version => d2.version >= Events[e].version
    BY <1>0, <1>v, <2>1, <2>2
  <2> QED  BY <2>2, <2>3 DEF Grows, Mark, d2
<1>4. CASE ev.kind \notin {"AddSchema", "UpdateSchemaMetadata", "AddSchemaVersion"}
  <2>1. d2 = [d EXCEPT !.view = "whole"] \/ d2 = d
    BY <1>4 DEF Effect
  <2> HIDE DEF d2
  <2>2. /\ d2 \in DbTypes /\ d2.applied = d.applied /\ d2.meta = d.meta /\ d2.schema = d.schema
        /\ d2.version = d.version
    BY <2>1 DEF DbTypes
  <2> QED  BY <2>2 DEF Grows, Mark, d2
<1> QED  BY <1>1, <1>2, <1>3, <1>4

\* A vertex that was made takes no mark away.
LEMMA VertexGrows ==
    ASSUME NEW d \in DbTypes, NEW ev, NEW n
    PROVE  /\ VertexOnly(d, ev) \in DbTypes
           /\ VertexOnly(d, ev).applied = d.applied /\ VertexOnly(d, ev).meta = d.meta
           /\ Grows(d, VertexOnly(d, ev), n)
<1> DEFINE d2 == VertexOnly(d, ev)
<1>1. d2 \in {[d EXCEPT !.schema = TRUE], [d EXCEPT !.view = "vertex"], d}
  BY DEF VertexOnly
<1> HIDE DEF d2
<1>2. /\ d2 \in DbTypes /\ d2.applied = d.applied /\ d2.meta = d.meta /\ d2.version = d.version
      /\ d.schema => d2.schema
  BY <1>1 DEF DbTypes
<1>3. Grows(d, d2, n)
  BY <1>2 DEF Grows, Mark
<1> QED  BY <1>2, <1>3 DEF d2

\* The event at hand, and what carrying it out gives.
LEMMA EventAtHand ==
    ASSUME IInv, NEW p \in Pods, pod[p].step = "apply"
    PROVE  LET e == pod[p].event
               d == db[p]
               d2 == Effect(d, Events[e], e)
           IN  /\ pod[p].up /\ e = pod[p].pos - 1 /\ e \in 1..published /\ e \in 1..LastEvent
               /\ Events[e] \in EventTypes
               /\ Acceptable(p) =>
                    /\ d2 \in DbTypes /\ d2.applied = d.applied
                    /\ d2.meta \in 0..published \cup {Client}
                    /\ Grows(d, d2, e)
<1> DEFINE e == pod[p].event
           d == db[p]
           d2 == Effect(d, Events[e], e)
<1>0. /\ pod[p] \in PodTypes /\ d \in DbTypes /\ PodInv(pod[p], d, committed[p], published)
      /\ published \in Nat /\ published <= LastEvent
  BY OnePod
<1>1. pod[p].up
  BY <1>0 DEF PodInv
<1>2. e = pod[p].pos - 1 /\ e # 0 /\ pod[p].pos <= published + 1
  BY <1>0, <1>1 DEF PodInv, SlaveInv
<1>3. e \in 1..published /\ e \in 1..LastEvent /\ e \in 1..Client /\ e \in Nat
  BY <1>0, <1>2, LogFacts DEF PodTypes, Log
<1>4. Events[e] \in EventTypes
  BY <1>3, LogFacts
<1>5. Events[e].kind = "UpdateSchemaMetadata" => IsUpdate(e)
  BY <1>3 DEF IsUpdate
<1> HIDE DEF e, d
<1>6. ASSUME CanApply(d, Events[e])
      PROVE  /\ d2 \in DbTypes /\ d2.applied = d.applied /\ d2.meta \in {d.meta, e}
             /\ Grows(d, d2, e)
  BY <1>0, <1>3, <1>4, <1>5, <1>6, EffectGrows
<1> HIDE DEF d2
<1>7. d.meta \in 0..published \cup {Client} /\ e \in 0..published
  BY <1>0, <1>3 DEF PodInv
<1>8. ASSUME CanApply(d, Events[e]) PROVE d2.meta \in 0..published \cup {Client}
  BY <1>6, <1>7, <1>8
<1>9. Acceptable(p) <=> CanApply(d, Events[e])
  BY DEF Acceptable, d, e
<1> QED  BY <1>1, <1>2, <1>3, <1>4, <1>6, <1>8, <1>9 DEF d, e, d2

\* What an operation that fails half-way leaves is no less either.
LEMMA PartlyAppliedInv ==
    ASSUME IInv, NEW p \in Pods, NEW d \in PartlyApplied(p)
    PROVE  d \in DbTypes /\ PodInv(pod[p], d, committed[p], published)
<1>0. /\ pod[p] \in PodTypes /\ db[p] \in DbTypes /\ committed[p] \in 1..(LastEvent + 1)
      /\ PodInv(pod[p], db[p], committed[p], published)
  BY OnePod
<1>1. CASE d = db[p]
  BY <1>0, <1>1
<1>2. CASE d # db[p]
  <2>1. /\ pod[p].step = "apply" /\ Acceptable(p)
        /\ d \in {VertexOnly(db[p], Events[pod[p].event]),
                  Effect(db[p], Events[pod[p].event], pod[p].event)}
    BY <1>2 DEF PartlyApplied
  <2>2. db[p].meta \in 0..published \cup {Client} /\ db[p].applied \subseteq 1..published
    BY <1>0 DEF PodInv
  <2>3. pod[p].up /\ pod[p].event = pod[p].pos - 1
    BY <2>1, EventAtHand
  <2>4. /\ d \in DbTypes /\ d.applied = db[p].applied /\ Grows(db[p], d, pod[p].pos - 1)
        /\ d.meta \in 0..published \cup {Client}
    <3>1. CASE d = VertexOnly(db[p], Events[pod[p].event])
      BY <1>0, <2>2, <3>1, VertexGrows
    <3>2. CASE d = Effect(db[p], Events[pod[p].event], pod[p].event)
      BY <2>1, <2>3, <3>2, EventAtHand
    <3> QED  BY <2>1, <3>1, <3>2
  <2> QED  BY <1>0, <2>2, <2>3, <2>4, MoreApplied
<1> QED  BY <1>1, <1>2

------------------------------------------------------------------------------
(* The steps of a pod. *)

\* Nothing is published, applied or labelled at the start.
LEMMA InitIInv == Init => IInv
<1> SUFFICES ASSUME Init PROVE IInv
  OBVIOUS
<1>0. LastEvent \in Nat /\ 1 \in 1..(LastEvent + 1) /\ 0 \in Log /\ Nobody \in Pods \cup {Nobody}
  BY LogFacts DEF Log
<1> DEFINE r == Started(1, FALSE)
           d == NewDb
<1>1. /\ r \in PodTypes /\ ~ r.label /\ d \in DbTypes
      /\ r.pos = 1 /\ r.stored = 1 /\ r.up /\ d.meta = 0 /\ d.applied = {}
  <2>1. d \in DbTypes /\ d.meta = 0 /\ d.applied = {}
    BY <1>0, LogFacts DEF DbTypes, NewDb
  <2>2. r.pos = 1 /\ r.stored = 1 /\ r.up
    BY DEF Started
  <2>3. r \in PodTypes /\ ~ r.label
    BY <1>0, StartedTypes
  <2> QED  BY <2>1, <2>2, <2>3
<1>2. /\ pod = [p \in Pods |-> r] /\ db = [p \in Pods |-> d]
      /\ committed = [p \in Pods |-> 1] /\ published = 0
      /\ elector = [pc |-> "sleep", pod |-> Nobody]
  BY DEF Init, Sleeping
<1>3. \A e \in 1..(1 - 1) : AppliedTo(d, e)
  OBVIOUS
<1>4. SlaveInv(r, d, 1) /\ ReplayInv(r, d)
  <2> HIDE DEF d
  <2> QED  BY <1>0, <1>1, <1>3, StartedInv
<1> HIDE DEF r, d
<1>5. PodInv(r, d, 1, 0)
  <2>1. r.pos <= 0 + 1
    BY <1>1
  <2> QED  BY <1>1, <1>3, <1>4, <2>1 DEF PodInv
<1>6. Types
  BY <1>0, <1>1, <1>2 DEF Types
<1>7. LabelInv
  BY <1>1, <1>2 DEF LabelInv
<1> QED  BY <1>2, <1>5, <1>6, <1>7 DEF IInv

\* The thread of a master ends.
LEMMA ThreadEndsIInv == ASSUME IInv, NEW p \in Pods, ThreadEnds(p) PROVE IInv'
<1> DEFINE r == [pod[p] EXCEPT !.thread = FALSE, !.outbox = 0]
<1>1. pod' = [pod EXCEPT ![p] = r] /\ UNCHANGED <<db, committed, published, elector>>
  BY DEF ThreadEnds, IInv, Types
<1>2. /\ r \in PodTypes /\ r.up = pod[p].up /\ r.pos = pod[p].pos
      /\ r.stored = pod[p].stored /\ r.step = pod[p].step /\ r.event = pod[p].event
      /\ r.queue = pod[p].queue /\ r.stream = pod[p].stream /\ r.clean = pod[p].clean
      /\ r.label = pod[p].label
  BY OnePod DEF PodTypes
<1> HIDE DEF r
<1>3. PodInv(r, db[p], committed[p], published)
  BY <1>2, OnePod, SameSlave
<1>4. Types'
  BY <1>1, <1>2 DEF IInv, Types
<1> QED  BY <1>1, <1>2, <1>3, <1>4, OnePodStep DEF IInv, Types

\* The consumer's stream ends.
LEMMA StreamFailsIInv == ASSUME IInv, NEW p \in Pods, StreamFails(p) PROVE IInv'
<1> DEFINE r == [pod[p] EXCEPT !.stream = "closed"]
<1>1. pod' = [pod EXCEPT ![p] = r] /\ UNCHANGED <<db, committed, published, elector>>
  BY DEF StreamFails, IInv, Types
<1>2. /\ r \in PodTypes /\ r.up = pod[p].up /\ r.pos = pod[p].pos
      /\ r.stored = pod[p].stored /\ r.step = pod[p].step /\ r.event = pod[p].event
      /\ r.queue = pod[p].queue /\ r.stream = "closed" /\ r.label = pod[p].label
  BY OnePod DEF PodTypes
<1> HIDE DEF r
<1>3. PodInv(r, db[p], committed[p], published)
  BY <1>2, OnePod, SameSlave
<1>4. Types'
  BY <1>1, <1>2 DEF IInv, Types
<1> QED  BY <1>1, <1>2, <1>3, <1>4, OnePodStep DEF IInv, Types

\* A client's write counts as one after every event, so no mark goes.
LEMMA WriteIInv ==
    ASSUME IInv, NEW p \in Pods, NEW request \in Requests, Write(p, request) PROVE IInv'
<1> DEFINE w == Effect(db[p], request, Client)
           d == [w EXCEPT !.writes = @ \cup {p}]
<1>0. /\ pod[p] \in PodTypes /\ db[p] \in DbTypes /\ published \in Nat
      /\ committed[p] \in 1..(LastEvent + 1)
      /\ PodInv(pod[p], db[p], committed[p], published)
  BY OnePod
<1>1. /\ db' = [db EXCEPT ![p] = d] /\ UNCHANGED <<committed, published, elector>>
      /\ pod[p].up /\ CanApply(db[p], request)
  BY DEF Write
<1>2. /\ d \in DbTypes /\ d.applied = db[p].applied /\ d.meta \in {db[p].meta, Client}
      /\ Grows(db[p], d, pod[p].pos - 1)
  <2>1. request \in EventTypes
    BY ReplicationAssumption DEF EventTypes
  <2>2. /\ Client \in 1..Client /\ IsUpdate(Client) /\ pod[p].pos - 1 \in Nat
        /\ pod[p].pos - 1 <= Client /\ pod[p].pos - 1 <= LastEvent
    BY <1>0, LogFacts DEF IsUpdate, PodTypes
  <2>3. /\ w \in DbTypes /\ w.applied = db[p].applied /\ w.meta \in {db[p].meta, Client}
        /\ Grows(db[p], w, pod[p].pos - 1)
    BY <1>0, <1>1, <2>1, <2>2, EffectGrows
  <2> HIDE DEF w
  <2>4. /\ d \in DbTypes /\ d.applied = w.applied /\ d.meta = w.meta /\ d.schema = w.schema
        /\ d.version = w.version
    BY <2>3 DEF DbTypes
  <2> HIDE DEF d
  <2> QED  BY <2>3, <2>4 DEF Grows, Mark
<1> HIDE DEF d
<1>3. PodInv(pod[p], d, committed[p], published)
  <2>1. d.meta \in 0..published \cup {Client} /\ d.applied \subseteq 1..published
    BY <1>0, <1>2 DEF PodInv
  <2> QED  BY <1>0, <1>1, <1>2, <2>1, MoreApplied
<1>4. PICK r \in {Down(pod[p].label), [pod[p] EXCEPT !.outbox = @ + 1], pod[p]} :
            pod' = [pod EXCEPT ![p] = r]
  BY DEF Write, Replicated
<1>5. r \in PodTypes /\ r.label = pod[p].label /\ PodInv(r, d, committed[p], published)
  <2>1. CASE r = Down(pod[p].label)
    <3>1. pod[p].label \in BOOLEAN /\ 1 \in 1..(LastEvent + 1)
      BY <1>0, LogFacts DEF PodTypes
    <3> QED  BY <1>0, <1>3, <2>1, <3>1, StartedTypes, DownInv
  <2>2. CASE r = [pod[p] EXCEPT !.outbox = @ + 1]
    <3>1. /\ r \in PodTypes /\ r.up = pod[p].up /\ r.pos = pod[p].pos
          /\ r.stored = pod[p].stored /\ r.step = pod[p].step /\ r.event = pod[p].event
          /\ r.queue = pod[p].queue /\ r.stream = pod[p].stream /\ r.clean = pod[p].clean
          /\ r.label = pod[p].label
      BY <1>0, <2>2 DEF PodTypes
    <3> QED  BY <1>3, <3>1, SameSlave
  <2>3. CASE r = pod[p]
    BY <1>0, <1>3, <2>3
  <2> QED  BY <2>1, <2>2, <2>3
<1>6. Types'
  BY <1>1, <1>2, <1>4, <1>5 DEF IInv, Types
<1> QED  BY <1>1, <1>4, <1>5, <1>6, OnePodStep DEF IInv, Types

\* A message is read: it is queued and about to be applied.
LEMMA ReceivedInv ==
    ASSUME NEW r \in PodTypes, NEW d \in DbTypes, NEW c \in 1..(LastEvent + 1), NEW n \in Nat,
           PodInv(r, d, c, n), n <= LastEvent, r.up, r.event = 0, r.pos <= n,
           NEW r2 \in PodTypes,
           r2 = [r EXCEPT !.queue = QueueAdd(r.queue, r.pos), !.pos = r.pos + 1,
                          !.event = r.pos, !.step = "apply"]
    PROVE  PodInv(r2, d, c, n)
<1>0. /\ r.pos \in Int /\ r.pos \in Log /\ r.pos # 0 /\ r.queue \in AckQueues(Log)
      /\ c \in Int /\ LastEvent \in Nat /\ r.step \in {"none", "apply", "ack"} /\ r.pos \in Nat
  BY LogFacts DEF PodTypes, Log
<1>1. /\ r2.queue = QueueAdd(r.queue, r.pos) /\ r2.pos = r.pos + 1 /\ r2.event = r.pos
      /\ r2.step = "apply" /\ r2.up = r.up /\ r2.stored = r.stored /\ r2.stream = r.stream
      /\ r2.clean = r.clean
  BY DEF PodTypes
<1>2. SlaveInv(r, d, c) /\ ReplayInv(r, d)
  BY DEF PodInv
<1>3. Done(r, d) \subseteq Done(r2, d)
  <2>1. \A e \in 1..(r.pos - 1) : e \in 1..(r2.pos - 1)
    BY <1>0, <1>1
  <2> QED  BY <2>1 DEF Done
<1>4. QueueInv(Log, r2.queue, Done(r2, d), r2.pos, -1, c)
  <2>1. QueueInv(Log, r2.queue, Done(r, d), r2.pos, -1, c)
    <3>1. QueueInv(Log, r.queue, Done(r, d), r.pos, -1, c)
      BY <1>2 DEF SlaveInv
    <3>2. -1 \in Int /\ Log \in SUBSET Int
      BY LogFacts
    <3>3. QueueInv(Log, QueueAdd(r.queue, r.pos), Done(r, d), r.pos + 1, -1, c)
      BY <1>0, <3>1, <3>2, QueueAddInv
    <3> QED  BY <1>1, <3>3
  <2> QED  BY <1>3, <2>1, QueueInvMono
<1>5. QueueOrdered(r2.queue, 0, r2.pos)
  <2>1. QueueOrdered(r.queue, 0, r.pos)
    BY <1>2 DEF SlaveInv
  <2> QED  BY <1>0, <1>1, <2>1, LogFacts, QueueOrderedAdd
<1>6. AckReturns(r2.queue, r2.event)
  <2> DEFINE w == r.queue.waiting_list
  <2>1. w \in Seq(Log)
    BY <1>0 DEF AckQueues
  <2>2. r2.queue.waiting_list = Append(w, r.pos)
    BY <1>1 DEF QueueAdd
  <2> HIDE DEF w
  <2>3. /\ Len(Append(w, r.pos)) = Len(w) + 1 /\ Append(w, r.pos)[Len(w) + 1] = r.pos
        /\ Len(w) \in Nat
    BY <1>0, <2>1
  <2>4. Len(w) + 1 \in 1..(Len(w) + 1)
    BY <2>3
  <2> QED  BY <1>1, <2>2, <2>3, <2>4 DEF AckReturns
<1>7. AllBelow(Log, r2.stored, Done(r2, d))
  BY <1>1, <1>2, <1>3 DEF SlaveInv, AllBelow
<1>8. r2.stored <= r2.pos /\ c <= r2.pos /\ r2.event = r2.pos - 1 /\ r2.pos <= n + 1
  <2>1. r.stored <= r.pos /\ c <= r.pos /\ r.stored \in Int
    BY <1>2 DEF SlaveInv, PodTypes
  <2> QED  BY <1>0, <1>1, <2>1
<1>9. SlaveInv(r2, d, c)
  BY <1>0, <1>1, <1>4, <1>5, <1>6, <1>7, <1>8 DEF SlaveInv
<1>10. ReplayInv(r2, d)
  <2>1. r.step = "none"
    BY <1>0, <1>2 DEF SlaveInv
  <2> QED  BY <1>1, <1>2, <2>1 DEF ReplayInv, NextEvent
<1> QED  BY <1>1, <1>8, <1>9, <1>10 DEF PodInv

\* The next message is received, or dropped by a slave that was promoted.
LEMMA ReceiveIInv == ASSUME IInv, NEW p \in Pods, Receive(p) PROVE IInv'
<1>0. /\ pod[p] \in PodTypes /\ db[p] \in DbTypes /\ committed[p] \in 1..(LastEvent + 1)
      /\ PodInv(pod[p], db[p], committed[p], published)
      /\ published \in Nat /\ published <= LastEvent
  BY OnePod
<1>1. pod[p].up /\ pod[p].event = 0 /\ pod[p].pos <= published
  BY DEF Receive, Consuming
<1>2. UNCHANGED <<db, committed, published, elector>>
  BY DEF Receive
<1>3. CASE pod[p].killed
  <2> DEFINE r == [pod[p] EXCEPT !.stream = "closed"]
  <2>1. pod' = [pod EXCEPT ![p] = r]
    BY <1>3 DEF Receive
  <2>2. /\ r \in PodTypes /\ r.up = pod[p].up /\ r.pos = pod[p].pos
        /\ r.stored = pod[p].stored /\ r.step = pod[p].step /\ r.event = pod[p].event
        /\ r.queue = pod[p].queue /\ r.stream = "closed" /\ r.label = pod[p].label
    BY <1>0 DEF PodTypes
  <2> HIDE DEF r
  <2>3. PodInv(r, db[p], committed[p], published)
    BY <1>0, <2>2, SameSlave
  <2>4. Types'
    BY <1>2, <2>1, <2>2 DEF IInv, Types
  <2> QED  BY <1>2, <2>1, <2>2, <2>3, <2>4, OnePodStep DEF IInv, Types
<1>4. CASE ~ pod[p].killed
  <2> DEFINE r == [pod[p] EXCEPT !.queue = QueueAdd(pod[p].queue, pod[p].pos),
                                 !.pos = pod[p].pos + 1, !.event = pod[p].pos,
                                 !.step = "apply"]
  <2>1. pod' = [pod EXCEPT ![p] = r]
    BY <1>4 DEF Receive
  <2>2. r \in PodTypes /\ r.label = pod[p].label
    <3>1. /\ pod[p].pos \in Log /\ pod[p].pos + 1 \in 1..(LastEvent + 1)
          /\ pod[p].queue \in AckQueues(Log) /\ pod[p].pos \in Int
      BY <1>0, <1>1, LogFacts DEF PodTypes, Log
    <3>2. QueueAdd(pod[p].queue, pod[p].pos) \in AckQueues(Log)
      BY <3>1 DEF AckQueues, QueueAdd
    <3> QED  BY <1>0, <3>1, <3>2 DEF PodTypes
  <2>3. PodInv(r, db[p], committed[p], published)
    BY <1>0, <1>1, <2>2, ReceivedInv
  <2> HIDE DEF r
  <2>4. Types'
    BY <1>2, <2>1, <2>2 DEF IInv, Types
  <2> QED  BY <1>2, <2>1, <2>2, <2>3, <2>4, OnePodStep DEF IInv, Types
<1> QED  BY <1>3, <1>4

\* An event is applied: of the events passed so far none is lost.
LEMMA AppliedInv ==
    ASSUME NEW r \in PodTypes, NEW d \in DbTypes, NEW d2 \in DbTypes,
           NEW c \in 1..(LastEvent + 1), NEW n \in Nat,
           PodInv(r, d, c, n), r.up, r.step = "apply",
           Grows(d, d2, r.pos - 1), d2.meta \in 0..n \cup {Client}, d2.applied \subseteq 1..n,
           AppliedTo(d2, r.event),
           NEW r2 \in PodTypes,
           r2 = [r EXCEPT !.step = "ack"]
    PROVE  PodInv(r2, d2, c, n)
<1>1. /\ r2.queue = r.queue /\ r2.pos = r.pos /\ r2.event = r.event
      /\ r2.step = "ack" /\ r2.up = r.up /\ r2.stored = r.stored /\ r2.stream = r.stream
      /\ r2.clean = r.clean
  BY DEF PodTypes
<1>2. PodInv(r, d2, c, n)
  BY MoreApplied
<1>3. SlaveInv(r, d2, c) /\ ReplayInv(r, d2)
  BY <1>2 DEF PodInv
<1>4. Done(r2, d2) = Done(r, d2)
  BY <1>1 DEF Done
<1>5. SlaveInv(r2, d2, c)
  BY <1>1, <1>3, <1>4 DEF SlaveInv
<1>6. ReplayInv(r2, d2)
  <2> SUFFICES ASSUME r2.stream = "open", r2.clean, NEW e \in 1..(NextEvent(r2) - 1)
               PROVE  Kept(d2, e)
    BY DEF ReplayInv
  <2>1. e \in 1..(r.pos - 1) /\ r.pos \in Int /\ r.event = r.pos - 1
    BY <1>1, <1>3 DEF NextEvent, SlaveInv, PodTypes
  <2>2. CASE e = r.event
    BY <2>2 DEF AppliedTo, Kept, Mark
  <2>3. CASE e # r.event
    <3>1. e \in 1..(NextEvent(r) - 1)
      BY <2>1, <2>3 DEF NextEvent
    <3> QED  BY <1>1, <1>3, <3>1 DEF ReplayInv
  <2> QED  BY <2>2, <2>3
<1> QED  BY <1>1, <1>2, <1>5, <1>6 DEF PodInv

\* What was carried out has its mark.
LEMMA EffectMarks ==
    ASSUME NEW d \in DbTypes, NEW e \in 1..LastEvent, CanApply(d, Events[e])
    PROVE  Mark(Effect(d, Events[e], e), e)
<1> DEFINE ev == Events[e]
           d2 == Effect(d, ev, e)
<1>0. ev \in EventTypes /\ ev.version \in Nat
  BY LogFacts DEF EventTypes
<1>1. CASE ev.kind = "AddSchema"
  <2>1. d2 = [d EXCEPT !.schema = TRUE, !.meta = e, !.version = 1]
    BY <1>1 DEF Effect
  <2> HIDE DEF d2
  <2>2. d2.schema
    BY <2>1 DEF DbTypes
  <2> QED  BY <1>1, <2>2 DEF Mark, d2
<1>2. CASE ev.kind = "UpdateSchemaMetadata"
  <2>1. d2 = [d EXCEPT !.meta = e] /\ d.schema
    BY <1>2 DEF Effect, CanApply
  <2> HIDE DEF d2
  <2>2. d2.schema /\ d2.meta = e
    BY <2>1 DEF DbTypes
  <2>3. e >= e /\ IsUpdate(e)
    BY <1>2 DEF IsUpdate
  <2> QED  BY <1>2, <2>2, <2>3 DEF Mark, d2
<1>3. CASE ev.kind = "AddSchemaVersion"
  <2>1. d2 = [d EXCEPT !.version = ev.version] /\ d.schema
    BY <1>3 DEF Effect, CanApply
  <2> HIDE DEF d2
  <2>2. d2.schema /\ d2.version = ev.version
    BY <2>1 DEF DbTypes
  <2> QED  BY <1>0, <1>3, <2>2 DEF Mark, d2
<1> QED  BY <1>1, <1>2, <1>3 DEF Mark

\* What applying an event gives.
LEMMA ApplyIInv == ASSUME IInv, NEW p \in Pods, Apply(p) PROVE IInv'
<1> DEFINE e == pod[p].event
           r == [pod[p] EXCEPT !.step = "ack"]
           w == Effect(db[p], Events[e], e)
           d == [w EXCEPT !.applied = @ \cup {e}]
<1>0. /\ pod[p] \in PodTypes /\ db[p] \in DbTypes /\ committed[p] \in 1..(LastEvent + 1)
      /\ PodInv(pod[p], db[p], committed[p], published)
      /\ published \in Nat /\ published <= LastEvent
  BY OnePod
<1>1. pod[p].up /\ pod[p].step = "apply" /\ Acceptable(p) /\ CanApply(db[p], Events[e])
  BY DEF Apply, Consuming, Acceptable
<1>2. /\ UNCHANGED <<committed, published, elector>>
      /\ pod' = [pod EXCEPT ![p] = r] /\ db' = [db EXCEPT ![p] = d]
  BY DEF Apply, IInv, Types
<1>3. r \in PodTypes /\ r.label = pod[p].label
  BY <1>0 DEF PodTypes
<1>4. e = pod[p].pos - 1 /\ e \in 1..published /\ e \in 1..LastEvent
  BY <1>1, EventAtHand
<1>5. /\ w \in DbTypes /\ w.applied = db[p].applied /\ w.meta \in 0..published \cup {Client}
      /\ Grows(db[p], w, e)
  BY <1>1, EventAtHand
<1>6. Mark(w, e)
  BY <1>0, <1>1, <1>4, EffectMarks
<1> HIDE DEF r, w, e
<1>7. /\ d \in DbTypes /\ d.applied = w.applied \cup {e} /\ d.meta = w.meta
      /\ d.schema = w.schema /\ d.version = w.version
  BY <1>4, <1>5 DEF DbTypes
<1> HIDE DEF d
<1>8. Grows(db[p], d, pod[p].pos - 1) /\ AppliedTo(d, e)
  BY <1>4, <1>5, <1>6, <1>7 DEF Grows, Mark, AppliedTo
<1>9. d.meta \in 0..published \cup {Client} /\ d.applied \subseteq 1..published
  BY <1>0, <1>4, <1>5, <1>7 DEF PodInv
<1>10. PodInv(r, d, committed[p], published)
  BY <1>0, <1>1, <1>3, <1>7, <1>8, <1>9, AppliedInv DEF r, e
<1>11. Types'
  BY <1>2, <1>3, <1>7 DEF IInv, Types
<1> QED  BY <1>2, <1>3, <1>10, <1>11, OnePodStep DEF IInv, Types

\* A refused AddSchema finds the vertex.  An update behind one is not refused, and
\* a version only when there is one that is no smaller.
LEMMA RefusedIInv == ASSUME IInv, NEW p \in Pods, Refused(p) PROVE IInv'
<1> DEFINE e == pod[p].event
           r == [pod[p] EXCEPT !.step = "none", !.event = 0]
<1>0. /\ pod[p] \in PodTypes /\ db[p] \in DbTypes /\ committed[p] \in 1..(LastEvent + 1)
      /\ PodInv(pod[p], db[p], committed[p], published)
      /\ published \in Nat /\ published <= LastEvent
  BY OnePod
<1>1. pod[p].up /\ pod[p].step = "apply" /\ ~ CanApply(db[p], Events[e])
  BY DEF Refused, Consuming, Acceptable
<1>2. UNCHANGED <<db, committed, published, elector>> /\ pod' = [pod EXCEPT ![p] = r]
  <2>1. pod \in [Pods -> PodTypes]
    BY DEF IInv, Types
  <2> QED  BY <1>0, <2>1 DEF Refused, PodTypes
<1>3. /\ r \in PodTypes /\ r.label = pod[p].label /\ r.up = pod[p].up /\ r.pos = pod[p].pos
      /\ r.stored = pod[p].stored /\ r.queue = pod[p].queue /\ r.step = "none" /\ r.event = 0
      /\ r.stream = pod[p].stream /\ r.clean = pod[p].clean
  <2>1. 0 \in Log
    BY LogFacts DEF Log
  <2> QED  BY <1>0, <2>1 DEF PodTypes
<1> HIDE DEF r
<1>4. e = pod[p].pos - 1 /\ e \in 1..published /\ e \in 1..LastEvent
  BY <1>1, EventAtHand
<1>5. pod[p].pos \in Int /\ e \in Int /\ Events[e].version \in Nat /\ db[p].version \in Nat
  BY <1>0, <1>4, LogFacts DEF PodTypes, DbTypes, EventTypes
<1>6. SlaveInv(r, db[p], committed[p])
  <2>1. SlaveInv(pod[p], db[p], committed[p])
    BY <1>0, <1>1 DEF PodInv
  <2> QED  BY <1>3, <2>1 DEF SlaveInv, Done
<1>7. ReplayInv(r, db[p])
  <2> SUFFICES ASSUME r.stream = "open", r.clean, NEW f \in 1..(NextEvent(r) - 1)
               PROVE  Kept(db[p], f)
    BY DEF ReplayInv
  <2>1. f \in 1..(pod[p].pos - 1)
    BY <1>3 DEF NextEvent
  <2>2. \A g \in 1..(e - 1) : Kept(db[p], g)
    BY <1>0, <1>1, <1>3 DEF PodInv, ReplayInv, NextEvent
  <2>3. CASE f # e
    <3>1. f \in 1..(e - 1)
      BY <1>4, <1>5, <2>1, <2>3
    <3> QED  BY <2>2, <3>1
  <2>4. CASE f = e
    <3>1. Events[e].kind = "AddSchema" => db[p].schema
      BY <1>1 DEF CanApply
    <3>2. ASSUME NEW g \in 1..(e - 1), Events[g].kind = "AddSchema" PROVE Mark(db[p], e)
      <4>1. db[p].schema
        BY <2>2, <3>2 DEF Kept
      <4>2. Events[e].kind # "UpdateSchemaMetadata"
        BY <1>1, <4>1 DEF CanApply
      <4>3. Events[e].kind = "AddSchemaVersion" => db[p].version >= Events[e].version
        BY <1>1, <1>5, <4>1 DEF CanApply
      <4> QED  BY <4>1, <4>2, <4>3 DEF Mark
    <3> QED  BY <2>4, <3>1, <3>2 DEF Kept
  <2> QED  BY <2>3, <2>4
<1>8. PodInv(r, db[p], committed[p], published)
  BY <1>0, <1>3, <1>6, <1>7 DEF PodInv
<1>9. Types'
  BY <1>2, <1>3 DEF IInv, Types
<1> QED  BY <1>2, <1>3, <1>8, <1>9, OnePodStep DEF IInv, Types

\* A store that fails leaves the event where it is.
LEMMA StoreFailsIInv == ASSUME IInv, NEW p \in Pods, StoreFails(p) PROVE IInv'
<1> DEFINE r == [pod[p] EXCEPT !.step = "none", !.event = 0, !.clean = FALSE]
<1>0. /\ pod[p] \in PodTypes /\ published \in Nat
  BY OnePod
<1>1. PICK d \in PartlyApplied(p) : db' = [db EXCEPT ![p] = d]
  BY DEF StoreFails
<1>2. d \in DbTypes /\ PodInv(pod[p], d, committed[p], published)
  BY PartlyAppliedInv
<1>3. UNCHANGED <<committed, published, elector>> /\ pod' = [pod EXCEPT ![p] = r]
  <2>1. pod \in [Pods -> PodTypes]
    BY DEF IInv, Types
  <2> QED  BY <1>0, <2>1 DEF StoreFails, PodTypes
<1>4. /\ r \in PodTypes /\ r.label = pod[p].label /\ r.up = pod[p].up /\ r.pos = pod[p].pos
      /\ r.stored = pod[p].stored /\ r.queue = pod[p].queue /\ r.step = "none" /\ r.event = 0
      /\ ~ r.clean
  <2>1. 0 \in Log
    BY LogFacts DEF Log
  <2> QED  BY <1>0, <2>1 DEF PodTypes
<1> HIDE DEF r
<1>5. PodInv(r, d, committed[p], published)
  <2>1. ASSUME r.up PROVE SlaveInv(r, d, committed[p])
    <3>1. SlaveInv(pod[p], d, committed[p])
      BY <1>2, <1>4, <2>1 DEF PodInv
    <3> QED  BY <1>4, <3>1 DEF SlaveInv, Done
  <2> QED  BY <1>2, <1>4, <2>1 DEF PodInv, ReplayInv
<1>6. Types'
  BY <1>1, <1>2, <1>3, <1>4 DEF IInv, Types
<1> QED  BY <1>1, <1>3, <1>4, <1>5, <1>6, OnePodStep DEF IInv, Types

\* A crash leaves what was applied.
LEMMA CrashIInv == ASSUME IInv, NEW p \in Pods, Crash(p) PROVE IInv'
<1> DEFINE r == Down(pod[p].label)
<1>0. /\ pod[p] \in PodTypes /\ published \in Nat
  BY OnePod
<1>1. PICK d \in PartlyApplied(p) : db' = [db EXCEPT ![p] = d]
  BY DEF Crash
<1>2. d \in DbTypes /\ PodInv(pod[p], d, committed[p], published)
  BY PartlyAppliedInv
<1>3. UNCHANGED <<committed, published, elector>> /\ pod' = [pod EXCEPT ![p] = r]
  BY DEF Crash
<1>4. pod[p].label \in BOOLEAN /\ 1 \in 1..(LastEvent + 1)
  BY <1>0, LogFacts DEF PodTypes
<1>5. r \in PodTypes /\ r.label = pod[p].label /\ PodInv(r, d, committed[p], published)
  BY <1>0, <1>2, <1>4, StartedTypes, DownInv
<1> HIDE DEF r
<1>6. Types'
  BY <1>1, <1>2, <1>3, <1>5 DEF IInv, Types
<1> QED  BY <1>1, <1>3, <1>5, <1>6, OnePodStep DEF IInv, Types

\* A process starts again at its group's offset.
LEMMA RestartIInv == ASSUME IInv, NEW p \in Pods, Restart(p) PROVE IInv'
<1> DEFINE r == Started(committed[p], pod[p].label)
<1>0. /\ pod[p] \in PodTypes /\ db[p] \in DbTypes /\ committed[p] \in 1..(LastEvent + 1)
      /\ PodInv(pod[p], db[p], committed[p], published)
      /\ published \in Nat /\ published <= LastEvent
  BY OnePod
<1>1. UNCHANGED <<db, committed, published, elector>> /\ pod' = [pod EXCEPT ![p] = r]
  BY DEF Restart
<1>2. pod[p].label \in BOOLEAN
  BY <1>0 DEF PodTypes
<1>3. r \in PodTypes /\ r.label = pod[p].label
  BY <1>0, <1>2, StartedTypes
<1>4. SlaveInv(r, db[p], committed[p]) /\ ReplayInv(r, db[p])
  BY <1>0, <1>2, StartedInv DEF PodInv
<1>5. r.pos = committed[p] /\ r.stored = committed[p] /\ r.up
  BY DEF Started
<1> HIDE DEF r
<1>6. r.pos <= published + 1 /\ (r.stored # 1 => r.stored <= published)
  <2>1. committed[p] # 1 => committed[p] <= published
    BY <1>0 DEF PodInv
  <2> QED  BY <1>0, <1>5, <2>1
<1>7. PodInv(r, db[p], committed[p], published)
  BY <1>0, <1>4, <1>5, <1>6 DEF PodInv
<1>8. Types'
  BY <1>1, <1>3 DEF IInv, Types
<1> QED  BY <1>1, <1>3, <1>7, <1>8, OnePodStep DEF IInv, Types

\* The stored offset is committed.
LEMMA AutoCommitIInv == ASSUME IInv, NEW p \in Pods, AutoCommit(p) PROVE IInv'
<1> DEFINE r == pod[p]
           d == db[p]
           c == pod[p].stored
<1>0. /\ r \in PodTypes /\ committed[p] \in 1..(LastEvent + 1)
      /\ PodInv(r, d, committed[p], published)
      /\ published \in Nat /\ published <= LastEvent
  BY OnePod
<1>1. /\ UNCHANGED <<pod, db, published, elector>> /\ r.up
      /\ committed' = [committed EXCEPT ![p] = c]
  BY DEF AutoCommit, Consuming
<1>2. c \in 1..(LastEvent + 1) /\ r.pos \in Int /\ LastEvent \in Nat
  BY <1>0, LogFacts DEF PodTypes
<1> HIDE DEF r, d, c
<1>3. SlaveInv(r, d, committed[p]) /\ ReplayInv(r, d) /\ c = r.stored
  BY <1>0, <1>1 DEF PodInv, c, r
<1>4. AllBelow(Log, c, Done(r, d)) /\ c <= r.pos
  BY <1>3 DEF SlaveInv
<1>5. QueueInv(Log, r.queue, Done(r, d), r.pos, -1, c)
  <2>1. QueueInv(Log, r.queue, Done(r, d), r.pos, -1, committed[p])
    BY <1>3 DEF SlaveInv
  <2>2. AllBelow(Log, -1 + 1, Done(r, d))
    BY <2>1, QueueInvBelow
  <2> QED  BY <1>4, <2>1, <2>2, QueueInvMoves
<1>6. SlaveInv(r, d, c)
  BY <1>3, <1>4, <1>5 DEF SlaveInv
<1>7. \A e \in 1..(c - 1) : AppliedTo(d, e)
  <2> SUFFICES ASSUME NEW e \in 1..(c - 1) PROVE AppliedTo(d, e)
    OBVIOUS
  <2>1. e \in Log /\ e < c /\ e # 0
    BY <1>2 DEF Log
  <2>2. e \in Done(r, d)
    BY <1>4, <2>1 DEF AllBelow
  <2> QED  BY <2>1, <2>2 DEF Done
<1>8. PodInv(r, d, c, published)
  BY <1>0, <1>3, <1>6, <1>7 DEF PodInv
<1>9. Types'
  BY <1>1, <1>2 DEF IInv, Types
<1> QED
  <2>1. committed'[p] = c
    BY <1>1 DEF IInv, Types
  <2>2. \A q \in Pods : q # p => committed'[q] = committed[q]
    BY <1>1 DEF IInv, Types
  <2> QED  BY <1>1, <1>8, <1>9, <2>1, <2>2, OnePodStep DEF r, d

\* What acknowledging the event at hand does to the queue.
LEMMA AckedInv ==
    ASSUME NEW r \in PodTypes, NEW d \in DbTypes, NEW c \in 1..(LastEvent + 1), NEW n \in Nat,
           PodInv(r, d, c, n), n <= LastEvent, r.up, r.step = "ack"
    PROVE  /\ QueueAck(r.queue, r.event) \in AckQueues(Log)
           /\ QueueInv(Log, QueueAck(r.queue, r.event), Done(r, d), r.pos, -1, c)
           /\ QueueOrdered(QueueAck(r.queue, r.event), 0, r.pos)
           /\ AckStores(r.queue, r.event) =>
                /\ OffsetToStore(r.queue, r.event) \in 1..(LastEvent + 1)
                /\ OffsetToStore(r.queue, r.event) <= n
                /\ OffsetToStore(r.queue, r.event) <= r.pos
                /\ AllBelow(Log, OffsetToStore(r.queue, r.event), Done(r, d))
<1> DEFINE q == r.queue
           e == r.event
           A == Done(r, d)
<1>0. /\ QueueInv(Log, q, A, r.pos, -1, c) /\ QueueOrdered(q, 0, r.pos)
      /\ e = r.pos - 1 /\ e # 0 /\ AckReturns(q, e) /\ AppliedTo(d, e) /\ r.pos <= n + 1
  BY DEF PodInv, SlaveInv
<1>1. /\ q \in AckQueues(Log) /\ r.pos \in 1..(LastEvent + 1) /\ e \in Log /\ LastEvent \in Nat
      /\ r.pos \in Int /\ c \in Int /\ e \in Int /\ -1 \in Int /\ 0 \in Int
      /\ Log \in SUBSET Int /\ IsLog(Log)
  BY LogFacts DEF PodTypes, Log
<1>2. A \cup {e} = A
  <2>1. e \in 1..(r.pos - 1)
    BY <1>0, <1>1 DEF Log
  <2> QED  BY <1>0, <2>1 DEF Done
<1> HIDE DEF q, e, A
<1>3. QueueAck(q, e) \in AckQueues(Log)
  BY <1>0, <1>1, QueueAckTypes
<1>4. QueueInv(Log, QueueAck(q, e), A, r.pos, StoredAfter(q, e, -1), c)
  <2>1. QueueInv(Log, QueueAck(q, e), A \cup {e}, r.pos, StoredAfter(q, e, -1), c)
    BY <1>0, <1>1, QueueAckInv
  <2> QED  BY <1>2, <2>1
<1>5. AllBelow(Log, StoredAfter(q, e, -1) + 1, A)
  BY <1>4, QueueInvBelow
<1>6. AllBelow(Log, -1 + 1, A) /\ AllBelow(Log, c, A)
  BY <1>0, QueueInvBelow
<1>7. QueueInv(Log, QueueAck(q, e), A, r.pos, -1, c)
  BY <1>4, <1>6, QueueInvMoves
<1>8. /\ StoredAfter(q, e, 0) \in Int /\ StoredAfter(q, e, 0) >= 0
      /\ AckStores(q, e) => StoredAfter(q, e, 0) > 0
      /\ QueueOrdered(QueueAck(q, e), StoredAfter(q, e, 0), r.pos)
  BY <1>0, <1>1, QueueOrderedAck
<1>9. QueueOrdered(QueueAck(q, e), 0, r.pos)
  <2>1. 0 <= StoredAfter(q, e, 0)
    BY <1>8
  <2> QED  BY <1>1, <1>3, <1>8, <2>1, QueueOrderedLower
<1>10. ASSUME AckStores(q, e)
       PROVE  /\ OffsetToStore(q, e) \in 1..(LastEvent + 1) /\ OffsetToStore(q, e) <= n
              /\ OffsetToStore(q, e) <= r.pos /\ AllBelow(Log, OffsetToStore(q, e), A)
  <2> DEFINE o == OffsetToStore(q, e)
  <2>1. StoredAfter(q, e, 0) = o /\ StoredAfter(q, e, -1) = o
    BY <1>10 DEF StoredAfter
  <2>2. o < r.pos
    BY <1>8, <2>1 DEF QueueOrdered, Ordered
  <2>3. o \in Int /\ o > 0
    BY <1>8, <1>10, <2>1
  <2> HIDE DEF o
  <2>4. AllBelow(Log, o, A)
    <3>1. \A x \in Log : x < o => x < o + 1
      BY <1>1, <2>3
    <3> QED  BY <1>5, <2>1, <3>1 DEF AllBelow
  <2>5. o \in 1..(LastEvent + 1) /\ o <= n /\ o <= r.pos
    BY <1>0, <1>1, <2>2, <2>3
  <2> QED  BY <2>4, <2>5 DEF o
<1> QED  BY <1>3, <1>7, <1>9, <1>10 DEF q, e, A

\* The event is acknowledged; the offset it stores lies before every other one.
LEMMA AckIInv == ASSUME IInv, NEW p \in Pods, Ack(p) PROVE IInv'
<1> DEFINE q == pod[p].queue
           e == pod[p].event
           s == IF AckStores(q, e) THEN OffsetToStore(q, e) ELSE pod[p].stored
           r == [pod[p] EXCEPT !.queue = QueueAck(q, e), !.step = "none", !.event = 0,
                               !.stored = s]
           d == db[p]
           c == committed[p]
<1>0. /\ pod[p] \in PodTypes /\ d \in DbTypes /\ c \in 1..(LastEvent + 1)
      /\ PodInv(pod[p], d, c, published)
      /\ published \in Nat /\ published <= LastEvent
  BY OnePod
<1>1. pod[p].up /\ pod[p].step = "ack"
  BY DEF Ack, Consuming
<1>2. UNCHANGED <<db, committed, published, elector>> /\ pod' = [pod EXCEPT ![p] = r]
  BY DEF Ack
<1>3. /\ QueueAck(q, e) \in AckQueues(Log)
      /\ QueueInv(Log, QueueAck(q, e), Done(pod[p], d), pod[p].pos, -1, c)
      /\ QueueOrdered(QueueAck(q, e), 0, pod[p].pos)
      /\ AckStores(q, e) => /\ OffsetToStore(q, e) \in 1..(LastEvent + 1)
                            /\ OffsetToStore(q, e) <= published
                            /\ OffsetToStore(q, e) <= pod[p].pos
                            /\ AllBelow(Log, OffsetToStore(q, e), Done(pod[p], d))
  BY <1>0, <1>1, AckedInv
<1>4. SlaveInv(pod[p], d, c) /\ ReplayInv(pod[p], d)
  BY <1>0, <1>1 DEF PodInv
<1>5. /\ s \in 1..(LastEvent + 1) /\ s <= pod[p].pos /\ (s # 1 => s <= published)
      /\ AllBelow(Log, s, Done(pod[p], d))
  <2>1. CASE AckStores(q, e)
    BY <1>3, <2>1
  <2>2. CASE ~ AckStores(q, e)
    <3>1. s = pod[p].stored
      BY <2>2
    <3>2. pod[p].stored \in 1..(LastEvent + 1)
      BY <1>0 DEF PodTypes
    <3>3. pod[p].stored <= pod[p].pos /\ AllBelow(Log, pod[p].stored, Done(pod[p], d))
      BY <1>4 DEF SlaveInv
    <3>4. pod[p].stored # 1 => pod[p].stored <= published
      BY <1>0 DEF PodInv
    <3> QED  BY <3>1, <3>2, <3>3, <3>4
  <2> QED  BY <2>1, <2>2
<1> HIDE DEF s
<1>6. /\ r \in PodTypes /\ r.label = pod[p].label /\ r.up = pod[p].up /\ r.pos = pod[p].pos
      /\ r.stored = s /\ r.queue = QueueAck(q, e) /\ r.step = "none" /\ r.event = 0
      /\ r.stream = pod[p].stream /\ r.clean = pod[p].clean
  <2>1. 0 \in Log
    BY LogFacts DEF Log
  <2> QED  BY <1>0, <1>3, <1>5, <2>1 DEF PodTypes
<1> HIDE DEF r, d, c
<1>7. Done(r, d) = Done(pod[p], d)
  BY <1>6 DEF Done
<1>8. SlaveInv(r, d, c)
  BY <1>3, <1>4, <1>5, <1>6, <1>7 DEF SlaveInv
<1>9. ReplayInv(r, d)
  BY <1>1, <1>4, <1>6 DEF ReplayInv, NextEvent
<1>10. PodInv(r, d, c, published)
  BY <1>0, <1>5, <1>6, <1>8, <1>9 DEF PodInv
<1>11. Types'
  BY <1>2, <1>6 DEF IInv, Types
<1> QED  BY <1>2, <1>6, <1>10, <1>11, OnePodStep DEF IInv, Types, d, c

------------------------------------------------------------------------------
(* The topic and the elector. *)

\* An event is published.
LEMMA PublishIInv == ASSUME IInv, Publish PROVE IInv'
<1>1. UNCHANGED <<pod, db, committed, elector>> /\ published' = published + 1
  BY DEF Publish
<1>2. published \in Nat /\ published < LastEvent /\ LastEvent \in Nat
  BY LogFacts DEF IInv, Types, Log, Publish, LastEvent
<1>3. Types'
  <2>1. published' \in Log
    BY <1>1, <1>2 DEF Log
  <2> QED  BY <1>1, <2>1 DEF IInv, Types
<1>4. ASSUME NEW p \in Pods PROVE PodInv(pod[p], db[p], committed[p], published + 1)
  <2> DEFINE r == pod[p]
             d == db[p]
             c == committed[p]
  <2>1. PodInv(r, d, c, published)
    BY DEF IInv
  <2>2. r.pos \in Int /\ r.stored \in Int /\ c \in Int
    BY OnePod, LogFacts DEF PodTypes, Log
  <2> HIDE DEF r, d, c
  <2>3. r.pos <= published + 1 /\ (r.stored # 1 => r.stored <= published)
        /\ (c # 1 => c <= published)
        /\ d.meta \in 0..published \cup {Client} /\ d.applied \subseteq 1..published
    BY <2>1 DEF PodInv
  <2>4. r.pos <= published + 1 + 1 /\ (r.stored # 1 => r.stored <= published + 1)
        /\ (c # 1 => c <= published + 1)
        /\ d.meta \in 0..(published + 1) \cup {Client} /\ d.applied \subseteq 1..(published + 1)
    BY <1>2, <2>2, <2>3
  <2>5. PodInv(r, d, c, published + 1)
    BY <2>1, <2>3, <2>4 DEF PodInv
  <2> QED  BY <2>5 DEF r, d, c
<1>5. LabelInv'
  BY <1>1 DEF IInv, LabelInv
<1> QED  BY <1>1, <1>3, <1>4, <1>5 DEF IInv

\* Steps of the elector that leave the pods alone.
LEMMA ElectorOnlyIInv ==
    ASSUME IInv, UNCHANGED <<pod, db, committed, published>>,
           elector' \in {elector, Sleeping, [pc |-> "remove", pod |-> Nobody]}
    PROVE  IInv'
<1>1. /\ elector' \in [pc : {"sleep", "remove", "promote", "label"}, pod : Pods \cup {Nobody}]
      /\ elector' = elector \/ elector'.pc = "sleep" \/ elector'.pc = "remove"
  BY DEF IInv, Types, Sleeping
<1>2. Types'
  BY <1>1 DEF IInv, Types
<1>3. LabelInv'
  BY <1>1 DEF IInv, LabelInv
<1> QED  BY <1>2, <1>3 DEF IInv

\* Every labelled pod is deleted.
LEMMA RemoveIInv == ASSUME IInv, RemoveMasterInstance PROVE IInv'
<1>1. PICK f \in [Labelled -> UNION {PartlyApplied(p) : p \in Pods}] :
         /\ \A p \in Labelled : f[p] \in PartlyApplied(p)
         /\ db' = [p \in Pods |-> IF p \in Labelled THEN f[p] ELSE db[p]]
  BY DEF RemoveMasterInstance
<1>2. /\ pod' = [p \in Pods |-> IF p \in Labelled THEN Down(FALSE) ELSE pod[p]]
      /\ elector' = [pc |-> "promote", pod |-> Nobody]
      /\ UNCHANGED <<committed, published>>
  BY DEF RemoveMasterInstance
<1>3. Down(FALSE) \in PodTypes /\ ~ Down(FALSE).label
  <2>1. 1 \in 1..(LastEvent + 1)
    BY LogFacts
  <2> QED  BY <2>1, StartedTypes
<1>4. ASSUME NEW p \in Pods
      PROVE  /\ pod'[p] \in PodTypes /\ db'[p] \in DbTypes /\ ~ pod'[p].label
             /\ PodInv(pod'[p], db'[p], committed[p], published)
  <2>0. /\ pod[p] \in PodTypes /\ db[p] \in DbTypes /\ published \in Nat
        /\ PodInv(pod[p], db[p], committed[p], published)
    BY OnePod
  <2>1. CASE p \in Labelled
    <3>1. pod'[p] = Down(FALSE) /\ db'[p] = f[p] /\ f[p] \in PartlyApplied(p)
      BY <1>1, <1>2, <2>1
    <3>2. f[p] \in DbTypes /\ PodInv(pod[p], f[p], committed[p], published)
      BY <3>1, PartlyAppliedInv
    <3>3. PodInv(Down(FALSE), f[p], committed[p], published)
      BY <2>0, <3>2, DownInv
    <3> QED  BY <1>3, <3>1, <3>2, <3>3
  <2>2. CASE p \notin Labelled
    <3>1. pod'[p] = pod[p] /\ db'[p] = db[p] /\ ~ pod[p].label
      BY <1>1, <1>2, <2>2 DEF Labelled
    <3> QED  BY <2>0, <3>1
  <2> QED  BY <2>1, <2>2
<1>5. Types'
  <2>1. pod' \in [Pods -> PodTypes]
    <3>1. \A p \in Pods : (IF p \in Labelled THEN Down(FALSE) ELSE pod[p]) \in PodTypes
      BY <1>2, <1>4
    <3> QED  BY <1>2, <3>1
  <2>2. db' \in [Pods -> DbTypes]
    <3>1. \A p \in Pods : (IF p \in Labelled THEN f[p] ELSE db[p]) \in DbTypes
      BY <1>1, <1>4
    <3> QED  BY <1>1, <3>1
  <2> QED  BY <1>2, <2>1, <2>2 DEF IInv, Types
<1>6. LabelInv'
  BY <1>2, <1>4 DEF LabelInv
<1> QED  BY <1>2, <1>4, <1>5, <1>6 DEF IInv

\* What a promotion makes of a pod.
LEMMA PromotedInv ==
    ASSUME IInv, NEW p \in Pods
    PROVE  /\ Promoted(p) \in PodTypes /\ Promoted(p).label = pod[p].label
           /\ PodInv(Promoted(p), db[p], committed[p], published)
<1>0. /\ pod[p] \in PodTypes /\ published \in Nat
      /\ PodInv(pod[p], db[p], committed[p], published)
  BY OnePod
<1>1. CASE pod[p].poisoned
  <2>1. Promoted(p) = Down(pod[p].label)
    BY <1>1 DEF Promoted
  <2>2. pod[p].label \in BOOLEAN /\ 1 \in 1..(LastEvent + 1)
    BY <1>0, LogFacts DEF PodTypes
  <2> QED  BY <1>0, <2>1, <2>2, StartedTypes, DownInv
<1>2. CASE ~ pod[p].poisoned
  <2> DEFINE r == Promoted(p)
  <2>1. \/ r = [pod[p] EXCEPT !.poisoned = TRUE]
        \/ r = [pod[p] EXCEPT !.role = "master", !.killed = TRUE, !.thread = TRUE, !.outbox = 0]
    BY <1>2 DEF Promoted
  <2> HIDE DEF r
  <2>2. /\ r \in PodTypes /\ r.label = pod[p].label /\ r.up = pod[p].up /\ r.pos = pod[p].pos
        /\ r.stored = pod[p].stored /\ r.step = pod[p].step /\ r.event = pod[p].event
        /\ r.queue = pod[p].queue /\ r.stream = pod[p].stream /\ r.clean = pod[p].clean
    <3>1. CASE r = [pod[p] EXCEPT !.poisoned = TRUE]
      BY <1>0, <3>1 DEF PodTypes
    <3>2. CASE r = [pod[p] EXCEPT !.role = "master", !.killed = TRUE,
                                  !.thread = TRUE, !.outbox = 0]
      BY <1>0, <3>2 DEF PodTypes
    <3> QED  BY <2>1, <3>1, <3>2
  <2>3. PodInv(r, db[p], committed[p], published)
    BY <1>0, <2>2, SameSlave
  <2> QED  BY <2>2, <2>3 DEF r
<1> QED  BY <1>1, <1>2

\* One pod is promoted, and remembered for its label or forgotten.
LEMMA PromotionIInv ==
    ASSUME IInv, NEW p \in Pods, elector.pc = "promote",
           pod' = [pod EXCEPT ![p] = Promoted(p)],
           elector' \in {[pc |-> "label", pod |-> p], Sleeping},
           UNCHANGED <<db, committed, published>>
    PROVE  IInv'
<1>1. /\ Promoted(p) \in PodTypes /\ Promoted(p).label = pod[p].label
      /\ PodInv(Promoted(p), db[p], committed[p], published)
  BY PromotedInv
<1>2. /\ elector' \in [pc : {"sleep", "remove", "promote", "label"}, pod : Pods \cup {Nobody}]
      /\ elector'.pc = "label" => elector'.pod \in Pods
  BY DEF Sleeping
<1>3. pod \in [Pods -> PodTypes] /\ \A q \in Pods : ~ pod[q].label
  BY DEF IInv, Types, LabelInv
<1>4. Types'
  BY <1>1, <1>2 DEF IInv, Types
<1>5. ASSUME NEW q \in Pods
      PROVE  ~ pod'[q].label /\ PodInv(pod'[q], db[q], committed[q], published)
  <2>1. CASE q = p
    BY <1>1, <1>3, <2>1
  <2>2. CASE q # p
    BY <1>3, <2>2 DEF IInv
  <2> QED  BY <2>1, <2>2
<1>6. LabelInv'
  BY <1>2, <1>5 DEF LabelInv
<1> QED  BY <1>4, <1>5, <1>6 DEF IInv

\* The promoted pod gets the label, no other having it.
LEMMA LabelIInv == ASSUME IInv, Label PROVE IInv'
<1> DEFINE p == elector.pod
           r == [pod[p] EXCEPT !.label = TRUE]
<1>1. /\ p \in Pods /\ \A q \in Pods : ~ pod[q].label
      /\ pod \in [Pods -> PodTypes]
  BY DEF Label, IInv, LabelInv, Types
<1>2. UNCHANGED <<db, committed, published>> /\ elector' = Sleeping
  BY DEF Label
<1> HIDE DEF p
<1>0. pod[p] \in PodTypes /\ PodInv(pod[p], db[p], committed[p], published)
  BY <1>1, OnePod
<1>3. pod' = [pod EXCEPT ![p] = r]
  BY <1>1 DEF Label, p
<1>4. /\ r \in PodTypes /\ r.up = pod[p].up /\ r.pos = pod[p].pos
      /\ r.stored = pod[p].stored /\ r.step = pod[p].step /\ r.event = pod[p].event
      /\ r.queue = pod[p].queue /\ r.stream = pod[p].stream /\ r.clean = pod[p].clean
  BY <1>0 DEF PodTypes
<1> HIDE DEF r
<1>5. PodInv(r, db[p], committed[p], published)
  BY <1>0, <1>4, SameSlave
<1>6. Sleeping.pc = "sleep" /\ Sleeping \in [pc : {"sleep", "remove", "promote", "label"},
                                            pod : Pods \cup {Nobody}]
  BY DEF Sleeping
<1>7. Types'
  BY <1>1, <1>2, <1>3, <1>4, <1>6 DEF IInv, Types
<1>8. ASSUME NEW q \in Pods
      PROVE  /\ PodInv(pod'[q], db[q], committed[q], published)
             /\ pod'[q].label => q = p
  <2>1. CASE q = p
    BY <1>1, <1>3, <1>5, <2>1
  <2>2. CASE q # p
    BY <1>1, <1>3, <2>2 DEF IInv
  <2> QED  BY <2>1, <2>2
<1>9. LabelInv'
  BY <1>2, <1>6, <1>8 DEF LabelInv
<1> QED  BY <1>2, <1>7, <1>8, <1>9 DEF IInv

\* Every step keeps the invariant.
LEMMA NextIInv == IInv /\ [Next]_vars => IInv'
<1> SUFFICES ASSUME IInv, [Next]_vars PROVE IInv'
  OBVIOUS
<1>1. ASSUME NEW p \in Pods, SlaveStep(p) PROVE IInv'
  BY <1>1, ReceiveIInv, ApplyIInv, RefusedIInv, AckIInv, AutoCommitIInv DEF SlaveStep
<1>2. ASSUME NEW p \in Pods,
             \/ StoreFails(p) \/ StreamFails(p) \/ ThreadEnds(p) \/ Crash(p) \/ Restart(p)
             \/ \E request \in Requests : Write(p, request)
      PROVE  IInv'
  BY <1>2, StoreFailsIInv, StreamFailsIInv, ThreadEndsIInv, WriteIInv, CrashIInv, RestartIInv
<1>3. CASE Publish
  BY <1>3, PublishIInv
<1>4. CASE HeartbeatFails \/ HeartbeatLost \/ ElectorFails
  BY <1>4, ElectorOnlyIInv DEF HeartbeatFails, HeartbeatLost, ElectorFails
<1>5. CASE RemoveMasterInstance
  BY <1>5, RemoveIInv
<1>6. CASE Promote
  <2>1. elector.pc = "promote" /\ UNCHANGED <<db, committed, published>>
    BY <1>6 DEF Promote
  <2>2. CASE \E p \in Pods :
               /\ pod' = [pod EXCEPT ![p] = Promoted(p)]
               /\ elector' = IF PromotionSucceeds(p) THEN [pc |-> "label", pod |-> p]
                                                     ELSE Sleeping
    <3>1. PICK p \in Pods :
              /\ pod' = [pod EXCEPT ![p] = Promoted(p)]
              /\ elector' = IF PromotionSucceeds(p) THEN [pc |-> "label", pod |-> p]
                                                    ELSE Sleeping
      BY <2>2
    <3>2. elector' \in {[pc |-> "label", pod |-> p], Sleeping}
      BY <3>1
    <3> QED  BY <2>1, <3>1, <3>2, PromotionIInv
  <2>3. CASE elector' = Sleeping /\ UNCHANGED pod
    BY <2>1, <2>3, ElectorOnlyIInv
  <2> QED  BY <1>6, <2>2, <2>3 DEF Promote
<1>7. CASE PromotionLost
  BY <1>7, PromotionIInv DEF PromotionLost
<1>8. CASE Label
  BY <1>8, LabelIInv
<1>9. CASE Heartbeat \/ UNCHANGED vars
  <2>1. UNCHANGED <<pod, db, committed, published, elector>>
    BY <1>9 DEF Heartbeat, vars
  <2> QED  BY <2>1, ElectorOnlyIInv
<1> QED
  BY <1>1, <1>2, <1>3, <1>4, <1>5, <1>6, <1>7, <1>8, <1>9 DEF Next, ElectorStep

------------------------------------------------------------------------------
(* The properties *)

\* The type invariant: offsets stay within the topic.
THEOREM TypeCorrect == Spec => []TypeOK
<1>1. IInv => TypeOK
  <2> SUFFICES ASSUME IInv PROVE TypeOK
    OBVIOUS
  <2>1. published \in 0..Len(Events) /\ elector.pc \in {"sleep", "remove", "promote", "label"}
    BY DEF IInv, Types, Log, LastEvent
  <2>2. ASSUME NEW p \in Pods
        PROVE  /\ pod[p].up \in BOOLEAN /\ pod[p].label \in BOOLEAN
               /\ pod[p].role \in {"slave", "master"}
               /\ pod[p].stream \in {"open", "closed"}
               /\ pod[p].step \in {"none", "apply", "ack"}
               /\ pod[p].pos \in 1..(published + 1)
               /\ committed[p] \in 1..(published + 1)
               /\ committed[p] > 1 => committed[p] <= published
               /\ db[p].schema \in BOOLEAN /\ db[p].view \in {"none", "vertex", "whole"}
               /\ db[p].meta \in 0..published \cup {Client}
               /\ db[p].applied \subseteq 1..published
    <3> DEFINE r == pod[p]
               d == db[p]
               c == committed[p]
    <3>0. /\ r \in PodTypes /\ d \in DbTypes /\ c \in 1..(LastEvent + 1)
          /\ PodInv(r, d, c, published) /\ published \in Nat /\ LastEvent \in Nat
      BY OnePod, LogFacts
    <3> HIDE DEF r, d, c
    <3>1. /\ r.up \in BOOLEAN /\ r.label \in BOOLEAN /\ r.role \in {"slave", "master"}
          /\ r.stream \in {"open", "closed"} /\ r.step \in {"none", "apply", "ack"}
      BY <3>0 DEF PodTypes
    <3>2. d.schema \in BOOLEAN /\ d.view \in {"none", "vertex", "whole"}
      BY <3>0 DEF DbTypes
    <3>3. r.pos <= published + 1 /\ (c # 1 => c <= published)
          /\ d.meta \in 0..published \cup {Client} /\ d.applied \subseteq 1..published
      BY <3>0 DEF PodInv
    <3>4. r.pos \in Nat /\ r.pos >= 1
      BY <3>0 DEF PodTypes
    <3>5. r.pos \in 1..(published + 1)
      BY <3>0, <3>3, <3>4
    <3>6. c \in 1..(published + 1) /\ (c > 1 => c <= published)
      BY <3>0, <3>3
    <3> QED  BY <3>1, <3>2, <3>3, <3>5, <3>6 DEF r, d, c
  <2> QED  BY <2>1, <2>2 DEF TypeOK
<1> QED  BY <1>1, InitIInv, NextIInv, PTL DEF Spec

\* What a restarted slave does not read again it has applied, whatever was
\* refused, failed or cut off by a crash before.
THEOREM NotSkippedHolds == Spec => []NotSkipped
<1>1. IInv => NotSkipped
  BY DEF IInv, PodInv, NotSkipped, AppliedTo
<1> QED  BY <1>1, InitIInv, NextIInv, PTL DEF Spec

\* The last update is the one that is an update and lies behind no other.
LEMMA LastUpdateIs ==
    ASSUME NEW n \in Nat, n <= LastEvent, Behind("UpdateSchemaMetadata", n) # {},
           NEW u \in 0..n, IsUpdate(u),
           \A e \in Behind("UpdateSchemaMetadata", n) : u >= e
    PROVE  u = Max(Behind("UpdateSchemaMetadata", n))
<1> DEFINE S == Behind("UpdateSchemaMetadata", n)
<1>0. LastEvent \in Nat /\ Client = LastEvent + 1
  BY LogFacts
<1>1. \A x \in S : x \in Nat /\ u >= x
  BY DEF Behind
<1>2. u \in S
  <2>1. PICK e \in S : TRUE
    OBVIOUS
  <2>2. e \in 1..n /\ u >= e
    BY <2>1 DEF Behind
  <2>3. PICK f \in 1..(e - 1) : Events[f].kind = "AddSchema"
    BY <2>1 DEF Behind
  <2>4. f \in 1..(u - 1) /\ u \in 1..n
    BY <2>2, <2>3
  <2>5. Events[u].kind = "UpdateSchemaMetadata"
    BY <1>0 DEF IsUpdate
  <2> QED  BY <2>3, <2>4, <2>5 DEF Behind
<1> HIDE DEF S
<1>3. \A m \in S : (\A y \in S : m >= y) => m = u
  BY <1>1, <1>2
<1>4. Max(S) \in S /\ \A y \in S : Max(S) >= y
  BY <1>1, <1>2 DEF Max
<1>5. Max(S) = u
  BY <1>3, <1>4
<1> QED  BY <1>5 DEF S

\* A slave that was started without a store failure since, and has reached the
\* end of the topic, has the newest of the updates behind an AddSchema or what a
\* client wrote over it, and no greater version behind one is missing, however
\* often it read old events again and in whatever order they were published.
THEOREM ReplayConvergesHolds == Spec => []ReplayConverges
<1>1. IInv => ReplayConverges
  <2> SUFFICES ASSUME IInv, NEW p \in Pods, Consuming(p), pod[p].clean, pod[p].event = 0,
                      pod[p].pos = published + 1
               PROVE  /\ Behind("UpdateSchemaMetadata", published) # {} =>
                           db[p].meta \in {Max(Behind("UpdateSchemaMetadata", published)), Client}
                      /\ \A e \in Behind("AddSchemaVersion", published) :
                           db[p].version >= Events[e].version
    BY DEF ReplayConverges
  <2>1. /\ pod[p] \in PodTypes /\ db[p] \in DbTypes
        /\ PodInv(pod[p], db[p], committed[p], published)
        /\ published \in Nat /\ published <= LastEvent
    BY OnePod
  <2>2. db[p].meta \in 0..published \cup {Client}
    BY <2>1 DEF PodInv
  <2>3. pod[p].up /\ pod[p].stream = "open"
    BY DEF Consuming
  <2>4. SlaveInv(pod[p], db[p], committed[p]) /\ ReplayInv(pod[p], db[p])
    BY <2>1, <2>3 DEF PodInv
  <2>5. NextEvent(pod[p]) - 1 = published
    BY <2>1, <2>4 DEF NextEvent, SlaveInv
  <2>6. \A e \in 1..published : Kept(db[p], e)
    BY <2>3, <2>4, <2>5 DEF ReplayInv
  <2>7. ASSUME NEW kind, NEW e \in Behind(kind, published)
        PROVE  Mark(db[p], e) /\ Events[e].kind = kind
    BY <2>6, <2>7 DEF Behind, Kept
  <2>8. \A e \in Behind("AddSchemaVersion", published) : db[p].version >= Events[e].version
    BY <2>7 DEF Mark
  <2>9. ASSUME Behind("UpdateSchemaMetadata", published) # {}, db[p].meta # Client
        PROVE  db[p].meta = Max(Behind("UpdateSchemaMetadata", published))
    <3>1. \A e \in Behind("UpdateSchemaMetadata", published) :
            db[p].meta >= e /\ IsUpdate(db[p].meta)
      BY <2>7 DEF Mark
    <3>2. db[p].meta \in 0..published /\ IsUpdate(db[p].meta)
      BY <2>2, <2>9, <3>1
    <3> QED  BY <2>1, <2>9, <3>1, <3>2, LastUpdateIs
  <2> QED  BY <2>8, <2>9
<1> QED  BY <1>1, InitIInv, NextIInv, PTL DEF Spec

\* Two pods are never behind the master service, whichever step of the election
\* is lost, repeated or fails.
THEOREM OneMasterLabelHolds == Spec => []OneMasterLabel
<1>1. IInv => OneMasterLabel
  <2> SUFFICES ASSUME IInv PROVE Cardinality(Labelled) <= 1
    BY DEF OneMasterLabel
  <2>1. \A p, q \in Labelled : p = q
    BY DEF IInv, LabelInv, Labelled
  <2>2. CASE Labelled = {}
    BY <2>2, FS_EmptySet
  <2>3. CASE Labelled # {}
    <3>1. PICK p \in Labelled : Labelled = {p}
      BY <2>1, <2>3
    <3>2. Cardinality({p}) = 1
      BY FS_Singleton
    <3> QED  BY <3>1, <3>2
  <2> QED  BY <2>2, <2>3
<1> QED  BY <1>1, InitIInv, NextIInv, PTL DEF Spec
==============================================================================
