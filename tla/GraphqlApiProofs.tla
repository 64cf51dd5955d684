-------------------------- MODULE GraphqlApiProofs ---------------------------
(***************************************************************************)
(* The safety properties of GraphqlApi, for every set of clients and       *)
(* requests, every batch and every capacity of the broadcast channel.      *)
(***************************************************************************)
EXTENDS GraphqlApi, SequenceLemmas

BrokenItem == <<"error", "error">>

\* The records of the clients.
Clientele == [state : {"away", "creating", "streaming", "failed"},
              pos : Nat, shown : Seq(Items), first : {0, 1}]

\* The types of the variables, in full.
Types ==
  /\ insert \in [Inserts -> [state : {"sending", "true", "error"}, next : Nat]]
  /\ dataTopic \in Seq(Items) /\ reports \in Seq(Items)
  /\ lock \in Clients \cup {Nobody}
  /\ entry \in BOOLEAN
  /\ consumer \in [state : {"none", "running", "ended"}, next : Nat]
  /\ channel \in Seq(Items \cup {BrokenItem})
  /\ client \in [Clients -> Clientele]
  /\ consumers \in Nat

\* The first k messages of a batch, as items of the topic.
Part(r, k) == [i \in 1..k |-> <<r, Batch[r][i]>>]
Sent(r) == OnlyIn(dataTopic, ItemsOf(r))

\* A request has sent the messages before its next one; one that failed has
\* sent some first part, as the broker may have the message it failed over.
InsertInv(r) ==
  /\ insert[r].next \in 1..(Len(Batch[r]) + 1)
  /\ \E k \in 0..Len(Batch[r]) : Sent(r) = Part(r, k)
  /\ insert[r].state = "sending" => /\ insert[r].next <= Len(Batch[r])
                                    /\ Sent(r) = Part(r, insert[r].next - 1)
  /\ insert[r].state = "true" => Sent(r) = Part(r, Len(Batch[r]))

\* The entry of the map stands for the one consumer of the process.  Its channel
\* holds the reports up to its position, behind them perhaps its error.
ConsumerInv ==
  /\ consumers = IF entry THEN 1 ELSE 0
  /\ ~entry => consumer.state = "none" /\ channel = << >>
  /\ consumer.next \in 1..(Len(reports) + 1)
  /\ consumer.state = "running" => consumer.next = Len(channel) + 1
  /\ \A i \in 1..Len(channel) :
       \/ i <= Len(reports) /\ channel[i] = reports[i]
       \/ channel[i] = BrokenItem /\ consumer.state # "running"

\* The lock is with the client that creates the consumer, and then there is no
\* entry; without an entry nobody streams.
LockInv(c) ==
  /\ client[c].state = "creating" <=> lock = c
  /\ client[c].state = "creating" => ~entry
  /\ ~entry => client[c].state # "streaming" /\ client[c].pos = 0

Segment(items) ==
  \E i \in 1..(Len(reports) + 1), j \in 0..Len(reports) :
    items = WithPayload(SubSeq(reports, i, j))

\* A streaming client has been shown the reports from where it came in, the
\* first one for the creator, to its position; one that came in behind the
\* error of the consumer, where there is no report, has been shown nothing.
StreamInv(c) ==
  /\ client[c].pos <= Len(channel)
  /\ Segment(client[c].shown)
  /\ client[c].state = "streaming" =>
       \E i \in 1..(client[c].pos + 1) :
         /\ client[c].first = 1 => i = 1
         /\ i <= client[c].pos => client[c].pos <= Len(reports)
         /\ client[c].shown = WithPayload(SubSeq(reports, i, client[c].pos))

\* The inductive invariant.
IInv == /\ Types
        /\ \A r \in Inserts : InsertInv(r)
        /\ ConsumerInv
        /\ \A c \in Clients : LockInv(c) /\ StreamInv(c)

-----------------------------------------------------------------------------
(* Items and batches *)

\* What a batch is made of.
LEMMA BatchTypes ==
  ASSUME NEW r \in Inserts
  PROVE  /\ Len(Batch[r]) \in Nat
         /\ DOMAIN Batch[r] = 1..Len(Batch[r])
BY ApiAssumption

\* The items of a request are items, and no other request's.
LEMMA ItemFacts ==
  ASSUME NEW r \in Inserts, NEW i \in 1..Len(Batch[r])
  PROVE  /\ <<r, Batch[r][i]>> \in Items
         /\ \A q \in Inserts : <<r, Batch[r][i]>> \in ItemsOf(q) <=> q = r
<1>1. i \in DOMAIN Batch[r]
  BY BatchTypes
<1>2. <<r, Batch[r][i]>> \in ItemsOf(r)
  BY <1>1 DEF ItemsOf
<1>3. ASSUME NEW q \in Inserts, <<r, Batch[r][i]>> \in ItemsOf(q) PROVE q = r
  BY <1>3 DEF ItemsOf
<1> QED  BY <1>2, <1>3 DEF Items

\* The first parts of a batch grow by its next message.
LEMMA PartSteps ==
  ASSUME NEW r \in Inserts
  PROVE  /\ Part(r, 0) = << >>
         /\ \A k \in 0..Len(Batch[r]) : Part(r, k) \in Seq(Items) /\ Len(Part(r, k)) = k
         /\ \A n \in 1..Len(Batch[r]) :
              Append(Part(r, n - 1), <<r, Batch[r][n]>>) = Part(r, n)
<1>0. Len(Batch[r]) \in Nat
  BY BatchTypes
<1>1. Part(r, 0) = << >>
  BY DEF Part
<1>2. ASSUME NEW k \in 0..Len(Batch[r])
      PROVE  Part(r, k) \in Seq(Items) /\ Len(Part(r, k)) = k
  <2>1. k \in Nat /\ \A i \in 1..k : <<r, Batch[r][i]>> \in Items
    BY <1>0, ItemFacts
  <2> QED  BY <2>1 DEF Part
<1>3. ASSUME NEW n \in 1..Len(Batch[r])
      PROVE  Append(Part(r, n - 1), <<r, Batch[r][n]>>) = Part(r, n)
  <2> DEFINE s == Part(r, n - 1)
             x == <<r, Batch[r][n]>>
  <2>1. n - 1 \in 0..Len(Batch[r]) /\ n \in 0..Len(Batch[r]) /\ x \in Items
    BY <1>0, ItemFacts
  <2>2. s \in Seq(Items) /\ Len(s) = n - 1 /\ \A i \in 1..(n - 1) : s[i] = Part(r, n)[i]
    <3>1. s \in Seq(Items) /\ Len(s) = n - 1
      BY <1>2, <2>1
    <3>2. \A i \in 1..(n - 1) : i \in 1..n
      BY <2>1
    <3>3. \A i \in 1..(n - 1) : s[i] = Part(r, n)[i]
      BY <3>2 DEF Part
    <3> QED  BY <3>1, <3>3
  <2>3. Part(r, n) \in Seq(Items) /\ Len(Part(r, n)) = n /\ Part(r, n)[n] = x
    BY <1>0, <1>2, <2>1 DEF Part
  <2> HIDE DEF s, x
  <2>4. /\ Append(s, x) \in Seq(Items) /\ Len(Append(s, x)) = n
        /\ \A i \in 1..n : Append(s, x)[i] = Part(r, n)[i]
    BY <2>1, <2>2, <2>3
  <2>5. Append(s, x) = Part(r, n)
    BY <2>3, <2>4, SeqEqual
  <2> QED  BY <2>5 DEF s, x
<1> QED  BY <1>1, <1>2, <1>3

\* A message sent counts for its own request.
LEMMA SentGrows ==
  ASSUME Types, NEW r \in Inserts, NEW i \in 1..Len(Batch[r]),
         dataTopic' = Append(dataTopic, <<r, Batch[r][i]>>)
  PROVE  /\ dataTopic' \in Seq(Items)
         /\ Sent(r)' = Append(Sent(r), <<r, Batch[r][i]>>)
         /\ \A q \in Inserts \ {r} : Sent(q)' = Sent(q)
<1> DEFINE x == <<r, Batch[r][i]>>
<1>1. dataTopic \in Seq(Items) /\ x \in Items
  BY ItemFacts DEF Types
<1>2. x \in ItemsOf(r) /\ \A q \in Inserts \ {r} : x \notin ItemsOf(q)
  BY ItemFacts
<1> HIDE DEF x
<1>3. dataTopic' = Append(dataTopic, x)
  BY DEF x
<1>4. \A S : OnlyIn(Append(dataTopic, x), S) =
               IF x \in S THEN Append(OnlyIn(dataTopic, S), x) ELSE OnlyIn(dataTopic, S)
  BY <1>1, OnlyInAppend
<1>5. Append(dataTopic, x) \in Seq(Items)
  BY <1>1
<1>6. Sent(r)' = Append(Sent(r), x)
  BY <1>2, <1>3, <1>4 DEF Sent
<1>7. \A q \in Inserts \ {r} : Sent(q)' = Sent(q)
  BY <1>2, <1>3, <1>4 DEF Sent
<1> QED  BY <1>3, <1>5, <1>6, <1>7 DEF x

-----------------------------------------------------------------------------
(* The invariant is kept, action by action *)

\* What concerns the requests depends on insert and the data topic.
LEMMA InsertFrame ==
  ASSUME NEW r \in Inserts, InsertInv(r), insert'[r] = insert[r], Sent(r)' = Sent(r)
  PROVE  InsertInv(r)'
BY DEF InsertInv

\* What concerns the streams does not depend on them.
LEMMA StreamFrame ==
  ASSUME ConsumerInv, \A c \in Clients : LockInv(c) /\ StreamInv(c),
         UNCHANGED <<reports, streamVars>>
  PROVE  ConsumerInv' /\ \A c \in Clients : LockInv(c)' /\ StreamInv(c)'
BY DEF ConsumerInv, LockInv, StreamInv, Segment, streamVars

\* The invariant holds before any subscription.
LEMMA InitIInv == Init => IInv
<1> SUFFICES ASSUME Init PROVE IInv
  OBVIOUS
<1>1. Types
  <2>1. insert \in [Inserts -> [state : {"sending", "true", "error"}, next : Nat]]
    BY DEF Init
  <2>2. client \in [Clients -> Clientele]
    BY DEF Init, NoStream, Clientele
  <2>3. consumer \in [state : {"none", "running", "ended"}, next : Nat]
    BY DEF Init, NoConsumer
  <2>4. << >> \in Seq(Items) /\ << >> \in Seq(Items \cup {BrokenItem})
    OBVIOUS
  <2> QED  BY <2>1, <2>2, <2>3, <2>4 DEF Init, Types
<1>2. ASSUME NEW r \in Inserts PROVE InsertInv(r)
  <2>1. Sent(r) = << >> /\ Part(r, 0) = << >> /\ Len(Batch[r]) \in Nat
    BY OnlyInEmpty, PartSteps, BatchTypes DEF Init, Sent
  <2>2. insert[r] = [state |-> IF Batch[r] = << >> THEN "true" ELSE "sending", next |-> 1]
    BY DEF Init
  <2>3. Batch[r] = << >> <=> Len(Batch[r]) = 0
    BY ApiAssumption
  <2>4. CASE Batch[r] = << >>
    BY <2>1, <2>2, <2>3, <2>4 DEF InsertInv
  <2>5. CASE Batch[r] # << >>
    BY <2>1, <2>2, <2>3, <2>5 DEF InsertInv
  <2> QED  BY <2>4, <2>5
<1>3. ConsumerInv
  BY DEF Init, ConsumerInv, NoConsumer
<1>4. ASSUME NEW c \in Clients PROVE LockInv(c) /\ StreamInv(c)
  <2>1. LockInv(c)
    BY ApiAssumption DEF Init, LockInv, NoStream
  <2>2. WithPayload(SubSeq(<< >>, 1, 0)) = << >>
    <3>1. SubSeq(<< >>, 1, 0) = << >>
      BY SubSeqEmpty
    <3> QED  BY <3>1, OnlyInEmpty DEF WithPayload
  <2>3. StreamInv(c)
    BY <2>2 DEF Init, StreamInv, Segment, NoStream
  <2> QED  BY <2>1, <2>3
<1> QED  BY <1>1, <1>2, <1>3, <1>4 DEF IInv

\* A message sent, for a request that goes on or is done or has failed over it.
LEMMA SendIInv ==
  ASSUME IInv, NEW r \in Inserts, insert[r].state = "sending", NEW state, NEW next,
         insert' = [insert EXCEPT ![r] = [state |-> state, next |-> next]],
         dataTopic' = Append(dataTopic, <<r, Batch[r][insert[r].next]>>),
         \/ /\ state = IF insert[r].next = Len(Batch[r]) THEN "true" ELSE "sending"
            /\ next = insert[r].next + 1
         \/ state = "error" /\ next = insert[r].next,
         UNCHANGED <<reports, streamVars, crashes>>
  PROVE  IInv'
<1> USE DEF IInv
<1> DEFINE n == insert[r].next
<1>1. /\ n \in 1..Len(Batch[r]) /\ Len(Batch[r]) \in Nat
      /\ Sent(r) = Part(r, n - 1)
  BY BatchTypes DEF InsertInv
<1>2. /\ dataTopic' \in Seq(Items)
      /\ Sent(r)' = Part(r, n)
      /\ \A q \in Inserts \ {r} : Sent(q)' = Sent(q)
  <2> DEFINE x == <<r, Batch[r][n]>>
  <2>1. /\ dataTopic' \in Seq(Items) /\ Sent(r)' = Append(Sent(r), x)
        /\ \A q \in Inserts \ {r} : Sent(q)' = Sent(q)
    <3>1. Types /\ n \in 1..Len(Batch[r]) /\ dataTopic' = Append(dataTopic, x)
      BY <1>1
    <3> HIDE DEF IInv, n
    <3> QED  BY <3>1, SentGrows
  <2>2. Append(Part(r, n - 1), x) = Part(r, n)
    <3> HIDE DEF IInv, n
    <3> QED  BY <1>1, PartSteps
  <2> HIDE DEF IInv, n, x
  <2> QED  BY <1>1, <2>1, <2>2
<1>3. state \in {"sending", "true", "error"} /\ next \in Nat
  BY <1>1
<1>4. Types'
  BY <1>2, <1>3 DEF Types, streamVars
<1>5. ASSUME NEW q \in Inserts PROVE InsertInv(q)'
  <2>1. CASE q = r
    <3>1. insert'[r] = [state |-> state, next |-> next]
      BY DEF Types
    <3> HIDE DEF n
    <3>2. n = insert[r].next
      BY DEF n
    <3>3. n \in 0..Len(Batch[r])
      BY <1>1
    <3>4. /\ next \in 1..(Len(Batch[r]) + 1)
          /\ state = "sending" => next <= Len(Batch[r]) /\ next - 1 = n
          /\ state = "true" => n = Len(Batch[r])
      <4> HIDE DEF IInv
      <4> DEFINE m == Len(Batch[r])
      <4>1. \/ /\ n = m => state = "true"
               /\ n # m => state = "sending"
               /\ next = n + 1
            \/ state = "error" /\ next = n
        BY <3>2
      <4>2. m \in Nat /\ n \in 1..m
        BY <1>1
      <4> HIDE DEF m
      <4>3. CASE next = n + 1 /\ n = m /\ state = "true"
        BY <4>2, <4>3 DEF m
      <4>4. CASE next = n + 1 /\ n # m /\ state = "sending"
        BY <4>2, <4>4 DEF m
      <4>5. CASE next = n /\ state = "error"
        BY <4>2, <4>5 DEF m
      <4> QED  BY <4>1, <4>3, <4>4, <4>5
    <3> QED  BY <1>2, <2>1, <3>1, <3>3, <3>4 DEF InsertInv
  <2>2. CASE q # r
    <3>1. insert'[q] = insert[q] /\ Sent(q)' = Sent(q)
      BY <1>2, <2>2 DEF Types
    <3> QED  BY <3>1, InsertFrame
  <2> QED  BY <2>1, <2>2
<1> QED  BY <1>4, <1>5, StreamFrame

\* A request that ends without another message.
LEMMA StopIInv ==
  ASSUME IInv, NEW r \in Inserts,
         insert' = [insert EXCEPT ![r].state = "error"], dataTopic' = dataTopic,
         UNCHANGED <<reports, streamVars, crashes>>
  PROVE  IInv'
<1> USE DEF IInv
<1>1. Types'
  BY DEF Types, streamVars
<1>2. ASSUME NEW q \in Inserts PROVE InsertInv(q)'
  <2>1. Sent(q)' = Sent(q)
    BY DEF Sent
  <2>2. CASE q = r
    <3>1. insert'[r].state = "error" /\ insert'[r].next = insert[r].next
      BY DEF Types
    <3> QED  BY <2>1, <2>2, <3>1 DEF InsertInv
  <2>3. CASE q # r
    BY <2>1, <2>3, InsertFrame DEF Types
  <2> QED  BY <2>2, <2>3
<1> QED  BY <1>1, <1>2, StreamFrame

\* insert_message and insert_batch publish the next message.
LEMMA PublishIInv == ASSUME IInv, NEW r \in Inserts, Publish(r) PROVE IInv'
<1> DEFINE n == insert[r].next
<1>1. CASE Batch[r][n] \in Unreadable
  BY <1>1, StopIInv DEF Publish
<1>2. CASE Batch[r][n] \notin Unreadable
  <2>1. /\ insert[r].state = "sending"
        /\ dataTopic' = Append(dataTopic, <<r, Batch[r][n]>>)
        /\ insert' = [insert EXCEPT ![r] =
             [state |-> IF n = Len(Batch[r]) THEN "true" ELSE "sending", next |-> n + 1]]
        /\ UNCHANGED <<reports, streamVars, crashes>>
    BY <1>2 DEF Publish
  <2> QED  BY <2>1, SendIInv
<1> QED  BY <1>1, <1>2

\* They stop at a message that cannot be published.
LEMMA PublishFailsIInv == ASSUME IInv, NEW r \in Inserts, PublishFails(r) PROVE IInv'
<1>1. CASE dataTopic' = dataTopic
  BY <1>1, StopIInv DEF PublishFails
<1>2. CASE dataTopic' = Append(dataTopic, <<r, Batch[r][insert[r].next]>>)
  <2>1. insert' = [insert EXCEPT ![r] = [state |-> "error", next |-> insert[r].next]]
    <3>1. insert' = [insert EXCEPT ![r].state = "error"]
      BY DEF PublishFails
    <3>2. insert \in [Inserts -> [state : {"sending", "true", "error"}, next : Nat]]
      BY DEF IInv, Types
    <3>3. [insert[r] EXCEPT !.state = "error"] = [state |-> "error", next |-> insert[r].next]
      BY <3>2
    <3> QED  BY <3>1, <3>3, Zenon
  <2>2. insert[r].state = "sending" /\ UNCHANGED <<reports, streamVars, crashes>>
    BY DEF PublishFails
  <2> QED  BY <1>2, <2>1, <2>2, SendIInv
<1> QED  BY <1>1, <1>2 DEF PublishFails

\* A report behind the others leaves every segment as it is.
LEMMA SegmentsStay ==
  ASSUME NEW x \in Items, NEW s \in Seq(Items), NEW i \in Nat \ {0}, NEW j \in Nat,
         i <= j => j <= Len(s)
  PROVE  SubSeq(Append(s, x), i, j) = SubSeq(s, i, j)
<1>1. /\ Append(s, x) \in Seq(Items) /\ Len(s) \in Nat
      /\ \A k \in 1..Len(s) : Append(s, x)[k] = s[k] /\ s[k] \in Items
  OBVIOUS
<1>2. CASE i <= j
  <2> DEFINE t == Append(s, x)
  <2>1. \A k \in i..j : k \in 1..Len(s)
    BY <1>1, <1>2
  <2>2. \A k \in i..j : t[k] = s[k] /\ s[k] \in Items
    BY <1>1, <2>1
  <2> HIDE DEF t
  <2>3. /\ SubSeq(t, i, j) \in Seq(Items) /\ SubSeq(s, i, j) \in Seq(Items)
        /\ Len(SubSeq(t, i, j)) = j - i + 1 /\ Len(SubSeq(s, i, j)) = j - i + 1
        /\ \A k \in 1..(j - i + 1) : SubSeq(t, i, j)[k] = t[i + k - 1]
                                     /\ SubSeq(s, i, j)[k] = s[i + k - 1]
    BY <1>2, <2>2, SubSeqProperties
  <2>4. \A k \in 1..(j - i + 1) : i + k - 1 \in i..j
    OBVIOUS
  <2> DEFINE a == SubSeq(t, i, j)
             b == SubSeq(s, i, j)
             n == j - i + 1
  <2>5. /\ a \in Seq(Items) /\ b \in Seq(Items) /\ Len(a) = n /\ Len(b) = n
        /\ \A k \in 1..n : a[k] = b[k]
    BY <2>2, <2>3, <2>4
  <2> HIDE DEF a, b, n
  <2>6. a = b
    BY <2>5, SeqEqual
  <2> QED  BY <2>6 DEF a, b, t
<1>3. CASE i > j
  BY <1>1, <1>3, SubSeqEmpty
<1> QED  BY <1>2, <1>3

\* The rest of CDL reports the next message of the data topic.
LEMMA ReportedIInv == ASSUME IInv, Reported PROVE IInv'
<1> USE DEF IInv
<1> DEFINE x == dataTopic[Len(reports) + 1]
           n == Len(reports)
<1>1. /\ reports' = Append(reports, x) /\ x \in Items /\ reports \in Seq(Items)
      /\ reports' \in Seq(Items) /\ n \in Nat /\ Len(reports') = n + 1
      /\ \A i \in 1..n : reports'[i] = reports[i]
  BY DEF Reported, Types
<1>2. UNCHANGED <<insert, dataTopic, lock, entry, consumer, channel, client, consumers>>
  BY DEF Reported, streamVars
<1> HIDE DEF x, n
<1>n. n = Len(reports)
  BY DEF n
<1>3. Types'
  BY <1>1, <1>2 DEF Types
<1>4. \A r \in Inserts : InsertInv(r)'
  BY <1>2 DEF InsertInv, Sent
<1>5. ConsumerInv'
  <2>1. \A i \in 1..Len(channel) : i <= n => i \in 1..n /\ i <= n + 1
    BY <1>1 DEF Types
  <2>2. consumer.next \in 1..(n + 2)
    BY <1>1, <1>n DEF ConsumerInv
  <2>3. ASSUME NEW i \in 1..Len(channel)
        PROVE  \/ i <= Len(reports') /\ channel[i] = reports'[i]
               \/ channel[i] = BrokenItem /\ consumer.state # "running"
    BY <1>1, <1>n, <2>1 DEF ConsumerInv
  <2>4. (n + 1) + 1 = n + 2
    BY <1>1
  <2> QED  BY <1>1, <1>2, <2>2, <2>3, <2>4 DEF ConsumerInv
<1>6. ASSUME NEW c \in Clients PROVE LockInv(c)' /\ StreamInv(c)'
  <2>1. LockInv(c)'
    BY <1>2 DEF LockInv
  <2>2. client[c].pos \in Nat
    BY DEF Types, Clientele
  <2>3. Segment(client[c].shown)'
    <3>1. PICK i \in 1..(n + 1), j \in 0..n : client[c].shown = WithPayload(SubSeq(reports, i, j))
      BY <1>n DEF StreamInv, Segment
    <3>2. SubSeq(Append(reports, x), i, j) = SubSeq(reports, i, j)
      BY <1>1, <1>n, SegmentsStay
    <3>3. i \in 1..((n + 1) + 1) /\ j \in 0..(n + 1)
      BY <1>1
    <3> QED  BY <1>1, <1>2, <3>1, <3>2, <3>3 DEF Segment
  <2>4. ASSUME client[c].state = "streaming"
        PROVE  \E i \in 1..(client[c].pos + 1) :
                 /\ client[c].first = 1 => i = 1
                 /\ i <= client[c].pos => client[c].pos <= Len(reports')
                 /\ client[c].shown = WithPayload(SubSeq(reports', i, client[c].pos))
    <3>1. PICK i \in 1..(client[c].pos + 1) :
                 /\ client[c].first = 1 => i = 1
                 /\ i <= client[c].pos => client[c].pos <= n
                 /\ client[c].shown = WithPayload(SubSeq(reports, i, client[c].pos))
      BY <1>n, <2>4 DEF StreamInv
    <3>2. SubSeq(Append(reports, x), i, client[c].pos) = SubSeq(reports, i, client[c].pos)
      BY <1>1, <1>n, <2>2, <3>1, SegmentsStay
    <3>3. client[c].pos <= n => client[c].pos <= n + 1
      BY <1>1, <2>2
    <3> QED  BY <1>1, <3>1, <3>2, <3>3
  <2> QED  BY <1>2, <2>1, <2>3, <2>4 DEF StreamInv
<1> QED  BY <1>3, <1>4, <1>5, <1>6

\* A client whose record keeps its value keeps its place in the streams while
\* the channel does not shrink.
LEMMA ClientFrame ==
  ASSUME NEW c \in Clients, StreamInv(c), client'[c] = client[c], reports' = reports,
         client[c].pos <= Len(channel')
  PROVE  StreamInv(c)'
BY DEF StreamInv, Segment

\* Nothing shown is a segment, and what a client has seen that comes in now.
LEMMA NothingShown ==
  ASSUME reports \in Seq(Items), NEW p \in Nat
  PROVE  /\ Segment(<< >>)
         /\ << >> = WithPayload(SubSeq(reports, p + 1, p))
<1>1. SubSeq(reports, p + 1, p) = << >> /\ SubSeq(reports, 1, 0) = << >>
  BY SubSeqEmpty
<1>2. WithPayload(<< >>) = << >>
  BY OnlyInEmpty DEF WithPayload
<1>3. 1 \in 1..(Len(reports) + 1) /\ 0 \in 0..Len(reports)
  OBVIOUS
<1> QED  BY <1>1, <1>2, <1>3 DEF Segment

\* subscribe_on_message_queue finds the stream, or starts to create it.
LEMMA SubscribeIInv == ASSUME IInv, NEW c \in Clients, Subscribe(c) PROVE IInv'
<1> USE DEF IInv
<1> DEFINE n == Len(channel)
<1>0. /\ client[c].state = "away" /\ lock = Nobody
      /\ UNCHANGED <<insert, dataTopic, reports, entry, consumer, channel, consumers>>
      /\ n \in Nat
  BY DEF Subscribe, apiVars, Types
<1> HIDE DEF n
<1>n. n = Len(channel)
  BY DEF n
<1>1. /\ \A r \in Inserts : InsertInv(r)'
      /\ ConsumerInv'
  BY <1>0 DEF InsertInv, Sent, ConsumerInv
<1>2. CASE entry /\ UNCHANGED lock /\
           client' = [client EXCEPT ![c] = StreamFrom(n, 0)]
  <2> DEFINE new == StreamFrom(n, 0)
  <2>0. client \in [Clients -> Clientele] /\ new \in Clientele
    BY <1>0 DEF Types, Clientele, StreamFrom
  <2>1. client' = [client EXCEPT ![c] = new]
    BY <1>2
  <2>2. /\ client'[c] = new
        /\ \A d \in Clients \ {c} : client'[d] = client[d]
    BY <2>1 DEF Types
  <2>3. Types'
    <3>1. client' \in [Clients -> Clientele]
      <4> HIDE DEF new
      <4> QED  BY <2>0, <2>1
    <3> QED  BY <1>0, <1>2, <3>1 DEF Types
  <2>4. ASSUME NEW d \in Clients PROVE LockInv(d)' /\ StreamInv(d)'
    <3>1. CASE d = c
      <4>1. LockInv(c)'
        BY <1>0, <1>2, <2>2, ApiAssumption DEF LockInv, StreamFrom
      <4>2. n + 1 \in 1..(n + 1) /\ ~ (n + 1 <= n)
        BY <1>0
      <4>3. Segment(<< >>)' /\ << >> = WithPayload(SubSeq(reports', n + 1, n))
        BY <1>0, NothingShown DEF Segment, Types
      <4>4. client'[c].pos = n /\ client'[c].shown = << >> /\ client'[c].first = 0
        BY <2>2 DEF StreamFrom
      <4>5. n <= Len(channel')
        BY <1>0, <1>n
      <4>6. StreamInv(c)'
        BY <4>2, <4>3, <4>4, <4>5 DEF StreamInv
      <4> QED  BY <3>1, <4>1, <4>6
    <3>2. CASE d # c
      <4>1. client'[d] = client[d]
        BY <2>2, <3>2
      <4> QED  BY <1>0, <1>2, <4>1, ClientFrame DEF LockInv, StreamInv
    <3> QED  BY <3>1, <3>2
  <2> QED  BY <1>1, <2>3, <2>4
<1>3. CASE ~entry /\ client' = [client EXCEPT ![c].state = "creating"] /\ lock' = c
  <2>1. /\ client'[c] = [client[c] EXCEPT !.state = "creating"]
        /\ client'[c].state = "creating" /\ client'[c].pos = client[c].pos
        /\ client'[c].shown = client[c].shown
        /\ \A d \in Clients \ {c} : client'[d] = client[d]
    BY <1>3 DEF Types, Clientele
  <2>2. Types'
    <3>1. client' \in [Clients -> Clientele]
      <4>1. client'[c] \in Clientele
        BY <2>1 DEF Types, Clientele
      <4>2. \A d \in Clients : client'[d] \in Clientele
        BY <2>1, <4>1 DEF Types
      <4>3. client' = [d \in Clients |-> client'[d]]
        BY <1>3 DEF Types
      <4> QED  BY <4>2, <4>3
    <3> QED  BY <1>0, <1>3, <3>1 DEF Types
  <2>3. ASSUME NEW d \in Clients PROVE LockInv(d)' /\ StreamInv(d)'
    <3>1. CASE d = c
      <4>1. LockInv(c)'
        BY <1>0, <1>3, <2>1 DEF LockInv
      <4>2. StreamInv(c)'
        BY <1>0, <2>1 DEF StreamInv, Segment
      <4> QED  BY <3>1, <4>1, <4>2
    <3>2. CASE d # c
      <4>1. client'[d] = client[d]
        BY <2>1, <3>2
      <4>2. lock # d
        BY <1>0, ApiAssumption
      <4> QED  BY <1>0, <1>3, <3>2, <4>1, <4>2, ClientFrame DEF LockInv, StreamInv
    <3> QED  BY <3>1, <3>2
  <2> QED  BY <1>1, <2>2, <2>3
<1> QED  BY <1>2, <1>3 DEF Subscribe, n

\* The consumer has been created, and its client has the first receiver.
LEMMA CreatedIInv == ASSUME IInv, NEW c \in Clients, Created(c) PROVE IInv'
<1> USE DEF IInv
<1> DEFINE new == StreamFrom(0, 1)
<1>0. client \in [Clients -> Clientele] /\ new \in Clientele
  BY DEF Types, Clientele, StreamFrom
<1>1. /\ client[c].state = "creating"
      /\ entry' = TRUE /\ consumers' = consumers + 1
      /\ consumer' = [state |-> "running", next |-> 1]
      /\ channel' = << >> /\ lock' = Nobody
      /\ client' = [client EXCEPT ![c] = new]
      /\ UNCHANGED <<insert, dataTopic, reports>>
  BY DEF Created, apiVars
<1>2. lock = c /\ ~entry /\ consumers = 0
  BY <1>1 DEF LockInv, ConsumerInv
<1>3. /\ client'[c] = new
      /\ \A d \in Clients \ {c} : client'[d] = client[d]
  BY <1>1 DEF Types
<1>4. Types'
  <2>1. client' \in [Clients -> Clientele]
    <3> HIDE DEF new
    <3> QED  BY <1>0, <1>1
  <2>2. consumer' \in [state : {"none", "running", "ended"}, next : Nat]
    BY <1>1
  <2> QED  BY <1>1, <1>2, <2>1, <2>2 DEF Types
<1>5. \A r \in Inserts : InsertInv(r)'
  BY <1>1 DEF InsertInv, Sent
<1>6. ConsumerInv'
  <2>1. Len(reports) \in Nat /\ Len(<< >>) = 0
    BY DEF Types
  <2> QED  BY <1>1, <1>2, <2>1 DEF ConsumerInv
<1>7. ASSUME NEW d \in Clients PROVE LockInv(d)' /\ StreamInv(d)'
  <2>1. CASE d = c
    <3>1. LockInv(c)'
      BY <1>1, <1>3, ApiAssumption DEF LockInv, StreamFrom
    <3>2. Segment(<< >>)' /\ << >> = WithPayload(SubSeq(reports', 1, 0))
      <4>1. 0 \in Nat /\ 0 + 1 = 1
        OBVIOUS
      <4>2. Segment(<< >>) /\ << >> = WithPayload(SubSeq(reports, 1, 0))
        BY <4>1, NothingShown DEF Types
      <4> QED  BY <1>1, <4>2 DEF Segment
    <3>3. client'[c].pos = 0 /\ client'[c].shown = << >> /\ Len(channel') = 0
      BY <1>1, <1>3 DEF StreamFrom
    <3>4. StreamInv(c)'
      BY <3>2, <3>3 DEF StreamInv
    <3> QED  BY <2>1, <3>1, <3>4
  <2>2. CASE d # c
    <3>1. client'[d] = client[d] /\ client[d].pos = 0 /\ client[d].state # "streaming"
      BY <1>2, <1>3, <2>2 DEF LockInv
    <3>2. lock # d /\ Nobody # d /\ Len(channel') = 0
      BY <1>1, <1>2, <2>2, ApiAssumption
    <3>3. LockInv(d)'
      BY <1>1, <3>1, <3>2 DEF LockInv
    <3>4. StreamInv(d)'
      BY <1>1, <3>1, <3>2, ClientFrame
    <3> QED  BY <3>3, <3>4
  <2> QED  BY <2>1, <2>2
<1> QED  BY <1>4, <1>5, <1>6, <1>7

\* A client that leaves, or stays without a stream, frees the lock if it had it.
LEMMA AwayIInv ==
  ASSUME IInv, NEW c \in Clients, NEW new, client' = [client EXCEPT ![c] = new],
         \/ new = NoStream
         \/ /\ new = [client[c] EXCEPT !.state = "failed"],
         \/ client[c].state = "creating" /\ lock' = Nobody
         \/ client[c].state # "creating" /\ lock' = lock,
         UNCHANGED <<insert, dataTopic, reports, entry, consumer, channel, consumers>>
  PROVE  IInv'
<1> USE DEF IInv
<1>0. client \in [Clients -> Clientele] /\ client[c] \in Clientele
  BY DEF Types
<1>1. /\ new \in Clientele
      /\ new.state \in {"away", "failed"}
      /\ new.pos \in {0, client[c].pos} /\ new.shown \in {<< >>, client[c].shown}
  <2>1. CASE new = NoStream
    BY <2>1 DEF NoStream, Clientele
  <2>2. CASE new = [client[c] EXCEPT !.state = "failed"]
    BY <1>0, <2>2 DEF Clientele
  <2> QED  BY <2>1, <2>2
<1>2. Types'
  <2>1. client' \in [Clients -> Clientele]
    BY <1>0, <1>1
  <2> QED  BY <2>1 DEF Types
<1>3. (\A r \in Inserts : InsertInv(r)') /\ ConsumerInv'
  BY DEF InsertInv, Sent, ConsumerInv
<1>4. ASSUME NEW d \in Clients PROVE LockInv(d)' /\ StreamInv(d)'
  <2>1. CASE d = c
    <3>1. client'[c] = new
      BY DEF Types
    <3>2. LockInv(c)'
      BY <1>1, <3>1, ApiAssumption DEF LockInv
    <3>3. Segment(new.shown)'
      <4>1. Segment(<< >>)
        <5>1. 0 \in Nat /\ reports \in Seq(Items)
          BY DEF Types
        <5> QED  BY <5>1, NothingShown
      <4> QED  BY <1>1, <4>1 DEF StreamInv, Segment
    <3>4. new.pos <= Len(channel')
      BY <1>1 DEF StreamInv, Types, Clientele
    <3>5. StreamInv(c)'
      BY <1>1, <3>1, <3>3, <3>4 DEF StreamInv
    <3> QED  BY <2>1, <3>2, <3>5
  <2>2. CASE d # c
    <3>1. client'[d] = client[d]
      BY <2>2 DEF Types
    <3>2. LockInv(d)'
      BY <2>2, <3>1, ApiAssumption DEF LockInv
    <3> QED  BY <3>1, <3>2, ClientFrame DEF StreamInv
  <2> QED  BY <2>1, <2>2
<1> QED  BY <1>2, <1>3, <1>4

\* The consumer could not be created.
LEMMA CreationFailsIInv == ASSUME IInv, NEW c \in Clients, CreationFails(c) PROVE IInv'
<1> DEFINE new == [client[c] EXCEPT !.state = "failed"]
<1>1. /\ client[c].state = "creating" /\ lock' = Nobody
      /\ client' = [client EXCEPT ![c] = new]
      /\ UNCHANGED <<insert, dataTopic, reports, entry, consumer, channel, consumers>>
  BY DEF CreationFails, apiVars
<1> QED  BY <1>1, AwayIInv

\* A client drops its receiver.
LEMMA LeaveIInv == ASSUME IInv, NEW c \in Clients, Leave(c) PROVE IInv'
<1>1. /\ client[c].state # "creating" /\ lock' = lock
      /\ client' = [client EXCEPT ![c] = NoStream]
      /\ UNCHANGED <<insert, dataTopic, reports, entry, consumer, channel, consumers>>
  BY DEF Leave, apiVars
<1> QED  BY <1>1, AwayIInv

\* The channel grows by the next report, or by the error that ends the stream.
LEMMA ChannelIInv ==
  ASSUME IInv, consumer.state = "running", NEW item,
         \/ /\ consumer.next <= Len(reports) /\ item = reports[consumer.next]
            /\ consumer' = [consumer EXCEPT !.next = @ + 1]
            /\ channel' = Append(channel, item)
         \/ /\ item = BrokenItem
            /\ consumer' = [consumer EXCEPT !.state = "ended"]
            /\ channel' \in {channel, Append(channel, item)},
         UNCHANGED <<insert, dataTopic, reports, lock, entry, client, consumers>>
  PROVE  IInv'
<1> USE DEF IInv
<1> DEFINE n == Len(channel)
           m == Len(reports)
<1>1. /\ n \in Nat /\ m \in Nat /\ channel \in Seq(Items \cup {BrokenItem})
      /\ consumer.next = n + 1 /\ consumer.next \in 1..(m + 1)
      /\ entry
  BY DEF Types, ConsumerInv
<1>2. item \in Items \cup {BrokenItem}
  <2>1. CASE consumer.next <= m /\ item = reports[consumer.next]
    <3>1. consumer.next \in 1..m
      BY <1>1, <2>1
    <3>2. \A i \in 1..m : reports[i] \in Items
      BY DEF Types
    <3> QED  BY <2>1, <3>1, <3>2
  <2>2. CASE item = BrokenItem
    BY <2>2
  <2> QED  BY <2>1, <2>2
<1>3. /\ Append(channel, item) \in Seq(Items \cup {BrokenItem})
      /\ Len(Append(channel, item)) = n + 1
      /\ Append(channel, item)[n + 1] = item
      /\ \A i \in 1..n : Append(channel, item)[i] = channel[i]
  BY <1>1, <1>2
<1>4. /\ consumer' \in [state : {"none", "running", "ended"}, next : Nat]
      /\ \/ /\ consumer'.state = "running" /\ consumer'.next = n + 2
            /\ n + 1 <= m /\ item = reports[n + 1] /\ channel' = Append(channel, item)
         \/ /\ consumer'.state = "ended" /\ consumer'.next = n + 1
            /\ item = BrokenItem /\ channel' \in {channel, Append(channel, item)}
  BY <1>1 DEF Types
<1> HIDE DEF n, m
<1>5. Types'
  BY <1>1, <1>3, <1>4 DEF Types
<1>6. \A r \in Inserts : InsertInv(r)'
  BY DEF InsertInv, Sent
<1>7. Len(channel') \in {n, n + 1} /\ n <= Len(channel')
  BY <1>1, <1>3, <1>4 DEF n
<1>8. ConsumerInv'
  <2>1. \A i \in 1..n : \/ i <= m /\ channel[i] = reports[i]
                        \/ channel[i] = BrokenItem /\ consumer.state # "running"
    BY DEF ConsumerInv, n, m
  <2>2. ASSUME NEW i \in 1..Len(channel')
        PROVE  \/ i <= m /\ channel'[i] = reports[i]
               \/ channel'[i] = BrokenItem /\ consumer'.state # "running"
    <3>1. CASE i \in 1..n
      BY <1>3, <1>4, <2>1, <3>1
    <3>2. CASE i = n + 1 /\ channel' = Append(channel, item)
      BY <1>3, <1>4, <3>2
    <3>3. i \in 1..n \/ (i = n + 1 /\ channel' = Append(channel, item))
      BY <1>1, <1>3, <1>4, <1>7 DEF n
    <3> QED  BY <3>1, <3>2, <3>3
  <2>3. consumer'.next \in 1..(m + 1)
    BY <1>1, <1>4
  <2>4. consumer'.state = "running" => consumer'.next = Len(channel') + 1
    BY <1>1, <1>3, <1>4
  <2>5. consumers' = (IF entry' THEN 1 ELSE 0) /\ entry'
    BY <1>1 DEF ConsumerInv
  <2> QED  BY <2>2, <2>3, <2>4, <2>5 DEF ConsumerInv, m
<1>9. ASSUME NEW c \in Clients PROVE LockInv(c)' /\ StreamInv(c)'
  <2>1. LockInv(c)'
    BY DEF LockInv
  <2>2. client[c].pos <= Len(channel')
    <3>1. client[c].pos \in Nat /\ client[c].pos <= n
      BY DEF StreamInv, Types, Clientele, n
    <3> QED  BY <1>1, <1>7, <3>1
  <2>3. client'[c] = client[c] /\ reports' = reports
    OBVIOUS
  <2> QED  BY <2>1, <2>2, <2>3, ClientFrame
<1> QED  BY <1>5, <1>6, <1>8, <1>9

\* The task of the stream takes a message from the consumer to the channel.
LEMMA ForwardIInv == ASSUME IInv, Forward PROVE IInv'
<1>1. /\ consumer.state = "running" /\ consumer.next <= Len(reports)
      /\ channel' = Append(channel, reports[consumer.next])
      /\ consumer' = [consumer EXCEPT !.next = @ + 1]
      /\ UNCHANGED <<insert, dataTopic, reports, lock, entry, client, consumers>>
  BY DEF Forward, apiVars
<1> QED  BY <1>1, ChannelIInv

\* The consumer ends, and the task with it.
LEMMA StreamEndsIInv == ASSUME IInv, StreamEnds PROVE IInv'
<1>1. /\ consumer.state = "running"
      /\ channel' \in {channel, Append(channel, BrokenItem)}
      /\ consumer' = [consumer EXCEPT !.state = "ended"]
      /\ UNCHANGED <<insert, dataTopic, reports, lock, entry, client, consumers>>
  BY DEF StreamEnds, apiVars, BrokenItem
<1> QED  BY <1>1, ChannelIInv

\* One more report at the end of a segment that is shown.
LEMMA SegmentGrows ==
  ASSUME reports \in Seq(Items), NEW p \in Nat, p + 1 <= Len(reports), NEW i \in 1..(p + 1)
  PROVE  LET x == reports[p + 1]
         IN  WithPayload(SubSeq(reports, i, p + 1)) =
               IF x[2] \in NoPayload THEN WithPayload(SubSeq(reports, i, p))
                                     ELSE Append(WithPayload(SubSeq(reports, i, p)), x)
<1> DEFINE x == reports[p + 1]
           t == SubSeq(reports, i, p)
<1>1. p + 1 \in 1..Len(reports) /\ x \in Items
  OBVIOUS
<1>2. \A k \in i..(p + 1) : reports[k] \in Items
  OBVIOUS
<1>3. t \in Seq(Items)
  BY <1>2, SubSeqProperties
<1>4. SubSeq(reports, i, p + 1) = Append(t, x)
  <2>1. p + 1 \in Int /\ i <= p + 1 /\ (p + 1) - 1 = p /\ i \in 1..Len(reports)
    BY <1>1
  <2>2. SubSeq(reports, i, p + 1) = t \o <<x>>
    BY <1>1, <2>1, SubSeqRecursiveSecond
  <2> HIDE DEF t, x
  <2>3. Append(t, x) = t \o <<x>>
    BY <1>1, <1>3, AppendIsConcat
  <2> QED  BY <2>2, <2>3, Zenon
<1> HIDE DEF t, x
<1>5. x \in {y \in Items : y[2] \notin NoPayload} <=> ~ (x[2] \in NoPayload)
  BY <1>1
<1>6. WithPayload(Append(t, x)) =
        IF x[2] \in NoPayload THEN WithPayload(t) ELSE Append(WithPayload(t), x)
  <2> DEFINE W == {y \in Items : y[2] \notin NoPayload}
  <2> HIDE DEF W
  <2>1. OnlyIn(Append(t, x), W) = IF x \in W THEN Append(OnlyIn(t, W), x) ELSE OnlyIn(t, W)
    BY <1>1, <1>3, OnlyInAppend
  <2>2. x \in W <=> ~ (x[2] \in NoPayload)
    BY <1>5 DEF W
  <2>3. \A s : WithPayload(s) = OnlyIn(s, W)
    BY DEF WithPayload, W
  <2> QED  BY <2>1, <2>2, <2>3
<1> QED  BY <1>4, <1>6 DEF t, x

\* A client takes an item from the channel, or learns that it was overtaken.
LEMMA ReceiveIInv == ASSUME IInv, NEW c \in Clients, Receive(c) PROVE IInv'
<1> USE DEF IInv
<1> DEFINE p == client[c].pos
           item == channel[p + 1]
           broken == Missed(c) > Capacity \/ item[1] = "error"
           state == IF broken THEN "failed" ELSE "streaming"
           shown == IF broken \/ item[2] \in NoPayload THEN client[c].shown
                                                       ELSE Append(client[c].shown, item)
           new == [state |-> state, pos |-> p + 1, shown |-> shown, first |-> client[c].first]
<1>1. /\ client[c].state = "streaming"
      /\ client[c] \in Clientele /\ client \in [Clients -> Clientele]
      /\ p \in Nat /\ Len(channel) \in Nat /\ p + 1 \in 1..Len(channel)
      /\ UNCHANGED <<insert, dataTopic, reports, lock, entry, consumer, channel, consumers>>
  BY DEF Receive, apiVars, Missed, Types, Clientele
<1>2. client' = [client EXCEPT ![c] = new]
  BY DEF Receive
<1>3. \/ p + 1 <= Len(reports) /\ item = reports[p + 1]
      \/ item = BrokenItem
  BY <1>1 DEF ConsumerInv
<1>4. PICK i \in 1..(p + 1) :
        /\ client[c].first = 1 => i = 1
        /\ i <= p => p <= Len(reports)
        /\ client[c].shown = WithPayload(SubSeq(reports, i, p))
  BY <1>1 DEF StreamInv
<1>5. Segment(client[c].shown)
  BY DEF StreamInv
<1>6. ASSUME ~ broken
      PROVE  /\ p + 1 <= Len(reports)
             /\ shown = WithPayload(SubSeq(reports, i, p + 1))
             /\ shown \in Seq(Items)
  <2>1. item # BrokenItem
    BY <1>6 DEF BrokenItem
  <2>2. p + 1 <= Len(reports) /\ item = reports[p + 1] /\ item \in Items
    BY <1>1, <1>3, <2>1 DEF Types
  <2>3. shown = WithPayload(SubSeq(reports, i, p + 1))
    BY <1>1, <1>4, <1>6, <2>2, SegmentGrows DEF Types
  <2>4. shown \in Seq(Items)
    BY <1>1, <2>2 DEF Clientele
  <2> QED  BY <2>2, <2>3, <2>4
<1>7. new \in Clientele
  <2>1. shown \in Seq(Items)
    BY <1>1, <1>6 DEF Clientele
  <2> HIDE DEF shown, broken
  <2> QED  BY <1>1, <2>1 DEF Clientele
<1>8. Segment(shown)
  <2>1. CASE broken
    BY <1>5, <2>1
  <2>2. CASE ~ broken
    <3>1. i \in 1..(Len(reports) + 1) /\ p + 1 \in 0..Len(reports)
      BY <1>1, <1>6, <2>2 DEF Types
    <3> QED  BY <1>6, <2>2, <3>1 DEF Segment
  <2> QED  BY <2>1, <2>2
<1>9. /\ client'[c] = new
      /\ \A d \in Clients \ {c} : client'[d] = client[d]
      /\ client' \in [Clients -> Clientele]
  <2> HIDE DEF new
  <2> QED  BY <1>1, <1>2, <1>7
<1>10. Types'
  BY <1>1, <1>9 DEF Types
<1>11. (\A r \in Inserts : InsertInv(r)') /\ ConsumerInv'
  BY <1>1 DEF InsertInv, Sent, ConsumerInv
<1>12. StreamInv(c)'
  <2>1. /\ client'[c].state = state /\ client'[c].pos = p + 1 /\ client'[c].shown = shown
        /\ client'[c].first = client[c].first
    BY <1>9
  <2>2. state = "streaming" <=> ~ broken
    BY Zenon
  <2>3. i \in 1..((p + 1) + 1) /\ p + 1 <= Len(channel)
    BY <1>1
  <2>4. \E a \in 1..(Len(reports') + 1), b \in 0..Len(reports') :
          client'[c].shown = WithPayload(SubSeq(reports', a, b))
    BY <1>1, <1>8, <2>1 DEF Segment
  <2> HIDE DEF state, shown, broken, item, p
  <2> QED  BY <1>1, <1>4, <1>6, <2>1, <2>2, <2>3, <2>4 DEF StreamInv, Segment
<1>13. LockInv(c)'
  <2>1. client'[c].state \in {"streaming", "failed"}
    BY <1>9
  <2>2. entry /\ lock # c
    BY <1>1 DEF LockInv
  <2> QED  BY <1>1, <2>1, <2>2 DEF LockInv
<1>14. ASSUME NEW d \in Clients \ {c} PROVE LockInv(d)' /\ StreamInv(d)'
  <2>1. client'[d] = client[d] /\ client[d].pos <= Len(channel')
    BY <1>1, <1>9 DEF StreamInv
  <2> QED  BY <1>1, <2>1, ClientFrame DEF LockInv
<1> QED  BY <1>10, <1>11, <1>12, <1>13, <1>14

\* The process restarts with no subscriptions.
LEMMA CrashIInv == ASSUME IInv, Crash PROVE IInv'
<1> USE DEF IInv
<1>1. /\ lock' = Nobody /\ entry' = FALSE /\ consumer' = NoConsumer /\ channel' = << >>
      /\ client' = [c \in Clients |-> NoStream] /\ consumers' = 0
      /\ insert' = [r \in Inserts |-> IF insert[r].state = "sending"
                                      THEN [insert[r] EXCEPT !.state = "error"] ELSE insert[r]]
      /\ UNCHANGED <<dataTopic, reports>>
  BY DEF Crash
<1>2. Len(reports) \in Nat /\ reports \in Seq(Items)
  BY DEF Types
<1>3. Types'
  <2>1. insert' \in [Inserts -> [state : {"sending", "true", "error"}, next : Nat]]
    <3>1. ASSUME NEW r \in Inserts
          PROVE  /\ insert[r] \in [state : {"sending", "true", "error"}, next : Nat]
                 /\ [insert[r] EXCEPT !.state = "error"]
                      \in [state : {"sending", "true", "error"}, next : Nat]
      BY DEF Types
    <3> QED  BY <1>1, <3>1
  <2>2. NoStream \in Clientele /\ NoConsumer \in [state : {"none", "running", "ended"}, next : Nat]
    BY DEF NoStream, Clientele, NoConsumer
  <2>3. client' \in [Clients -> Clientele]
    BY <1>1, <2>2
  <2>4. dataTopic' \in Seq(Items) /\ reports' \in Seq(Items)
        /\ channel' \in Seq(Items \cup {BrokenItem})
    BY <1>1 DEF Types
  <2> QED  BY <1>1, <2>1, <2>2, <2>3, <2>4 DEF Types
<1>4. ASSUME NEW r \in Inserts PROVE InsertInv(r)'
  <2>1. Sent(r)' = Sent(r)
    BY <1>1 DEF Sent
  <2>2. CASE insert[r].state = "sending"
    <3>1. insert'[r].state = "error" /\ insert'[r].next = insert[r].next
      BY <1>1, <2>2 DEF Types
    <3> QED  BY <2>1, <3>1 DEF InsertInv
  <2>3. CASE insert[r].state # "sending"
    BY <1>1, <2>1, <2>3, InsertFrame
  <2> QED  BY <2>2, <2>3
<1>5. ConsumerInv'
  BY <1>1, <1>2 DEF ConsumerInv, NoConsumer
<1>6. ASSUME NEW c \in Clients PROVE LockInv(c)' /\ StreamInv(c)'
  <2>1. /\ client'[c].state = "away" /\ client'[c].pos = 0 /\ client'[c].shown = << >>
        /\ Len(channel') = 0
    BY <1>1 DEF NoStream
  <2>2. Segment(<< >>)'
    <3>1. 0 \in Nat
      OBVIOUS
    <3> QED  BY <1>1, <1>2, <3>1, NothingShown DEF Segment
  <2>3. LockInv(c)'
    BY <1>1, <2>1, ApiAssumption DEF LockInv
  <2>4. StreamInv(c)'
    BY <2>1, <2>2 DEF StreamInv
  <2> QED  BY <2>3, <2>4
<1> QED  BY <1>3, <1>4, <1>5, <1>6

\* Every step keeps the invariant: one case per action.
LEMMA NextIInv == IInv /\ [Next]_vars => IInv'
<1> SUFFICES ASSUME IInv, [Next]_vars PROVE IInv'
  OBVIOUS
<1>1. CASE UNCHANGED vars
  BY <1>1, StreamFrame DEF vars, apiVars, streamVars, IInv, Types, InsertInv, Sent
<1>2. ASSUME NEW r \in Inserts, Publish(r) \/ PublishFails(r) PROVE IInv'
  BY <1>2, PublishIInv, PublishFailsIInv
<1>3. CASE Reported
  BY <1>3, ReportedIInv
<1>4. ASSUME NEW c \in Clients,
             Subscribe(c) \/ Created(c) \/ CreationFails(c) \/ Receive(c) \/ Leave(c)
      PROVE  IInv'
  BY <1>4, SubscribeIInv, CreatedIInv, CreationFailsIInv, ReceiveIInv, LeaveIInv
<1>5. CASE Forward \/ StreamEnds \/ Crash
  BY <1>5, ForwardIInv, StreamEndsIInv, CrashIInv
<1> QED  BY <1>1, <1>2, <1>3, <1>4, <1>5 DEF Next

-----------------------------------------------------------------------------
(* What follows from it *)

\* The variables have their types and the mutex of mq_events is with the client
\* that creates the consumer, whatever fails or crashes
\* (Context::subscribe_on_message_queue).
THEOREM TypeCorrect == Spec => []TypeOK
<1>1. IInv => TypeOK
  <2> SUFFICES ASSUME IInv PROVE TypeOK
    OBVIOUS
  <2>1. \A c \in Clients : /\ client[c].state \in {"away", "creating", "streaming", "failed"}
                           /\ client[c].pos \in 0..Len(channel)
                           /\ client[c].state = "creating" <=> lock = c
    BY DEF IInv, Types, Clientele, LockInv, StreamInv
  <2>2. \A r \in Inserts : /\ insert[r].state \in {"sending", "true", "error"}
                           /\ insert[r].next \in 1..(Len(Batch[r]) + 1)
    BY DEF IInv, Types, InsertInv
  <2> QED  BY <2>1, <2>2 DEF IInv, Types, ConsumerInv, TypeOK
<1> QED  BY <1>1, InitIInv, NextIInv, PTL DEF Spec

\* Whatever fails, a batch leaves a first part of itself on the data topic, each
\* message once and in order, and all of it when the answer is true
\* (insert_message and insert_batch).
THEOREM BatchIsPrefixHolds == Spec => []BatchIsPrefix
<1>1. IInv => BatchIsPrefix
  <2> SUFFICES ASSUME IInv, NEW r \in Inserts
               PROVE  LET batch == [i \in DOMAIN Batch[r] |-> <<r, Batch[r][i]>>]
                      IN  IsPrefix(Sent(r), batch) /\ (insert[r].state = "true" => Sent(r) = batch)
    BY DEF BatchIsPrefix, Sent
  <2> DEFINE n == Len(Batch[r])
  <2>1. n \in Nat /\ [i \in DOMAIN Batch[r] |-> <<r, Batch[r][i]>>] = Part(r, n)
    BY BatchTypes DEF Part
  <2>2. PICK k \in 0..n : Sent(r) = Part(r, k)
    BY DEF IInv, InsertInv
  <2>3. /\ Part(r, k) \in Seq(Items) /\ Len(Part(r, k)) = k
        /\ Part(r, n) \in Seq(Items) /\ Len(Part(r, n)) = n
    BY <2>1, PartSteps
  <2>4. SubSeq(Part(r, k), 1, k) = SubSeq(Part(r, n), 1, k)
    <3>1. \A i \in 1..k : i \in 1..n /\ Part(r, k)[i] = Part(r, n)[i] /\ Part(r, n)[i] \in Items
      BY <2>1, <2>3 DEF Part
    <3> HIDE DEF n
    <3> QED  BY <2>1, <2>3, <3>1, SubSeqProperties, SeqEqual
  <2>5. IsPrefix(Sent(r), Part(r, n))
    BY <2>1, <2>2, <2>3, <2>4 DEF IsPrefix
  <2>6. insert[r].state = "true" => Sent(r) = Part(r, n)
    BY DEF IInv, InsertInv
  <2> QED  BY <2>1, <2>5, <2>6
<1> QED  BY <1>1, InitIInv, NextIInv, PTL DEF Spec

\* However many clients ask for the reports at the same time, the process creates
\* one consumer (Context::subscribe_on_message_queue).
THEOREM OneConsumerHolds == Spec => []OneConsumer
<1>1. IInv => OneConsumer
  BY DEF IInv, ConsumerInv, OneConsumer
<1> QED  BY <1>1, InitIInv, NextIInv, PTL DEF Spec

\* Whatever the capacity of the channel, a client is shown a segment of the
\* reports, without a hole, a repetition or a change of order (EventStream).
THEOREM NoGapsHolds == Spec => []NoGaps
<1>1. IInv => NoGaps
  BY DEF IInv, StreamInv, Segment, NoGaps
<1> QED  BY <1>1, InitIInv, NextIInv, PTL DEF Spec

\* The client that creates the consumer is shown the topic from its first report
\* (EventSubscriber::new).
THEOREM CreatorSeesAllHolds == Spec => []CreatorSeesAll
<1>1. IInv => CreatorSeesAll
  BY DEF IInv, StreamInv, CreatorSeesAll
<1> QED  BY <1>1, InitIInv, NextIInv, PTL DEF Spec
==============================================================================
