-------------------------- MODULE ParallelTaskQueue --------------------------
(***************************************************************************)
(* ParallelTaskQueue of crates/utils (parallel_task_queue.rs): one permit  *)
(* per key, handed to the tasks that ask for it in the order they asked.   *)
(*                                                                         *)
(* A waiting task is represented in its key's LockQueue by the Sender of a *)
(* oneshot channel.  Here the queue holds the task itself, or Dropped once *)
(* the task has gone and the Receiver with it.  Each action is one section *)
(* under the mutex of the map, or the await that follows it.               *)
(***************************************************************************)
EXTENDS Integers, Sequences, SequencesExt, SequenceFilter

CONSTANTS Tasks, Keys,
          Dropped,            \* a Sender whose Receiver is gone
          MaxQueue            \* bound on the Senders queued for one key

ASSUME ConstantsAssumption ==
    /\ Dropped \notin Tasks
    /\ MaxQueue \in Nat

VARIABLES locks,   \* LocksDB; a key without an entry is NoEntry
          pc,      \* where a task is in acquire_permit
          key,     \* the key a task asked for last
          lost     \* history: keys whose permit went with a dropped task

vars == <<locks, pc, key, lost>>

LockQueues == [present : BOOLEAN, is_blocked : BOOLEAN, queue : Seq(Tasks \cup {Dropped})]

NoEntry == [present |-> FALSE, is_blocked |-> FALSE, queue |-> <<>>]

\* The permit is this task's: its Sender has sent, or it has the LockGuard.
Granted(t) == pc[t] \in {"granted", "holding"}

Init ==
    /\ locks = [k \in Keys |-> NoEntry]
    /\ pc = [t \in Tasks |-> "idle"]
    /\ key \in [Tasks -> Keys]
    /\ lost = {}

------------------------------------------------------------------------------
\* acquire_permit up to the await: entry(key).or_insert, then add_task, which
\* queues the Sender of a blocked key and sends at once otherwise.
AcquireBargingIn(t, k) ==    \* bug: is_blocked is not looked at
    /\ pc[t] = "idle"
    /\ Len(locks[k].queue) < MaxQueue
    /\ key' = [key EXCEPT ![t] = k]
    /\ UNCHANGED lost
    /\ pc' = [pc EXCEPT ![t] = "granted"]
    /\ locks' = [locks EXCEPT ![k].present = TRUE, ![k].is_blocked = TRUE]
AcquirePushFront(t, k) ==    \* bug: push_front makes the queue a stack
    /\ pc[t] = "idle"
    /\ Len(locks[k].queue) < MaxQueue
    /\ key' = [key EXCEPT ![t] = k]
    /\ UNCHANGED lost
    /\ IF locks[k].is_blocked
         THEN /\ locks' = [locks EXCEPT ![k].queue = <<t>> \o @]
              /\ pc' = [pc EXCEPT ![t] = "waiting"]
         ELSE /\ locks' = [locks EXCEPT ![k].present = TRUE, ![k].is_blocked = TRUE]
              /\ pc' = [pc EXCEPT ![t] = "granted"]
Acquire(t, k) ==
    /\ pc[t] = "idle"
    /\ Len(locks[k].queue) < MaxQueue
    /\ key' = [key EXCEPT ![t] = k]
    /\ UNCHANGED lost
    /\ \/ /\ locks[k].is_blocked
          /\ locks' = [locks EXCEPT ![k].queue = Append(@, t)]
          /\ pc' = [pc EXCEPT ![t] = "waiting"]
       \/ /\ ~ locks[k].is_blocked
          /\ locks' = [locks EXCEPT ![k].present = TRUE, ![k].is_blocked = TRUE]
          /\ pc' = [pc EXCEPT ![t] = "granted"]

\* receiver.await returns and the LockGuard is built.
Resume(t) ==
    /\ pc[t] = "granted"
    /\ pc' = [pc EXCEPT ![t] = "holding"]
    /\ UNCHANGED <<locks, key, lost>>

\* The Senders in q whose Receiver still waits: send() succeeds on the first.
Alive(q) == {i \in 1..Len(q) : q[i] # Dropped}

\* LockQueue::end_task for key k, whose holder t is done: pop Senders until one
\* can be sent to, or unblock the key.  LockGuard::drop then removes the entry
\* of a key that is not blocked.
EndTaskOnce(t, k) ==         \* bug: a failed send() does not go on to the next
    LET q == locks[k].queue IN
    IF q = <<>>
      THEN /\ locks' = [locks EXCEPT ![k] = NoEntry]
           /\ pc' = [pc EXCEPT ![t] = "idle"]
      ELSE /\ locks' = [locks EXCEPT ![k].queue = Tail(@)]
           /\ pc' = [u \in Tasks |-> IF u = t THEN "idle"
                                     ELSE IF u = Head(q) THEN "granted" ELSE pc[u]]
EndTaskRemoves(t, k) ==      \* bug: the entry is removed whether blocked or not
    LET q == locks[k].queue IN
    IF Alive(q) = {}
      THEN /\ locks' = [locks EXCEPT ![k] = NoEntry]
           /\ pc' = [pc EXCEPT ![t] = "idle"]
      ELSE LET i == Min(Alive(q)) IN
           /\ locks' = [locks EXCEPT ![k].queue = SubSeq(@, i + 1, Len(@)), ![k].present = FALSE]
           /\ pc' = [pc EXCEPT ![t] = "idle", ![q[i]] = "granted"]
EndTask(t, k) ==
    LET q == locks[k].queue IN
    \/ /\ Alive(q) = {}
       /\ locks' = [locks EXCEPT ![k] = NoEntry]
       /\ pc' = [pc EXCEPT ![t] = "idle"]
    \/ /\ Alive(q) # {}
       /\ LET i == Min(Alive(q)) IN
          /\ locks' = [locks EXCEPT ![k].queue = SubSeq(@, i + 1, Len(@))]
          /\ pc' = [pc EXCEPT ![t] = "idle", ![q[i]] = "granted"]

\* LockGuard::drop; without an entry its expect() would panic.
Release(t) ==
    /\ pc[t] = "holding"
    /\ locks[key[t]].present
    /\ EndTask(t, key[t])
    /\ UNCHANGED <<key, lost>>

\* The future of acquire_permit is dropped while it waits: the Receiver goes,
\* the Sender stays in the queue.
CancelWaiting(t) ==
    /\ pc[t] = "waiting"
    /\ pc' = [pc EXCEPT ![t] = "idle"]
    /\ locks' = [locks EXCEPT ![key[t]].queue =
                    [i \in DOMAIN @ |-> IF @[i] = t THEN Dropped ELSE @[i]]]
    /\ UNCHANGED <<key, lost>>

\* The future is dropped after send() and before its poll: there is no
\* LockGuard yet, so nothing runs end_task.
CancelGranted(t) ==
    /\ pc[t] = "granted"
    /\ pc' = [pc EXCEPT ![t] = "idle"]
    /\ lost' = lost \cup {key[t]}
    /\ UNCHANGED <<locks, key>>

Next == \E t \in Tasks :
    \/ \E k \in Keys : Acquire(t, k)
    \/ Resume(t) \/ Release(t) \/ CancelWaiting(t) \/ CancelGranted(t)

\* The runtime polls a task that was woken, and a critical section ends.
Spec == Init /\ [][Next]_vars
LiveSpec == Spec /\ \A t \in Tasks : WF_vars(Resume(t)) /\ WF_vars(Release(t))

------------------------------------------------------------------------------
\* The types of the variables ...
VarTypes ==
    /\ locks \in [Keys -> LockQueues]
    /\ pc \in [Tasks -> {"idle", "waiting", "granted", "holding"}]
    /\ key \in [Tasks -> Keys]
    /\ lost \subseteq Keys

\* ... and of the map: a key without an entry has nothing else either, so the
\* entry that or_insert makes is the one LockGuard::drop left behind.
TypeOK == VarTypes /\ \A k \in Keys : ~ locks[k].present => locks[k] = NoEntry

\* Two tasks never have the permit of one key, not even between the send() of
\* end_task and the moment the woken task runs.
MutualExclusion ==
    \A t, u \in Tasks : Granted(t) /\ Granted(u) /\ key[t] = key[u] => t = u

\* No waiter is forgotten: its Sender is in the queue of its key and some task
\* has that key's permit, whose LockGuard::drop will look at the queue.  Only
\* the task dropped between send() and its poll takes the permit with it.
NoLostWaiter ==
    \A t \in Tasks : pc[t] = "waiting" =>
        /\ \E i \in 1..Len(locks[key[t]].queue) : locks[key[t]].queue[i] = t
        /\ key[t] \in lost \/ \E u \in Tasks : Granted(u) /\ key[u] = key[t]

\* The map holds entries of keys in use and of keys whose permit was lost, and a
\* LockGuard finds its entry: the expect("LockGuard already dropped") never
\* fires and keys do not pile up.
EntriesInUse ==
    \A k \in Keys :
        locks[k].present <=> k \in lost \/ \E t \in Tasks : Granted(t) /\ key[t] = k

\* ParallelTaskQueue implements OrderedPermits: one line per key, served first
\* come first, by one task at a time, and the first in line gets in.  A lost
\* permit closes the line of its own key and of no other.
Line(k) ==
    SetToSeq({t \in Tasks : Granted(t) /\ key[t] = k})
        \o OnlyIn(locks[k].queue, Tasks)
Abstract == INSTANCE OrderedPermits WITH
    line <- [k \in Keys |-> Line(k)],
    inside <- {t \in Tasks : pc[t] = "holding"},
    closed <- lost
ImplementsOrderedPermits == Abstract!Spec

\* A task that waits for a permit is served or goes away by itself, also when
\* others are dropped ("receiver dropped, start next task", end_task), unless
\* the permit of its key was lost.
WaitersProceed ==
    \A t \in Tasks : pc[t] = "waiting" ~> (pc[t] # "waiting" \/ key[t] \in lost)
==============================================================================
