---------------------------- MODULE OrderedPermits ---------------------------
(***************************************************************************)
(* What ParallelTaskQueue promises: the tasks that ask for the permit of a *)
(* key stand in one line per key, only the first of a line is inside, and  *)
(* the first of a line gets inside.  Keys do not wait for one another.  A  *)
(* task that vanishes on the threshold closes the line of its key.         *)
(***************************************************************************)
EXTENDS Naturals, Sequences, SequencesExt

CONSTANTS Tasks, Keys

VARIABLES line,      \* line[k]: who asked for k's permit, first come first
          inside,    \* the tasks that hold a permit
          closed     \* keys whose line is closed for good

vars == <<line, inside, closed>>

InLine(t, k) == t \in Range(line[k])

Init == line = [k \in Keys |-> <<>>] /\ inside = {} /\ closed = {}

Join(t, k) ==
    /\ \A l \in Keys : ~ InLine(t, l)
    /\ line' = [line EXCEPT ![k] = Append(@, t)]
    /\ UNCHANGED <<inside, closed>>

Enter(t) ==
    /\ t \notin inside
    /\ \E k \in Keys \ closed : line[k] # <<>> /\ Head(line[k]) = t
    /\ inside' = inside \cup {t}
    /\ UNCHANGED <<line, closed>>

Leave(t) ==
    /\ t \in inside
    /\ inside' = inside \ {t}
    /\ \E k \in Keys : line[k] # <<>> /\ Head(line[k]) = t
                       /\ line' = [line EXCEPT ![k] = Tail(@)]
    /\ UNCHANGED closed

\* A task that no longer wants the permit steps out of the line.
GiveUp(t) ==
    /\ t \notin inside
    /\ \E k \in Keys : InLine(t, k) /\ line' = [line EXCEPT ![k] = RemoveFirst(@, t)]
    /\ UNCHANGED <<inside, closed>>

\* The first in line, let in by the one who left, vanishes before it is inside.
Vanish(t) ==
    /\ t \notin inside
    /\ \E k \in Keys \ closed :
         /\ line[k] # <<>> /\ Head(line[k]) = t
         /\ line' = [line EXCEPT ![k] = Tail(@)]
         /\ closed' = closed \cup {k}
    /\ UNCHANGED inside

Next == \E t \in Tasks :
    Enter(t) \/ Leave(t) \/ GiveUp(t) \/ Vanish(t) \/ \E k \in Keys : Join(t, k)

Safety == Init /\ [][Next]_vars
Spec == Safety /\ \A t \in Tasks : WF_vars(Enter(t))
==============================================================================
