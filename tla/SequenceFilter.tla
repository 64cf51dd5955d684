---------------------------- MODULE SequenceFilter ---------------------------
(***************************************************************************)
(* The entries of a sequence that belong to a set, in their order: what    *)
(* SelectSeq returns for the test "is in the set".  SelectSeq takes an     *)
(* operator and the proof system cannot open its definition, so what the   *)
(* proofs are about is written with this recursive function.               *)
(***************************************************************************)
EXTENDS Integers, Sequences

OnlyIn(s, S) ==
    LET kept[n \in 0..Len(s)] ==
          IF n = 0 THEN <<>>
          ELSE IF s[n] \in S THEN Append(kept[n - 1], s[n]) ELSE kept[n - 1]
    IN  kept[Len(s)]
==============================================================================
