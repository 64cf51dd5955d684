----------------------------- MODULE MCDataRouter ----------------------------
(***************************************************************************)
(* Instances of DataRouter for TLC: a batch over two schemas, a malformed  *)
(* message and a single message, the outer two in one order group.         *)
(***************************************************************************)
EXTENDS DataRouter, TLC

CONSTANTS s1, s2, a, b, g

MCPayload == 0 :> <<s1, s2>> @@ 1 :> Garbage @@ 2 :> <<s1>>
MCGroup == 0 :> g @@ 1 :> NoGroup @@ 2 :> g
MCTopic == s1 :> a @@ s2 :> b

\* Two single messages of one group.
PairPayload == 0 :> <<s1>> @@ 1 :> <<s1>>
PairGroup == 0 :> g @@ 1 :> g
==============================================================================
