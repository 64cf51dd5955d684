---------------------------- MODULE MCGraphqlApi ----------------------------
(* A batch of four messages whose last one cannot be read, a single        *)
(* message, and two clients on a channel that holds one report.             *)
EXTENDS GraphqlApi, TLC

MCBatch == "batch" :> <<"m1", "m2", "m3", "bad">> @@ "single" :> <<"m4">>
=============================================================================
