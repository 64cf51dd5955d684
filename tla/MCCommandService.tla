--------------------------- MODULE MCCommandService --------------------------
(***************************************************************************)
(* Instances of CommandService for TLC, with an ordered and an unordered   *)
(* topic: every plugin on a queue and over gRPC, with reports and without. *)
(***************************************************************************)
EXTENDS CommandService

Row(object, version) == [object |-> object, version |-> version, points |-> NotSeries]
Series(object, version, n) == [object |-> object, version |-> version, points |-> n]
Reporting(plugin, limit, log) ==
    [input |-> "queue", plugin |-> plugin, limit |-> limit, report |-> TRUE, log |-> log]
Silent(input, plugin, limit, log) ==
    [input |-> input, plugin |-> plugin, limit |-> limit, report |-> FALSE, log |-> log]

\* Two messages with one primary key (one object, one millisecond) next to a
\* malformed message, and next to a series of two points.
MixedLog == [ordered |-> <<Row("x", 1), Row("x", 1)>>, unordered |-> <<Malformed>>]
CleanLog == [ordered |-> <<Row("x", 1), Row("x", 1)>>, unordered |-> <<Series("y", 1, 2)>>]

MCServices ==
    {Reporting("postgres", 2, MixedLog), Reporting("postgres", 2, CleanLog),
     Reporting("victoria", 2, CleanLog), Reporting("druid", 1, CleanLog),
     Silent("queue", "postgres", 2, MixedLog),
     Silent("grpc", "postgres", 1, MixedLog), Silent("grpc", "druid", 1, CleanLog),
     Silent("grpc", "victoria", 1, CleanLog)}
==============================================================================
