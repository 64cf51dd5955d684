--------------------------- MODULE MCReplication ---------------------------
(* Two instances and a topic on which an update and a version have overtaken *)
(* the addition of their schema; a client writes to the same schema.         *)
EXTENDS Replication

Event(kind) == [kind |-> kind, version |-> 0]
Version(n) == [kind |-> "AddSchemaVersion", version |-> n]

MCEvents == <<Event("UpdateSchemaMetadata"), Version(2), Event("AddSchema"), Version(3),
              Event("UpdateSchemaMetadata")>>
MCRequests == {Event("UpdateSchemaMetadata")}
=============================================================================
