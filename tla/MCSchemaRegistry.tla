--------------------------- MODULE MCSchemaRegistry --------------------------
(***************************************************************************)
(* Instances of SchemaRegistry for TLC: a schema s0 with view v0 in the    *)
(* import file, a second schema and a second view.                         *)
(***************************************************************************)
EXTENDS SchemaRegistry, TLC

CONSTANTS s0, s1, v0, v1

\* A schema that refers to the imported one, new versions, updates of metadata
\* with a valid and an invalid type, a view for either schema, a view update, and
\* the readers.
AllRequests ==
    {[op |-> "add_schema", id |-> s1, refs |-> {s0}],
     [op |-> "add_version", id |-> s0, version |-> 2, refs |-> {s1}],
     [op |-> "add_version", id |-> s1, version |-> 2, refs |-> {}],
     [op |-> "update_schema", id |-> s0, fields |-> <<"TOPIC_NAME">>,
      valid |-> TRUE, readBack |-> TRUE],
     [op |-> "update_schema", id |-> s1, fields |-> <<"NAME">>, valid |-> FALSE, readBack |-> FALSE],
     [op |-> "add_view", id |-> v1, schema |-> s0],
     [op |-> "add_view", id |-> v1, schema |-> s1],
     [op |-> "update_view", id |-> v1, fields |-> <<"VIEW_NAME", "JMESPATH">>,
      readBack |-> TRUE],
     [op |-> "definitions", id |-> s0], [op |-> "schemas"], [op |-> "views", id |-> s0],
     [op |-> "lookup", id |-> s1, fields |-> <<"QUERY_ADDRESS", "SCHEMA_TYPE">>]}

\* Two versions of one schema.
VersionRequests ==
    {[op |-> "add_version", id |-> s0, version |-> 2, refs |-> {}],
     [op |-> "add_version", id |-> s0, version |-> 3, refs |-> {}]}

Symmetry == Permutations(Calls)
==============================================================================
