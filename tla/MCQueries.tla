----------------------------- MODULE MCQueries -----------------------------
(* Three versions of one object whose middle one replaces an object by a    *)
(* scalar, a second object in the other schema, and an update that turns    *)
(* the document schema into a time series schema.                           *)
EXTENDS QueryRouter, TLC

J == INSTANCE JsonMerge

MCMerge(a, b) == J!merge(a, b)
MCMergeOf(doc, docs) == J!IsMergeOf(doc, docs)

Doc(f) == J!Object(f)
Val(v) == J!Leaf(v)

MCMessages ==
  {[object |-> "x", version |-> 1, schema |-> "docs",
    payload |-> Doc("a" :> Doc("b" :> Val("1")) @@ "e" :> Doc("f" :> Val("7")))],
   [object |-> "x", version |-> 2, schema |-> "docs",
    payload |-> Doc("a" :> Val("5") @@ "d" :> Val("null"))],
   [object |-> "x", version |-> 3, schema |-> "more",
    payload |-> Doc("a" :> Doc("c" :> Val("2")) @@ "e" :> Doc("g" :> Val("8")))]}

\* The two schemas, and a range query sent for documents.
MCCalls ==
  {ApiObject("x", "docs"), ApiObjects({"x"}, "docs"), ApiObjects({"x"}, "ts"),
   ApiSchemaObjects("docs"), ApiSchemaObjects("ts"),
   [op |-> "single", schema |-> "docs", objects |-> {"x"}, body |-> "range"],
   [op |-> "raw", schema |-> "docs", objects |-> {}, body |-> "raw"]}

Pair(a, t) == [address |-> a, type |-> t]
MCMetadata == "docs" :> Pair("pg", "DocumentStorage") @@ "ts" :> Pair("druid", "Timeseries")
MCNewMetadata == "docs" :> Pair("vm", "Timeseries") @@ "ts" :> Pair("druid", "Timeseries")
MCBackend == "pg" :> "postgres" @@ "vm" :> "victoria" @@ "druid" :> "druid"
MCPoints == {[object |-> "x", schema |-> "ts"], [object |-> "x", schema |-> "docs"]}
ShrinkerSymmetry == Permutations(Shrinkers)
=============================================================================
