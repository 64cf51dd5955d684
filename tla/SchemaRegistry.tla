---------------------------- MODULE SchemaRegistry ---------------------------
(***************************************************************************)
(* The schema registry (crates/schema-registry): the graph of schemas,     *)
(* definitions and views that SchemaDb keeps in sled, the gRPC handlers    *)
(* that change and read it, and the export and import at the start of the  *)
(* process.  The resolvers of the GraphQL API that forward to these        *)
(* handlers (api/src/schema) are calls too: some of them make several      *)
(* requests in a row.                                                      *)
(*                                                                         *)
(* A handler is a sequence of operations on the graph.  Handlers run in    *)
(* parallel, sled makes a single operation atomic and nothing more, so     *)
(* between any two operations of a handler others may run, the store may   *)
(* return an error, or the process may die.  Program(c) lists the          *)
(* operations of call c and at[c] is the next one.                         *)
(*                                                                         *)
(* A version 1.0.0, 2.0.0, ... is a number; the value of a property is the *)
(* call that wrote it.  The instance has ReplicationRole::None, in which   *)
(* replicate_message returns at once.                                      *)
(***************************************************************************)
EXTENDS Integers, Sequences, SequencesExt

CONSTANTS Calls,         \* gRPC calls
          Requests,      \* what a call may ask for
          Schemas, Views,
          Import,        \* the import_all at the start of the process
          ImportSchema,  \* the schema in the import file
          ImportView,    \* and its view
          NoValue,       \* a property that is not set
          MaxCrashes     \* bound on deaths of the process

Callers == Calls \cup {Import}

\* The definition vertex a call creates; create_vertex_from_type makes a new id.
Definition(c) == <<"definition", c>>
Definitions == {Definition(c) : c \in Callers}
Ids == Schemas \cup Views \cup Definitions

\* Vertex::into_properties, in the order they are written.
PropertiesForgotten ==     \* bug: a schema is written without its type
    [SCHEMA |-> <<"NAME", "TOPIC_NAME", "QUERY_ADDRESS">>,
     DEFINITION |-> <<"DEFINITION">>,
     VIEW |-> <<"VIEW_NAME", "JMESPATH">>]
Properties ==
    [SCHEMA |-> <<"NAME", "TOPIC_NAME", "QUERY_ADDRESS", "SCHEMA_TYPE">>,
     DEFINITION |-> <<"DEFINITION">>,
     VIEW |-> <<"VIEW_NAME", "JMESPATH">>]

\* What Vertex::from_properties asks of a vertex it reads.
Required ==
    [SCHEMA |-> {"NAME", "TOPIC_NAME", "QUERY_ADDRESS", "SCHEMA_TYPE"},
     DEFINITION |-> {"DEFINITION"},
     VIEW |-> {"VIEW_NAME", "JMESPATH"}]
Types == DOMAIN Required
Names == UNION {Required[t] : t \in Types}

ASSUME ConstantsAssumption ==
    /\ Import \notin Calls /\ NoValue \notin Callers
    /\ ImportSchema \in Schemas /\ ImportView \in Views
    /\ Definitions \cap (Schemas \cup Views) = {}
    /\ \A r \in Requests :
         \/ r.op = "add_schema" /\ r.id \in Schemas /\ r.refs \subseteq Schemas
         \/ r.op = "add_version" /\ r.id \in Schemas /\ r.refs \subseteq Schemas
            /\ r.version \in Nat \ {0}
         \/ r.op = "update_schema" /\ r.id \in Schemas /\ r.valid \in BOOLEAN
            /\ r.readBack \in BOOLEAN /\ r.fields \in Seq(Required["SCHEMA"])
         \/ r.op = "add_view" /\ r.id \in Views /\ r.schema \in Schemas
         \/ r.op = "update_view" /\ r.id \in Views /\ r.readBack \in BOOLEAN
            /\ r.fields \in Seq(Required["VIEW"])
         \/ r.op \in {"definitions", "views"} /\ r.id \in Schemas
         \/ r.op = "lookup" /\ r.id \in Schemas /\ r.fields \in Seq(Required["SCHEMA"])
         \/ r.op = "schemas"
    /\ MaxCrashes \in Nat

VARIABLES vertex,    \* vertex[id]: the type of the vertex, or "none"
          property,  \* property[id][name]: its writer, or NoValue
          edges,     \* SCHEMA_DEFINITION edges; version 0 is not set yet
          viewEdges, \* SCHEMA_VIEW edges, from schema to view
          request,   \* request[c], once c has started
          at,        \* the next operation of c
          listed,    \* versions the resolver of `definitions' has yet to read
          answer,    \* what became of c
          crashes

graph == <<vertex, property, edges, viewEdges>>
vars == <<graph, request, at, listed, answer, crashes>>

NoRequest == [op |-> "none"]
ImportRequest == [op |-> "import"]
Answers == {"none", "running", "ok", "error", "malformed", "skipped"}

Init ==
    /\ vertex = [id \in Ids |-> "none"]
    /\ property = [id \in Ids |-> [name \in Names |-> NoValue]]
    /\ edges = {} /\ viewEdges = {}
    /\ request = [c \in Callers |-> IF c = Import THEN ImportRequest ELSE NoRequest]
    /\ at = [c \in Callers |-> 1]
    /\ listed = [c \in Callers |-> {}]
    /\ answer = [c \in Callers |-> IF c = Import THEN "running" ELSE "none"]
    /\ crashes = 0

------------------------------------------------------------------------------
(* What readers see. *)

\* get_schema_versions: edges without the property VERSION are not found.
Versions(s) == {e \in edges : e.from = s /\ e.version # 0}

\* get_latest_valid_schema_version, for any version.
Latest(s) == {e \in Versions(s) : \A f \in Versions(s) : f.version <= e.version}

\* get_schema_definition succeeds: the latest version has its definition.
HasDefinition(s) ==
    Latest(s) # {} /\ \A e \in Latest(s) : property[e.to]["DEFINITION"] # NoValue

\* get_schema and get_view succeed: the vertex has all of its properties.
Complete(id, t) == vertex[id] = t /\ \A name \in Required[t] : property[id][name] # NoValue

------------------------------------------------------------------------------
(* The operations of each call, in order. *)

Exists(id) == [do |-> "exists", id |-> id]
Set(id, name) == [do |-> "set", id |-> id, name |-> name]
Build(refs) == [do |-> "build", refs |-> refs]
Topic == [do |-> "topic"]

\* create_vertex_with_properties.
Create(id, t) ==
    <<[do |-> "create", id |-> id, t |-> t]>>
        \o [i \in 1..Len(Properties[t]) |-> Set(id, Properties[t][i])]

\* The edge from a schema to a definition, then its property (set_edge_properties).
DefinitionEdge(s, d, version) ==
    <<[do |-> "edge", from |-> s, to |-> d],
      [do |-> "version", from |-> s, to |-> d, version |-> version]>>

\* A new definition and the edge to it.
EdgeFirst(c, s, version) ==       \* bug: the edge is written before the definition
    DefinitionEdge(s, Definition(c), version) \o Create(Definition(c), "DEFINITION")
AddDefinition(c, s, version) ==
    Create(Definition(c), "DEFINITION") \o DefinitionEdge(s, Definition(c), version)

AddSchema(c, r) ==
    <<Topic, Build(r.refs)>> \o Create(r.id, "SCHEMA") \o AddDefinition(c, r.id, 1)

AddSchemaVersion(c, r) ==
    <<Exists(r.id), [do |-> "newest", id |-> r.id, version |-> r.version], Build(r.refs)>>
        \o AddDefinition(c, r.id, r.version)

\* The topic is checked first, the schema type last, after the rest is written.
UpdateSchemaMetadata(r) ==
    (IF "TOPIC_NAME" \in Range(r.fields) THEN <<Topic>> ELSE <<>>)
        \o FlattenSeq([i \in 1..Len(r.fields) |-> <<Exists(r.id), Set(r.id, r.fields[i])>>])
        \o (IF r.valid THEN <<>> ELSE <<[do |-> "fail"]>>)
\* The API answers an update with what it then reads.
ReadSchema(r) == IF r.readBack THEN <<[do |-> "schema", id |-> r.id]>> ELSE <<>>

ViewEdge(s, v) == <<[do |-> "viewEdge", from |-> s, to |-> v]>>
ViewEdgeFirst(r) ==               \* bug: the edge is written before the view
    <<Exists(r.schema)>> \o ViewEdge(r.schema, r.id) \o Create(r.id, "VIEW")
AddViewToSchema(r) == <<Exists(r.schema)>> \o Create(r.id, "VIEW") \o ViewEdge(r.schema, r.id)

UpdateView(r) ==
    <<[do |-> "view", id |-> r.id]>> \o [i \in 1..Len(r.fields) |-> Set(r.id, r.fields[i])]
ReadView(r) == IF r.readBack THEN <<[do |-> "view", id |-> r.id]>> ELSE <<>>

\* The resolver of Schema.definitions: the versions, then one get_schema for
\* each of them.
GetDefinitions(r) == <<[do |-> "versions", id |-> r.id], [do |-> "definitions", id |-> r.id]>>
\* get_all_schemas and get_all_views_of_schema
GetSchemas == <<[do |-> "schemas"]>>
GetViews(r) == <<Exists(r.id), [do |-> "views", id |-> r.id]>>
\* get_schema_topic, _query_address and _type, as the routers call them.
Lookup(r) == [i \in 1..Len(r.fields) |-> [do |-> "get", id |-> r.id, name |-> r.fields[i]]]

\* The start of main: export_all if there is an export directory, then
\* import_all of a file with one schema, its definition and its view.
ImportAll ==
    <<[do |-> "export"], [do |-> "empty"]>>
        \o Create(ImportSchema, "SCHEMA")
        \o Create(Definition(Import), "DEFINITION")
        \o Create(ImportView, "VIEW")
        \o DefinitionEdge(ImportSchema, Definition(Import), 1)
        \o ViewEdge(ImportSchema, ImportView)

Operations(c, r) ==
    CASE r.op = "add_schema" -> AddSchema(c, r)
      [] r.op = "add_version" -> AddSchemaVersion(c, r)
      [] r.op = "update_schema" -> UpdateSchemaMetadata(r) \o ReadSchema(r)
      [] r.op = "add_view" -> AddViewToSchema(r)
      [] r.op = "update_view" -> UpdateView(r) \o ReadView(r)
      [] r.op = "definitions" -> GetDefinitions(r)
      [] r.op = "views" -> GetViews(r)
      [] r.op = "lookup" -> Lookup(r)
      [] r.op = "schemas" -> GetSchemas
      [] r.op = "import" -> ImportAll
      [] r.op = "none" -> <<>>

Programs == [c \in Callers |-> [r \in Requests \cup {NoRequest, ImportRequest} |-> Operations(c, r)]]
Program(c) == Programs[c][request[c]]

------------------------------------------------------------------------------
(* The steps. *)

\* The process serves calls after the import.
Serving == answer[Import] \in {"ok", "skipped"}

Start(c, r) ==
    /\ Serving /\ answer[c] = "none"
    /\ request' = [request EXCEPT ![c] = r]
    /\ answer' = [answer EXCEPT ![c] = "running"]
    /\ UNCHANGED <<graph, at, listed, crashes>>

\* The next operation of c is an operation of this kind.
Doing(c, kind) ==
    answer[c] = "running" /\ at[c] <= Len(Program(c)) /\ Program(c)[at[c]].do = kind
Operation(c) == Program(c)[at[c]]
Advance(c) == at' = [at EXCEPT ![c] = @ + 1] /\ UNCHANGED <<request, answer, crashes>>
Proceed(c) == Advance(c) /\ UNCHANGED listed
Finish(c, result) ==
    /\ answer' = [answer EXCEPT ![c] = result]
    /\ at' = [at EXCEPT ![c] = 1]
    /\ listed' = [listed EXCEPT ![c] = {}]
    /\ UNCHANGED <<graph, request, crashes>>

\* A check, which lets c go on or ends it with an error.
CheckOr(c, kind, condition, result) ==
    /\ Doing(c, kind)
    /\ \/ condition /\ Proceed(c) /\ UNCHANGED graph
       \/ ~ condition /\ Finish(c, result)
Check(c, kind, condition) == CheckOr(c, kind, condition, "error")

\* topic_or_exchange_exists, to which the broker may say either.
CheckTopic(c) == \E exists \in BOOLEAN : Check(c, "topic", exists)

\* ensure_schema_exists, which looks for a vertex of any type.
EnsureSchemaExists(c) == Check(c, "exists", vertex[Operation(c).id] # "none")

\* add_new_version_of_schema: the new version must be the greatest.
CheckVersion(c) ==
    Check(c, "newest",
          \A e \in Versions(Operation(c).id) : e.version < Operation(c).version)

\* build_full_schema takes in the latest definition of each schema referred to.
BuildFullSchema(c) == Check(c, "build", \A s \in Operation(c).refs : HasDefinition(s))

\* update_view reads the old view first (and then validates the new expression,
\* as add_view_to_schema does; a refusal there is one of StoreFails).
GetView(c) == Check(c, "view", Complete(Operation(c).id, "VIEW"))

\* get_schema, for the answer to an update.
GetSchema(c) == Check(c, "schema", Complete(Operation(c).id, "SCHEMA"))

\* get_schema_topic and its like: a schema without the property does not exist.
GetProperty(c) == Check(c, "get", property[Operation(c).id][Operation(c).name] # NoValue)

\* get_all_schemas: one vertex that lacks a property makes the whole list fail.
WholeVertices(t) == \A id \in Ids : vertex[id] = t => Complete(id, t)
GetAllSchemas(c) == CheckOr(c, "schemas", WholeVertices("SCHEMA"), "malformed")

\* get_all_views_of_schema: the vertices at the end of the schema's edges.
GetAllViewsOfSchema(c) ==
    CheckOr(c, "views",
            \A e \in viewEdges : e[1] = Operation(c).id => Complete(e[2], "VIEW"), "malformed")

\* export_all, in a process that serves no calls yet; or no directory is given.
ExportAll(c) ==
    /\ Doing(c, "export")
    /\ \/ Proceed(c) /\ UNCHANGED graph
       \/ /\ ~ (\A t \in Types : WholeVertices(t)) \/ \E e \in edges : e.version = 0
          /\ Finish(c, "error")

\* get_schema_versions, for the resolver of `definitions'.
GetSchemaVersions(c) ==
    /\ Doing(c, "versions")
    /\ listed' = [listed EXCEPT ![c] = {e.version : e \in Versions(Operation(c).id)}]
    /\ Advance(c) /\ UNCHANGED graph

\* get_schema of one of them, "=version".  Its two reads, of the edges and of the
\* definition, may be one step: versions are only added (VersionsAreFixed).
GetSchemaDefinition(c) ==
    /\ Doing(c, "definitions")
    /\ \/ \E v \in listed[c] :
            LET found == {e \in Versions(Operation(c).id) : e.version = v}
            IN  \/ /\ found # {} /\ \A e \in found : Complete(e.to, "DEFINITION")
                   /\ listed' = [listed EXCEPT ![c] = @ \ {v}]
                   /\ UNCHANGED <<graph, request, at, answer, crashes>>
                \/ /\ found = {} \/ \E e \in found : ~ Complete(e.to, "DEFINITION")
                   /\ Finish(c, "malformed")
       \/ listed[c] = {} /\ Proceed(c) /\ UNCHANGED graph

\* SchemaType::from_i32 of a number that is no type.
RejectType(c) == Check(c, "fail", FALSE)

\* create_vertex of an id that is taken is an error (DuplicatedUuid).
CreateVertexAgain(c) ==        \* bug: the result `inserted' is not looked at
    /\ Doing(c, "create")
    /\ vertex' = [vertex EXCEPT ![Operation(c).id] = Operation(c).t]
    /\ Proceed(c)
    /\ UNCHANGED <<property, edges, viewEdges>>
CreateVertex(c) ==
    /\ Doing(c, "create")
    /\ \/ /\ vertex[Operation(c).id] = "none"
          /\ vertex' = [vertex EXCEPT ![Operation(c).id] = Operation(c).t]
          /\ Proceed(c)
          /\ UNCHANGED <<property, edges, viewEdges>>
       \/ vertex[Operation(c).id] # "none" /\ Finish(c, "error")

SetVertexProperty(c) ==
    /\ Doing(c, "set")
    /\ property' = [property EXCEPT ![Operation(c).id][Operation(c).name] = c]
    /\ Proceed(c)
    /\ UNCHANGED <<vertex, edges, viewEdges>>

CreateEdgeReversed(c) ==       \* bug: outbound and inbound swapped
    /\ Doing(c, "edge")
    /\ edges' = edges \cup {[from |-> Operation(c).to, to |-> Operation(c).from, version |-> 0]}
    /\ Proceed(c)
    /\ UNCHANGED <<vertex, property, viewEdges>>
CreateEdge(c) ==
    /\ Doing(c, "edge")
    /\ edges' = edges \cup {[from |-> Operation(c).from, to |-> Operation(c).to, version |-> 0]}
    /\ Proceed(c)
    /\ UNCHANGED <<vertex, property, viewEdges>>

SetVersionOfAll(c) ==          \* bug: the query selects every edge of the schema
    /\ Doing(c, "version")
    /\ edges' = {IF e.from = Operation(c).from
                   THEN [e EXCEPT !.version = Operation(c).version] ELSE e : e \in edges}
    /\ Proceed(c)
    /\ UNCHANGED <<vertex, property, viewEdges>>
SetVersion(c) ==
    /\ Doing(c, "version")
    /\ edges' = {IF e.from = Operation(c).from /\ e.to = Operation(c).to
                   THEN [e EXCEPT !.version = Operation(c).version] ELSE e : e \in edges}
    /\ Proceed(c)
    /\ UNCHANGED <<vertex, property, viewEdges>>

CreateViewEdge(c) ==
    /\ Doing(c, "viewEdge")
    /\ viewEdges' = viewEdges \cup {<<Operation(c).from, Operation(c).to>>}
    /\ Proceed(c)
    /\ UNCHANGED <<vertex, property, edges>>

\* import_all looks for names of schemas, and skips the import if it finds one.
CheckEmpty(c) ==
    /\ Doing(c, "empty")
    /\ IF \E s \in Schemas : vertex[s] = "SCHEMA" /\ property[s]["NAME"] # NoValue
         THEN Finish(c, "skipped")
         ELSE Proceed(c) /\ UNCHANGED graph

\* The handler returns.
Answer(c) ==
    /\ answer[c] = "running" /\ at[c] > Len(Program(c))
    /\ Finish(c, "ok")

\* An operation returns an error, which `?' hands to the caller; what was
\* written before stays.
StoreFails(c) ==
    /\ answer[c] = "running" /\ at[c] <= Len(Program(c))
    /\ Finish(c, "error")

\* The process dies, or main returns because the import failed; a new process
\* starts with the import on the same store.
Crash ==
    /\ crashes < MaxCrashes
    /\ crashes' = crashes + 1
    /\ answer' = [c \in Callers |-> IF c = Import THEN "running"
                                    ELSE IF answer[c] = "running" THEN "error" ELSE answer[c]]
    /\ at' = [c \in Callers |-> 1]
    /\ listed' = [c \in Callers |-> {}]
    /\ UNCHANGED <<graph, request>>

Read(c) ==
    \/ CheckTopic(c) \/ EnsureSchemaExists(c) \/ CheckVersion(c) \/ BuildFullSchema(c)
    \/ GetView(c) \/ RejectType(c) \/ CheckEmpty(c)
    \/ GetSchema(c) \/ GetProperty(c) \/ GetAllSchemas(c) \/ GetAllViewsOfSchema(c)
    \/ GetSchemaVersions(c) \/ GetSchemaDefinition(c) \/ ExportAll(c)
Write(c) ==
    \/ CreateVertex(c) \/ SetVertexProperty(c) \/ CreateEdge(c) \/ SetVersion(c)
    \/ CreateViewEdge(c)

Next ==
    \/ \E c \in Calls, r \in Requests : Start(c, r)
    \/ \E c \in Callers : Read(c) \/ Write(c) \/ Answer(c) \/ StoreFails(c)
    \/ Crash

Spec == Init /\ [][Next]_vars

------------------------------------------------------------------------------
\* The types of the variables.
TypeOK ==
    /\ vertex \in [Ids -> Types \cup {"none"}]
    /\ property \in [Ids -> [Names -> Callers \cup {NoValue}]]
    /\ edges \subseteq [from : Schemas, to : Definitions, version : Nat]
    /\ viewEdges \subseteq Schemas \X Views
    /\ request \in [Callers -> Requests \cup {NoRequest, ImportRequest}]
    /\ at \in [Callers -> Nat \ {0}]
    /\ listed \in [Callers -> SUBSET (Nat \ {0})]
    /\ answer \in [Callers -> Answers]
    /\ crashes \in 0 .. MaxCrashes

HasVersion(s, version) ==
    \E e \in Versions(s) : e.version = version /\ Complete(e.to, "DEFINITION")

\* What a call did when it was answered with success can be read from then on,
\* whatever other calls wrote, failed to write or left half written when the
\* process died (add_schema, add_new_version_of_schema, add_view_to_schema,
\* import_all).
AnsweredIsThere ==
    \A c \in Callers : answer[c] = "ok" =>
        LET r == request[c] IN
        /\ r.op = "add_schema" => Complete(r.id, "SCHEMA") /\ HasVersion(r.id, 1)
        /\ r.op = "add_version" => HasVersion(r.id, r.version)
        /\ r.op = "add_view" => Complete(r.id, "VIEW") /\ <<r.schema, r.id>> \in viewEdges
        /\ r.op = "import" =>
              /\ Complete(ImportSchema, "SCHEMA") /\ HasVersion(ImportSchema, 1)
              /\ Complete(ImportView, "VIEW") /\ <<ImportSchema, ImportView>> \in viewEdges

\* A reader that finds a version finds its definition, in the middle of a call
\* and after a crash too: the definition is written before the edge, the edge
\* before its version (set_edge_properties, get_schema_definition).
VersionsReadable ==
    \A e \in edges : e.version # 0 => Complete(e.to, "DEFINITION")

\* "The definition ... is assigned the semantic version 1.0.0, and cannot be
\* updated after creation" (crates/schema-registry/README.md): a version once
\* seen keeps its number and its definition.
VersionsAreFixed ==
    [][ \A s \in Schemas : \A e \in Versions(s) :
          e \in edges' /\ property'[e.to] = property[e.to] ]_vars

\* "On creation, a view is assigned to a schema and cannot be assigned to a
\* different one" (crates/schema-registry/README.md), also when two calls ask
\* for one id (create_vertex_with_properties).
ViewHasOneSchema ==
    \A e, f \in viewEdges : e[2] = f[2] => e[1] = f[1]

\* The vertex was to be created by a call that was cut or refused, or is not done.
Interrupted(id) ==
    \/ \E c \in Calls : request[c].op = "add_schema" /\ request[c].id = id
                       /\ answer[c] \in {"running", "error"}
    \/ id = ImportSchema /\ crashes > 0

\* A query that lists what is there comes through while other calls write: every
\* version that was listed can be read, the views at the end of a schema's edges
\* are whole, and the list of schemas fails only if some schema's creation was
\* interrupted or is not done (get_schema_versions and get_schema of the API's `definitions',
\* get_all_views_of_schema, get_all_schemas).
ReadersFindWhole ==
    [][ \A c \in Calls : answer[c] = "running" /\ answer'[c] = "malformed" =>
          request[c].op = "schemas" /\ \E id \in Schemas : Interrupted(id) ]_vars

\* "... a new semantic version strictly larger than any other existing version
\* assigned to that schema" (crates/schema-registry/README.md).
VersionsGrow ==
    [][ \A s \in Schemas : \A e \in Versions(s)' \ Versions(s) :
          \A f \in Versions(s) : f.version < e.version ]_vars
==============================================================================
