---------------------------- MODULE QueryRouter ----------------------------
(***************************************************************************)
(* The query router (query-router/src) in front of a document repository   *)
(* and a time series repository.  A request looks up the query address and *)
(* the type of its schema in an LRU cache; a miss asks the schema registry *)
(* for one and then for the other, with the cache unlocked and the         *)
(* registry free to change in between, and keeps the pair for as long as   *)
(* it is not evicted.  The request then calls the query service at that    *)
(* address.                                                                *)
(*                                                                         *)
(* The document repository is the module Repository, so requests run       *)
(* beside inserts and shrinkers.  The time series repositories             *)
(* (query-service-ts/src) hold a fixed set of points.                      *)
(***************************************************************************)
EXTENDS Repository, Sequences, SequencesExt, SequenceFilter

CONSTANTS
  Clients,        \* requests the router handles at a time
  Calls,          \* the requests clients make: op, schema, objects, body
  Metadata,       \* schema -> the address and type it is created with
  NewMetadata,    \* schema -> the address and type of its update
  Backend,        \* address -> "postgres", "victoria" or "druid"
  Points,         \* the time series points: their object and schema
  CacheCapacity   \* CACHE_CAPACITY

Kinds == {"DocumentStorage", "Timeseries"}
Bodies == {"range", "raw", "empty"}
Addresses == DOMAIN Backend
RoutedSchemas == DOMAIN Metadata
Pairs == [address : Addresses, type : Kinds]

ASSUME CacheAssumption == CacheCapacity \in Nat \ {0}

\* A request names a schema the registry knows.
ASSUME CallsAssumption ==
  \A call \in Calls : /\ call.op \in {"single", "multiple", "schema", "raw"}
                      /\ call.schema \in RoutedSchemas /\ call.body \in Bodies

\* A schema is created with the address of a service of its kind.
ASSUME MetadataAssumption ==
  /\ Metadata \in [RoutedSchemas -> Pairs] /\ NewMetadata \in [RoutedSchemas -> Pairs]
  /\ \A s \in RoutedSchemas :
       Metadata[s].type = "DocumentStorage" <=> Backend[Metadata[s].address] = "postgres"

VARIABLES
  metadata,   \* what the registry answers for each schema
  updating,   \* schemas whose address is already new and whose type is not
  cache,      \* the LRU cache, least recently used first
  client      \* the request each client has in hand, or its answer

routerVars == <<metadata, updating, cache, client>>
vars == <<repositoryVars, routerVars>>

\* The newest rows when the request came in, by their keys (history).
Labels(rows) == {[object |-> r.object, version |-> r.version, schema |-> r.schema] : r \in rows}
Heads == Labels({Newest(table, r.object) : r \in table})

\* Answers: documents (their payloads are left out), or what happened instead.
Documents(rows) == [status |-> "documents", rows |-> Labels(rows)]
Reply(status) == [status |-> status, rows |-> {}]

NoCall == [pc |-> "idle", call |-> None, address |-> "none", type |-> "none",
           reply |-> Reply("none"), heads |-> {}]

-----------------------------------------------------------------------------
(* The schema registry: an update of a schema's metadata writes the address *)
(* and the type in two operations (schema-registry/src/rpc.rs).             *)

UpdateAddress(s) ==
  /\ metadata[s] = Metadata[s]
  /\ s \notin updating
  /\ metadata' = [metadata EXCEPT ![s].address = NewMetadata[s].address]
  /\ updating' = updating \cup {s}
  /\ UNCHANGED <<cache, client, repositoryVars>>

UpdateType(s) ==
  /\ s \in updating
  /\ metadata' = [metadata EXCEPT ![s].type = NewMetadata[s].type]
  /\ updating' = updating \ {s}
  /\ UNCHANGED <<cache, client, repositoryVars>>

-----------------------------------------------------------------------------
(* SchemaRegistryCache::get_schema_info *)

Hit(s) == \E i \in DOMAIN cache : cache[i].schema = s
Entry(s) == CHOOSE e \in ToSet(cache) : e.schema = s
CacheWithout(s) == OnlyIn(cache, {e \in ToSet(cache) : e.schema # s})

\* LruCache::insert
InsertEntry(entry) ==
  LET entries == Append(CacheWithout(entry.schema), entry)
  IN  IF Len(entries) > CacheCapacity THEN Tail(entries) ELSE entries

\* The request arrives and looks into the cache; get_mut makes an entry that
\* is found the most recently used one.
Arrive(c) ==
  /\ client[c].pc = "idle"
  /\ \E call \in Calls :
       LET s == call.schema
       IN  /\ client' = [client EXCEPT
                ![c] = [pc |-> IF Hit(s) THEN "query" ELSE "address", call |-> call,
                        address |-> IF Hit(s) THEN Entry(s).address ELSE "none",
                        type |-> IF Hit(s) THEN Entry(s).type ELSE "none",
                        reply |-> Reply("none"), heads |-> Heads]]
           /\ cache' = IF Hit(s) THEN Append(CacheWithout(s), Entry(s)) ELSE cache
  /\ UNCHANGED <<metadata, updating, repositoryVars>>

\* connect and get_schema_query_address
FetchAddress(c) ==
  /\ client[c].pc = "address"
  /\ client' = [client EXCEPT ![c].pc = "type",
                              ![c].address = metadata[client[c].call.schema].address]
  /\ UNCHANGED <<metadata, updating, cache, repositoryVars>>

\* get_schema_type, then the pair goes into the cache
FetchType(c) ==
  LET s == client[c].call.schema
  IN  /\ client[c].pc = "type"
      /\ client' = [client EXCEPT ![c].pc = "query", ![c].type = metadata[s].type]
      /\ cache' = InsertEntry([schema |-> s, address |-> client[c].address,
                               type |-> metadata[s].type])
      /\ UNCHANGED <<metadata, updating, repositoryVars>>

\* Any call to the registry or to a query service fails: Error::ClientError.
CallFails(c) ==
  /\ client[c].pc # "idle"
  /\ client' = [client EXCEPT ![c] = [NoCall EXCEPT !.reply = Reply("failed")]]
  /\ UNCHANGED <<metadata, updating, cache, repositoryVars>>

-----------------------------------------------------------------------------
(* The requests of the GraphQL API (api/src/schema/query.rs): `object` always *)
(* sends the empty body.                                                    *)

ApiObject(object, schema) ==
  [op |-> "single", schema |-> schema, objects |-> {object}, body |-> "empty"]
ApiObjects(objects, schema) ==
  [op |-> "multiple", schema |-> schema, objects |-> objects, body |-> "empty"]
ApiSchemaObjects(schema) ==
  [op |-> "schema", schema |-> schema, objects |-> {}, body |-> "empty"]

-----------------------------------------------------------------------------
(* The handlers, with the pair of get_schema_info in hand *)

\* The clients of rpc::query_service and rpc::query_service_ts.  A service of
\* the other kind does not know the method: tonic answers Unimplemented and
\* the client function returns a QueryError.
AskDocuments(address, answer) ==
  IF Backend[address] = "postgres" THEN answer ELSE Reply("refused")
AskSeries(address, answer) ==
  IF Backend[address] # "postgres" THEN answer ELSE Reply("refused")

NonEmpty(rows) == IF rows = {} THEN Reply("missing") ELSE Documents(rows)

\* query_by_range: Victoria Metrics selects by object alone.
VictoriaRange(objects) == {p \in Points : p.object \in objects}
DruidRange(objects, schema) == {p \in Points : p.object \in objects /\ p.schema = schema}

SeriesByRange(call, address) ==
  AskSeries(address, [status |-> "timeseries",
                      rows |-> IF Backend[address] = "victoria"
                               THEN VictoriaRange(call.objects)
                               ELSE DruidRange(call.objects, call.schema)])

SeriesBySchema(call, address) ==
  AskSeries(address, [status |-> "timeseries",
                      rows |-> {p \in Points : p.schema = call.schema}])

\* Mutant: the body is looked at before the type.
SingleByBody(call, address, type) ==
  CASE call.body = "range" -> SeriesByRange(call, address)
    [] call.body = "raw" -> Reply("wrong format")
    [] OTHER -> AskDocuments(address, NonEmpty(QueryMultiple(table, call.objects)))

\* query_single: documents whatever the body is.
QuerySingle(call, address, type) ==
  CASE type = "DocumentStorage" ->
         AskDocuments(address, NonEmpty(QueryMultiple(table, call.objects)))
    [] type = "Timeseries" /\ call.body = "range" -> SeriesByRange(call, address)
    [] type = "Timeseries" /\ call.body = "empty" -> Reply("missing")
    [] type = "Timeseries" /\ call.body = "raw" -> Reply("wrong format")

\* query_multiple: the type of the schema is not looked at.
QueryObjects(call, address, type) ==
  AskDocuments(address, Documents(QueryMultiple(table, call.objects)))

QuerySchema(call, address, type) ==
  IF type = "DocumentStorage"
  THEN AskDocuments(address, Documents(QueryBySchema(table, call.schema)))
  ELSE SeriesBySchema(call, address)

\* query_raw: the statement goes through as it is, and so does its result.
QueryRaw(call, address, type) ==
  CASE call.body = "raw" -> IF type = "DocumentStorage"
                            THEN AskDocuments(address, Reply("raw result"))
                            ELSE AskSeries(address, Reply("raw result"))
    [] call.body = "empty" -> Reply("missing")
    [] call.body = "range" -> Reply("wrong format")

Handle(call, address, type) ==
  CASE call.op = "single"   -> QuerySingle(call, address, type)
    [] call.op = "multiple" -> QueryObjects(call, address, type)
    [] call.op = "schema"   -> QuerySchema(call, address, type)
    [] call.op = "raw"      -> QueryRaw(call, address, type)

Answer(c) ==
  /\ client[c].pc = "query"
  /\ client' = [client EXCEPT ![c].pc = "idle", ![c].address = "none",
                  ![c].reply = Handle(client[c].call, client[c].address, client[c].type)]
  /\ UNCHANGED <<metadata, updating, cache, repositoryVars>>

-----------------------------------------------------------------------------
Init ==
  /\ RepositoryInit
  /\ metadata = Metadata
  /\ updating = {}
  /\ cache = << >>
  /\ client = [c \in Clients |-> NoCall]

RouterNext ==
  \/ \E s \in RoutedSchemas : UpdateAddress(s) \/ UpdateType(s)
  \/ \E c \in Clients : \/ Arrive(c) \/ FetchAddress(c) \/ FetchType(c)
                        \/ Answer(c) \/ CallFails(c)

Next == (RepositoryNext /\ UNCHANGED routerVars) \/ RouterNext

Spec == Init /\ [][Next]_vars

-----------------------------------------------------------------------------
(* Properties *)

Statuses == {"none", "documents", "failed", "refused", "missing", "wrong format",
             "timeseries", "raw result"}

\* Every variable has its type, the primary key of the table is unique, and
\* the cache holds at most CacheCapacity schemas, each of them once.
TypeOK ==
  /\ \A r, q \in table : Key(r) = Key(q) => r = q
  /\ {Key(r) : r \in table} \subseteq {Key(m) : m \in stored}
  /\ stored \subseteq Messages
  /\ \A s \in Shrinkers : shrinker[s].pc \in {"idle", "next", "write"}
                          /\ shrinker[s].ids \subseteq ObjectIds
  /\ metadata \in [RoutedSchemas -> Pairs]
  /\ updating \subseteq RoutedSchemas
  /\ Len(cache) <= CacheCapacity
  /\ \A i, j \in DOMAIN cache : cache[i].schema = cache[j].schema => i = j
  /\ \A c \in Clients : /\ client[c].pc \in {"idle", "address", "type", "query"}
                        /\ client[c].reply.status \in Statuses
                        /\ client[c].reply.rows \subseteq Labels(stored) \cup Points

\* Shrinking loses nothing: as long as no row of an object came below a
\* version that a shrinker had already read, the rows that are left merge to
\* what all the versions ever stored say together.
MergedIsComplete ==
  \A o \in ObjectIds \ late :
    RowsOf(table, o) # {} =>
      MergeOf(MinimizeDocument(GetAllWithId(o)), Documented(RowsOf(stored, o)))

\* A version that was the newest of its object is deleted only in favour of
\* a newer one, late rows and overlapping shrinkers included.
NewestStays ==
  [][\A r \in table : \E q \in table' :
       q.object = r.object /\ (r = Newest(table, r.object) => q.version >= r.version)]_vars

\* An answer is right.  It holds nothing but what was asked for, the objects of
\* the request or the objects and points of its schema (a range query may show
\* points of the object in other schemas: Victoria Metrics is asked by object
\* alone).  Its documents are not older than the request: none is outdated by
\* one that was there before, of whatever schema, and every object that was
\* there is among them, unless a newer version has moved it to another schema.
AnswersAreRight ==
  \A c \in Clients :
    LET call == client[c].call
        reply == client[c].reply
        found(h) == \E r \in reply.rows : r.object = h.object
        moved(h) == \E m \in stored : /\ m.object = h.object /\ m.version > h.version
                                      /\ m.schema # h.schema
        answered == \/ reply.status = "documents"
                    \/ /\ reply.status = "missing" /\ call.op = "single"
                       /\ client[c].type = "DocumentStorage"
    IN  /\ \A r \in reply.rows : IF call.op = "schema" THEN r.schema = call.schema
                                                       ELSE r.object \in call.objects
        /\ answered =>
             \A h \in client[c].heads :
               /\ \A r \in reply.rows : r.object = h.object => r.version >= h.version
               /\ IF call.op = "schema" THEN h.schema = call.schema => found(h) \/ moved(h)
                                        ELSE h.object \in call.objects => found(h)

\* A request reaches a service of the wrong kind only when the metadata of
\* its schema was changed (the cached pair may then be out of date, or mix
\* the old address with the new type), or when it asks for several objects of
\* a time series schema, which query_multiple does not look at.
RefusedForAReason ==
  \A c \in Clients :
    client[c].reply.status = "refused" =>
      LET call == client[c].call
      IN  \/ metadata[call.schema] # Metadata[call.schema]
          \/ call.op = "multiple" /\ client[c].type = "Timeseries"
=============================================================================
