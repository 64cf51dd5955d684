----------------------------- MODULE Repository -----------------------------
(***************************************************************************)
(* The table `data` of the Postgres document repository and the programs   *)
(* that work on it: the command service inserts rows                       *)
(* (command-service/src/output/psql/mod.rs), the shrinker replaces the     *)
(* versions of an object by their merge (db-shrinker-postgres/src/main.rs) *)
(* and the query service reads (query-service/src/psql.rs).                *)
(*                                                                         *)
(* Every statement is atomic, and so is the transaction of the shrinker:   *)
(* under READ COMMITTED a row inserted while it runs is as good as one     *)
(* inserted after it.  The shrinker is started by an external scheduler,   *)
(* so several of them may overlap.                                         *)
(***************************************************************************)
EXTENDS Integers, FiniteSets, FiniteSetsExt

CONSTANTS
  Messages,        \* the messages for the repository, each one a row
  Shrinkers,       \* processes of the shrinker that may run at a time
  Merge(_, _),     \* merge of the shrinker, older document first
  MergeOf(_, _)    \* is the first what the second, document by version, says?

\* The columns of the table; version is a BIGINT.
IsRow(r) == r = [object |-> r.object, version |-> r.version, schema |-> r.schema,
                 payload |-> r.payload]

ASSUME MessagesAssumption == \A m \in Messages : IsRow(m) /\ m.version \in Int

ObjectIds == {m.object : m \in Messages}
Schemas == {m.schema : m \in Messages}
Versions == {m.version : m \in Messages}
None == [none |-> TRUE]

VARIABLES
  table,       \* the rows
  shrinker,    \* what each shrinker does: its ids and the object in hand
  stored,      \* history: every row ever inserted
  folded,      \* history: the greatest version of an object a shrinker read
  late         \* history: objects with a row that came below that version

repositoryVars == <<table, shrinker, stored, folded, late>>

Key(row) == <<row.object, row.version>>
RowsOf(rows, o) == {r \in rows : r.object = o}
NewestIn(rows) == CHOOSE r \in rows : \A q \in rows : q.version <= r.version
Newest(rows, o) == NewestIn(RowsOf(rows, o))

Idle == [pc |-> "idle", ids |-> {}, object |-> "none", version |-> 0,
         document |-> None]
Working(ids) == [Idle EXCEPT !.pc = "next", !.ids = ids]

-----------------------------------------------------------------------------
(* The command service. *)

\* INSERT fails on an equal primary key and changes nothing then.  A message
\* that is delivered again after its row was shrunk away is inserted again.
Insert(row) ==
  /\ Key(row) \notin {Key(r) : r \in table}
  /\ table' = table \cup {row}
  /\ stored' = stored \cup {row}
  /\ late' = IF row.version < folded[row.object] THEN late \cup {row.object} ELSE late
  /\ UNCHANGED <<shrinker, folded>>

-----------------------------------------------------------------------------
(* The shrinker. *)

\* SELECT object_id ... HAVING count(*) > 1
ChangedIds == {o \in ObjectIds : Cardinality(RowsOf(table, o)) > 1}

SelectIds(s) ==
  /\ shrinker[s].pc = "idle"
  /\ ChangedIds # {}
  /\ shrinker' = [shrinker EXCEPT ![s] = Working(ChangedIds)]
  /\ UNCHANGED <<table, stored, folded, late>>

\* SELECT version, payload ... ORDER BY version ASC.  A set of rows stands for
\* the result: its order is that of the versions.
GetAllWithId(o) == RowsOf(table, o)

\* fold_first: the oldest document, the next one merged into it, and so on.
MinimizeDocument(rows) ==
  LET doc[R \in SUBSET rows] ==
        IF Cardinality(R) <= 1 THEN NewestIn(R).payload
        ELSE Merge(doc[R \ {NewestIn(R)}], NewestIn(R).payload)
  IN  doc[rows]

\* The payload of every version.
Documented(rows) == [v \in {r.version : r \in rows} |->
                       (CHOOSE r \in rows : r.version = v).payload]

\* What merge is for: documents of an object, merged from the oldest to the
\* newest, make what they say together.
ASSUME MergeAssumption ==
  \A rows \in SUBSET Messages :
    /\ rows # {} /\ IsFiniteSet(rows)
    /\ \A r, q \in rows : r.object = q.object /\ (r.version = q.version => r = q)
    => MergeOf(MinimizeDocument(rows), Documented(rows))

\* shrink_by_id up to its transaction.  The branch for an id without rows
\* cannot be taken: nobody deletes the newest row of an object (NewestStays).
ReadRows(s) ==
  /\ shrinker[s].pc = "next"
  /\ \E o \in shrinker[s].ids :
       LET rows == GetAllWithId(o)
           version == NewestIn(rows).version
       IN  /\ rows # {}
           /\ shrinker' = [shrinker EXCEPT
                 ![s] = [pc |-> "write", ids |-> @.ids \ {o}, object |-> o,
                         version |-> version, document |-> MinimizeDocument(rows)]]
           /\ folded' = [folded EXCEPT ![o] = Max({@, version})]
  /\ UNCHANGED <<table, stored, late>>

\* The end of main, when every id is done.
Finish(s) ==
  /\ shrinker[s].pc = "next"
  /\ shrinker[s].ids = {}
  /\ shrinker' = [shrinker EXCEPT ![s] = Idle]
  /\ UNCHANGED <<table, stored, folded, late>>

\* Mutant: version <= $2 in the DELETE.
ShrunkToNothing(rows, o, version, document) ==
  {q \in rows : q.object = o => q.version > version}

\* Mutant: all but the newest row is deleted, and that one is updated.
ShrunkToOne(rows, o, version, document) ==
  {IF r.object = o THEN [r EXCEPT !.payload = document] ELSE r :
     r \in {q \in rows : q.object = o => q = Newest(rows, o)}}

\* DELETE ... version < $2 and UPDATE ... version = $3
Shrunk(rows, o, version, document) ==
  {IF Key(r) = <<o, version>> THEN [r EXCEPT !.payload = document] ELSE r :
     r \in {q \in rows : q.object = o => q.version >= version}}

Transaction(s) ==
  /\ shrinker[s].pc = "write"
  /\ LET w == shrinker[s]
     IN  /\ table' = Shrunk(table, w.object, w.version, w.document)
         /\ shrinker' = [shrinker EXCEPT ![s] = Working(w.ids)]
  /\ UNCHANGED <<stored, folded, late>>

\* A statement fails (connection lost, deadlock detected): the transaction
\* is rolled back and `?` ends the process with the remaining ids undone.
Fail(s) ==
  /\ shrinker[s].pc # "idle"
  /\ shrinker' = [shrinker EXCEPT ![s] = Idle]
  /\ UNCHANGED <<table, stored, folded, late>>

-----------------------------------------------------------------------------
(* The query service: one statement per request. *)

QueryMultiple(rows, ids) == {Newest(rows, r.object) : r \in {q \in rows : q.object \in ids}}

\* Mutant: the newest version within the schema.
QueryWithinSchema(rows, schema) ==
  {r \in rows : /\ r.schema = schema
                /\ \A q \in RowsOf(rows, r.object) :
                     q.schema = schema => q.version <= r.version}

QueryBySchema(rows, schema) ==
  {r \in rows : /\ r.schema = schema
                /\ \A q \in RowsOf(rows, r.object) : q.version <= r.version}

-----------------------------------------------------------------------------
RepositoryInit ==
  /\ table = {}
  /\ shrinker = [s \in Shrinkers |-> Idle]
  /\ stored = {}
  /\ folded = [o \in ObjectIds |-> 0]
  /\ late = {}

ShrinkerStep(s) == SelectIds(s) \/ ReadRows(s) \/ Transaction(s) \/ Finish(s)

RepositoryNext ==
  \/ \E row \in Messages : Insert(row)
  \/ \E s \in Shrinkers : ShrinkerStep(s) \/ Fail(s)
=============================================================================
