------------------------ MODULE SchemaRegistryProofs -------------------------
(***************************************************************************)
(* What the schema registry shows its readers, for every set of calls,     *)
(* requests, schemas and views, in whatever order the operations of the    *)
(* handlers run, fail and are cut by a crash.                              *)
(*                                                                         *)
(* The first part is about the programs alone: what each operation of a    *)
(* handler may count on, given the operations before it.                   *)
(***************************************************************************)
EXTENDS SchemaRegistry, SequenceLemmas

CreateOp(id, t) == [do |-> "create", id |-> id, t |-> t]
EdgeOp(s, d) == [do |-> "edge", from |-> s, to |-> d]
VersionOp(s, d, version) == [do |-> "version", from |-> s, to |-> d, version |-> version]
ViewEdgeOp(s, v) == [do |-> "viewEdge", from |-> s, to |-> v]

NoneOf(kind, ops) == \A op \in ops : op.do # kind

\* Operation op of request r is in its place after the operations in past: its
\* arguments are of the right kind, a definition is written only by the handler
\* that made its vertex and before the edge to it, an edge is written once and
\* after the vertex it leads to, and its version once and after the edge.
May(r, op, past) ==
    /\ op.do = "create" =>
         /\ op.id \in Ids /\ op.t \in Types
         /\ op.t = "SCHEMA" => \/ r.op = "add_schema" /\ op.id = r.id
                               \/ r.op = "import" /\ op.id = ImportSchema
    /\ op.do = "set" =>
         /\ op.id \in Ids /\ op.name \in Names
         /\ op.id \in Definitions => /\ CreateOp(op.id, "DEFINITION") \in past
                                     /\ NoneOf("edge", past)
    /\ op.do = "edge" =>
         /\ op.from \in Schemas /\ op.to \in Definitions
         /\ CreateOp(op.to, "DEFINITION") \in past /\ Set(op.to, "DEFINITION") \in past
         /\ NoneOf("edge", past) /\ NoneOf("version", past)
    /\ op.do = "version" =>
         /\ op.from \in Schemas /\ op.to \in Definitions /\ op.version \in Nat \ {0}
         /\ CreateOp(op.to, "DEFINITION") \in past /\ EdgeOp(op.from, op.to) \in past
         /\ NoneOf("version", past)
    /\ op.do = "viewEdge" =>
         /\ op.from \in Schemas /\ op.to \in Views
         /\ CreateOp(op.to, "VIEW") \in past
         /\ Set(op.to, "VIEW_NAME") \in past /\ Set(op.to, "JMESPATH") \in past
         /\ NoneOf("viewEdge", past)
    /\ op.do \in {"versions", "definitions"} => r.op = "definitions" /\ op.id = r.id
    /\ op.do = "schemas" => r.op = "schemas"
    /\ op.do = "empty" => r.op = "import" /\ NoneOf("create", past)

\* A piece of a program, after the operations in past.
Fine(r, p, past) ==
    /\ p \in Seq(Members(p))
    /\ \A k \in 1..Len(p) : May(r, p[k], past \cup Before(p, k))

\* What a handler that has come to its end has done.
Creates(ops, id, t) ==
    CreateOp(id, t) \in ops /\ \A name \in Required[t] : Set(id, name) \in ops
AddsVersion(ops, s, version) == \E d \in Definitions : VersionOp(s, d, version) \in ops
Achieves(r, ops) ==
    /\ r.op = "add_schema" => Creates(ops, r.id, "SCHEMA") /\ AddsVersion(ops, r.id, 1)
    /\ r.op = "add_version" => AddsVersion(ops, r.id, r.version)
    /\ r.op = "add_view" => Creates(ops, r.id, "VIEW") /\ ViewEdgeOp(r.schema, r.id) \in ops
    /\ r.op = "import" =>
         /\ Creates(ops, ImportSchema, "SCHEMA") /\ AddsVersion(ops, ImportSchema, 1)
         /\ Creates(ops, ImportView, "VIEW") /\ ViewEdgeOp(ImportSchema, ImportView) \in ops

------------------------------------------------------------------------------
\* Two pieces, one after the other.
LEMMA FineConcat ==
    ASSUME NEW r, NEW s, NEW t, NEW past, NEW more,
           Fine(r, s, past), Fine(r, t, more), more = past \cup Members(s)
    PROVE  Fine(r, s \o t, past)
<1> DEFINE u == s \o t
           m == Len(s)
           n == Len(t)
<1>1. /\ u \in Seq(Members(u)) /\ Members(u) = Members(s) \cup Members(t)
      /\ m \in Nat /\ n \in Nat /\ Len(u) = m + n
      /\ \A k \in 1..m : u[k] = s[k] /\ Before(u, k) = Before(s, k)
      /\ \A k \in 1..n : u[m + k] = t[k] /\ Before(u, m + k) = Members(s) \cup Before(t, k)
  BY ConcatEntries DEF Fine
<1> HIDE DEF u
<1>2. ASSUME NEW i \in 1..Len(u) PROVE May(r, u[i], past \cup Before(u, i))
  <2>1. CASE i <= m
    <3>1. i \in 1..m
      BY <1>1, <2>1
    <3> QED  BY <1>1, <3>1 DEF Fine
  <2>2. CASE i > m
    <3>1. PICK k \in 1..n : i = m + k
      <4>1. i - m \in 1..n /\ i = m + (i - m)
        BY <1>1, <2>2
      <4> QED  BY <4>1
    <3>2. May(r, t[k], (past \cup Members(s)) \cup Before(t, k))
      BY DEF Fine
    <3>3. (past \cup Members(s)) \cup Before(t, k) = past \cup Before(u, i)
      BY <1>1, <3>1
    <3> QED  BY <1>1, <3>1, <3>2, <3>3
  <2> QED  BY <1>1, <2>1, <2>2
<1> QED  BY <1>1, <1>2 DEF Fine, u

\* Together they do what each of them does.
LEMMA FineEntries ==
    ASSUME NEW r, NEW s, NEW t, NEW past, NEW more, Fine(r, s, past), Fine(r, t, more)
    PROVE  Members(s \o t) = Members(s) \cup Members(t)
BY ConcatEntries DEF Fine

\* A single operation.
LEMMA FineOne ==
    ASSUME NEW r, NEW op, NEW past, May(r, op, past)
    PROVE  Fine(r, <<op>>, past) /\ Members(<<op>>) = {op}
<1>1. <<op>> \in Seq({op}) /\ Len(<<op>>) = 1 /\ <<op>>[1] = op
  OBVIOUS
<1>2. \A k \in 1..1 : k = 1
  OBVIOUS
<1>3. Before(<<op>>, 1) = {}
  BY DEF Before
<1>4. Members(<<op>>) = {op}
  BY <1>1, <1>2 DEF Members
<1>5. past \cup {} = past
  OBVIOUS
<1> QED  BY <1>1, <1>2, <1>3, <1>4, <1>5 DEF Fine

\* Operations that are in place anywhere.
LEMMA FineAnywhere ==
    ASSUME NEW r, NEW S, NEW p \in Seq(S), NEW past,
           \A op \in S : \A ops : May(r, op, ops)
    PROVE  Fine(r, p, past) /\ Members(p) \subseteq S
<1>1. p \in Seq(Members(p)) /\ Members(p) \subseteq S
  BY SeqOfEntries
<1>2. \A k \in 1..Len(p) : p[k] \in S
  OBVIOUS
<1> QED  BY <1>1, <1>2 DEF Fine

\* The vertex and its properties.
LEMMA CreateFine ==
    ASSUME NEW r, NEW id \in Ids, NEW t \in Types, NEW past,
           t = "SCHEMA" => \/ r.op = "add_schema" /\ id = r.id
                           \/ r.op = "import" /\ id = ImportSchema,
           id \in Definitions => t = "DEFINITION" /\ NoneOf("edge", past)
    PROVE  /\ Fine(r, Create(id, t), past)
           /\ Members(Create(id, t)) = {CreateOp(id, t)} \cup {Set(id, name) : name \in Required[t]}
<1> DEFINE p == Properties[t]
           q == [i \in 1..Len(p) |-> Set(id, p[i])]
           first == <<CreateOp(id, t)>>
           pp == past \cup Members(first)
<1>6. Create(id, t) = first \o q
  BY Zenon DEF Create, CreateOp
<1>1. /\ p \in Seq(Required[t]) /\ Len(p) \in Nat /\ Required[t] \subseteq Names
      /\ \A name \in Required[t] : \E i \in 1..Len(p) : p[i] = name
  <2>0. t = "SCHEMA" \/ t = "DEFINITION" \/ t = "VIEW"
    BY DEF Types, Required
  <2>n. Required[t] \subseteq Names
    BY DEF Names
  <2>1. CASE t = "SCHEMA"
    <3>1. /\ p = <<"NAME", "TOPIC_NAME", "QUERY_ADDRESS", "SCHEMA_TYPE">>
          /\ Required[t] = {"NAME", "TOPIC_NAME", "QUERY_ADDRESS", "SCHEMA_TYPE"}
      BY <2>1 DEF Properties, Required
    <3>2. /\ p \in Seq(Required[t]) /\ Len(p) = 4 /\ p[1] = "NAME" /\ p[2] = "TOPIC_NAME"
          /\ p[3] = "QUERY_ADDRESS" /\ p[4] = "SCHEMA_TYPE"
      BY <3>1
    <3>3. 1 \in 1..4 /\ 2 \in 1..4 /\ 3 \in 1..4 /\ 4 \in 1..4
      OBVIOUS
    <3> HIDE DEF p
    <3> QED  BY <2>n, <3>1, <3>2, <3>3
  <2>2. CASE t = "DEFINITION"
    <3>1. p = <<"DEFINITION">> /\ Required[t] = {"DEFINITION"}
      BY <2>2 DEF Properties, Required
    <3>2. p \in Seq(Required[t]) /\ Len(p) = 1 /\ p[1] = "DEFINITION"
      BY <3>1
    <3>3. 1 \in 1..1
      OBVIOUS
    <3> HIDE DEF p
    <3> QED  BY <2>n, <3>1, <3>2, <3>3
  <2>3. CASE t = "VIEW"
    <3>1. p = <<"VIEW_NAME", "JMESPATH">> /\ Required[t] = {"VIEW_NAME", "JMESPATH"}
      BY <2>3 DEF Properties, Required
    <3>2. p \in Seq(Required[t]) /\ Len(p) = 2 /\ p[1] = "VIEW_NAME" /\ p[2] = "JMESPATH"
      BY <3>1
    <3>3. 1 \in 1..2 /\ 2 \in 1..2
      OBVIOUS
    <3> HIDE DEF p
    <3> QED  BY <2>n, <3>1, <3>2, <3>3
  <2> QED  BY <2>0, <2>1, <2>2, <2>3
<1>2. Fine(r, first, past) /\ Members(first) = {CreateOp(id, t)}
  <2>1. May(r, CreateOp(id, t), past)
    BY DEF May, CreateOp
  <2> QED  BY <2>1, FineOne
<1> DEFINE S == {Set(id, name) : name \in Required[t]}
<1> HIDE DEF p, first
<1>3. q \in Seq(S) /\ Len(q) = Len(p) /\ \A i \in 1..Len(p) : q[i] = Set(id, p[i])
  <2>1. \A i \in 1..Len(p) : p[i] \in Required[t]
    BY <1>1
  <2>2. q \in [1..Len(p) -> S]
    BY <2>1
  <2> HIDE DEF S
  <2>3. q \in Seq(S)
    BY <1>1, <2>2, SeqDef
  <2>4. Len(q) = Len(p)
    <3>1. DOMAIN q = 1..Len(p)
      OBVIOUS
    <3> HIDE DEF q
    <3> QED  BY <1>1, <2>3, <3>1, LenProperties
  <2> QED  BY <2>3, <2>4
<1> HIDE DEF q
<1>4. Members(q) = S
  <2>1. Members(q) \subseteq S
    BY <1>3, SeqOfEntries
  <2>2. ASSUME NEW x \in S PROVE x \in Members(q)
    <3>1. PICK name \in Required[t] : x = Set(id, name)
      OBVIOUS
    <3>2. PICK i \in 1..Len(p) : p[i] = name
      BY <1>1
    <3>3. q[i] = x /\ i \in 1..Len(q)
      BY <1>3, <3>1, <3>2
    <3> QED  BY <3>3 DEF Members
  <2> QED  BY <2>1, <2>2
<1>5. Fine(r, q, pp)
  <2>1. q \in Seq(Members(q))
    BY <1>3, SeqOfEntries
  <2>2. ASSUME NEW k \in 1..Len(q) PROVE May(r, q[k], pp \cup Before(q, k))
    <3>1. PICK name \in Required[t] : q[k] = Set(id, name)
      BY <1>3
    <3>2. name \in Names
      BY <1>1
    <3>3. Before(q, k) \subseteq S
      <4>1. \A j \in 1..(k - 1) : j \in 1..Len(q)
        BY <1>1, <1>3
      <4>2. \A j \in 1..Len(q) : q[j] \in S
        BY <1>3
      <4> QED  BY <4>1, <4>2 DEF Before
    <3>4. CreateOp(id, t) \in pp \cup Before(q, k)
      BY <1>2
    <3>5. NoneOf("edge", past) => NoneOf("edge", pp \cup Before(q, k))
      <4>1. \A op \in S : op.do = "set"
        BY DEF Set
      <4>2. CreateOp(id, t).do = "create"
        BY DEF CreateOp
      <4> HIDE DEF S
      <4> QED  BY <1>2, <3>3, <4>1, <4>2 DEF NoneOf
    <3> HIDE DEF S, pp
    <3> DEFINE op == Set(id, name)
    <3>6. op.do = "set" /\ op.id = id /\ op.name = name
      BY DEF Set
    <3> HIDE DEF op
    <3>7. May(r, op, pp \cup Before(q, k))
      BY <3>2, <3>4, <3>5, <3>6 DEF May
    <3> QED  BY <3>1, <3>7 DEF op
  <2> QED  BY <2>1, <2>2 DEF Fine
<1> HIDE DEF S
<1>7. Fine(r, first \o q, past) /\ Members(first \o q) = Members(first) \cup Members(q)
  <2>1. pp = past \cup Members(first)
    OBVIOUS
  <2> HIDE DEF pp
  <2>2. Fine(r, first, past)
    BY <1>2
  <2>3. Fine(r, q, pp)
    BY <1>5
  <2>4. Fine(r, first \o q, past)
    BY <2>1, <2>2, <2>3, FineConcat
  <2>5. Members(first \o q) = Members(first) \cup Members(q)
    BY <2>2, <2>3, FineEntries
  <2> QED  BY <2>4, <2>5
<1> QED  BY <1>2, <1>4, <1>6, <1>7 DEF S

\* Two operations.
LEMMA FineTwo ==
    ASSUME NEW r, NEW a, NEW b, NEW past, NEW more,
           May(r, a, past), May(r, b, more), more = past \cup {a}
    PROVE  Fine(r, <<a, b>>, past) /\ Members(<<a, b>>) = {a, b}
<1> DEFINE p == <<a, b>>
<1>1. p \in Seq({a, b}) /\ Len(p) = 2 /\ p[1] = a /\ p[2] = b
  OBVIOUS
<1> HIDE DEF p
<1>2. (\A k \in 1..2 : k = 1 \/ k = 2) /\ 1 \in 1..2 /\ 2 \in 1..2
  OBVIOUS
<1>3. Before(p, 1) = {} /\ Before(p, 2) = {a}
  <2>1. 1..(1 - 1) = {} /\ 1..(2 - 1) = {1}
    OBVIOUS
  <2> QED  BY <1>1, <2>1 DEF Before
<1>4. Members(p) = {a, b}
  BY <1>1, <1>2 DEF Members
<1>5. past \cup {} = past
  OBVIOUS
<1>6. \A k \in 1..Len(p) : May(r, p[k], past \cup Before(p, k))
  BY <1>1, <1>2, <1>3, <1>5
<1> QED  BY <1>1, <1>4, <1>6 DEF Fine, p

\* The edge to a definition that was just written, and its version.
LEMMA DefinitionEdgeFine ==
    ASSUME NEW r, NEW s \in Schemas, NEW d \in Definitions, NEW v \in Nat \ {0}, NEW past,
           CreateOp(d, "DEFINITION") \in past, Set(d, "DEFINITION") \in past,
           NoneOf("edge", past), NoneOf("version", past)
    PROVE  /\ Fine(r, DefinitionEdge(s, d, v), past)
           /\ Members(DefinitionEdge(s, d, v)) = {EdgeOp(s, d), VersionOp(s, d, v)}
<1> DEFINE a == EdgeOp(s, d)
           b == VersionOp(s, d, v)
           more == past \cup {a}
<1>1. DefinitionEdge(s, d, v) = <<a, b>>
  BY Zenon DEF DefinitionEdge, EdgeOp, VersionOp
<1>2. /\ a.do = "edge" /\ a.from = s /\ a.to = d
      /\ b.do = "version" /\ b.from = s /\ b.to = d /\ b.version = v
  BY DEF EdgeOp, VersionOp
<1>3. EdgeOp(s, d) = a
  OBVIOUS
<1> HIDE DEF a, b
<1>4. May(r, a, past)
  BY <1>2 DEF May
<1>5. /\ NoneOf("version", more) /\ CreateOp(d, "DEFINITION") \in more
      /\ EdgeOp(s, d) \in more
  BY <1>2, <1>3 DEF NoneOf
<1>6. more = past \cup {a}
  OBVIOUS
<1> HIDE DEF more
<1>7. May(r, b, more)
  BY <1>2, <1>5 DEF May
<1>8. Fine(r, <<a, b>>, past) /\ Members(<<a, b>>) = {a, b}
  BY <1>4, <1>6, <1>7, FineTwo
<1> QED  BY <1>1, <1>8 DEF a, b

\* A new definition and the edge to it.
LEMMA AddDefinitionFine ==
    ASSUME NEW r, NEW c \in Callers, NEW s \in Schemas, NEW v \in Nat \ {0}, NEW past,
           NoneOf("edge", past), NoneOf("version", past)
    PROVE  /\ Fine(r, AddDefinition(c, s, v), past)
           /\ VersionOp(s, Definition(c), v) \in Members(AddDefinition(c, s, v))
<1> DEFINE d == Definition(c)
           p == Create(d, "DEFINITION")
           q == DefinitionEdge(s, d, v)
           more == past \cup Members(p)
<1>0. d \in Definitions /\ d \in Ids
  BY DEF Definitions, Ids
<1>1. AddDefinition(c, s, v) = p \o q
  BY Zenon DEF AddDefinition
<1>t. "DEFINITION" \in Types /\ Required["DEFINITION"] = {"DEFINITION"} /\ "DEFINITION" # "SCHEMA"
  BY DEF Types, Required
<1> HIDE DEF d
<1>2. /\ Fine(r, p, past)
      /\ Members(p) = {CreateOp(d, "DEFINITION")} \cup
                        {Set(d, name) : name \in Required["DEFINITION"]}
  BY <1>0, <1>t, CreateFine
<1>3. Members(p) = {CreateOp(d, "DEFINITION"), Set(d, "DEFINITION")}
  BY <1>2, <1>t
<1> HIDE DEF p
<1>4. CreateOp(d, "DEFINITION").do = "create" /\ Set(d, "DEFINITION").do = "set"
  BY DEF CreateOp, Set
<1>5. /\ CreateOp(d, "DEFINITION") \in more /\ Set(d, "DEFINITION") \in more
      /\ NoneOf("edge", more) /\ NoneOf("version", more)
  BY <1>3, <1>4 DEF NoneOf
<1>6. more = past \cup Members(p)
  OBVIOUS
<1> HIDE DEF more
<1>7. Fine(r, q, more) /\ Members(q) = {EdgeOp(s, d), VersionOp(s, d, v)}
  BY <1>0, <1>5, DefinitionEdgeFine
<1> HIDE DEF q
<1>8. Fine(r, p \o q, past)
  BY <1>2, <1>6, <1>7, FineConcat
<1>9. Members(p \o q) = Members(p) \cup Members(q)
  BY <1>2, <1>7, FineEntries
<1> QED  BY <1>1, <1>7, <1>8, <1>9 DEF d

\* The edge to a view that was just written.
LEMMA ViewEdgeFine ==
    ASSUME NEW r, NEW s \in Schemas, NEW v \in Views, NEW past,
           CreateOp(v, "VIEW") \in past, Set(v, "VIEW_NAME") \in past,
           Set(v, "JMESPATH") \in past, NoneOf("viewEdge", past)
    PROVE  Fine(r, ViewEdge(s, v), past) /\ Members(ViewEdge(s, v)) = {ViewEdgeOp(s, v)}
<1> DEFINE a == ViewEdgeOp(s, v)
<1>1. ViewEdge(s, v) = <<a>>
  BY Zenon DEF ViewEdge, ViewEdgeOp
<1>2. a.do = "viewEdge" /\ a.from = s /\ a.to = v
  BY DEF ViewEdgeOp
<1> HIDE DEF a
<1>3. May(r, a, past)
  BY <1>2 DEF May
<1> QED  BY <1>1, <1>3, FineOne DEF a

\* Checks and reads without a place of their own.
Plain == {"topic", "build", "exists", "newest", "view", "schema", "get", "views", "fail", "export"}

\* A read or a check of this kind is in place anywhere.
LEMMA PlainMay ==
    ASSUME NEW r, NEW op, NEW past, op.do \in Plain
    PROVE  May(r, op, past)
BY DEF May, Plain

\* A program of nothing else.
LEMMA PlainFine ==
    ASSUME NEW r, NEW S, NEW p \in Seq(S), NEW past, \A op \in S : op.do \in Plain
    PROVE  /\ Fine(r, p, past) /\ Members(p) \subseteq S
           /\ \A kind : kind \notin Plain => NoneOf(kind, Members(p))
<1>1. \A op \in S : \A ops : May(r, op, ops)
  BY PlainMay
<1>2. Fine(r, p, past) /\ Members(p) \subseteq S
  BY <1>1, FineAnywhere
<1> QED  BY <1>2 DEF NoneOf

\* The operations of create_vertex_with_properties are of two kinds.
LEMMA CreateKinds ==
    ASSUME NEW id, NEW t, NEW ops,
           ops = {CreateOp(id, t)} \cup {Set(id, name) : name \in Required[t]}
    PROVE  /\ Creates(ops, id, t)
           /\ \A kind : kind \notin {"create", "set"} => NoneOf(kind, ops)
<1>1. CreateOp(id, t).do = "create" /\ \A name : Set(id, name).do = "set"
  BY DEF CreateOp, Set
<1> QED  BY <1>1 DEF Creates, NoneOf

\* add_schema.
LEMMA AddSchemaFine ==
    ASSUME NEW r, NEW c \in Callers, r.op = "add_schema", r.id \in Schemas
    PROVE  Fine(r, AddSchema(c, r), {}) /\ Achieves(r, Members(AddSchema(c, r)))
<1> DEFINE a == <<Topic, Build(r.refs)>>
           b == Create(r.id, "SCHEMA")
           d == AddDefinition(c, r.id, 1)
           A == Members(a)
           B == Members(b)
           AB == Members(a \o b)
<1>0. AddSchema(c, r) = (a \o b) \o d
  BY Zenon DEF AddSchema
<1>1. Fine(r, a, {}) /\ \A kind : kind \notin Plain => NoneOf(kind, A)
  <2> DEFINE S == {Topic, Build(r.refs)}
  <2>1. a \in Seq(S)
    OBVIOUS
  <2>2. \A op \in S : op.do \in Plain
    BY DEF Topic, Build, Plain
  <2> HIDE DEF a, S
  <2> QED  BY <2>1, <2>2, PlainFine
<1>2. /\ Fine(r, b, A) /\ Creates(B, r.id, "SCHEMA")
      /\ \A kind : kind \notin {"create", "set"} => NoneOf(kind, B)
  <2>0. r.id \in Ids /\ r.id \notin Definitions /\ "SCHEMA" \in Types
    BY ConstantsAssumption DEF Ids, Types, Required
  <2>1. /\ Fine(r, b, A)
        /\ B = {CreateOp(r.id, "SCHEMA")} \cup {Set(r.id, name) : name \in Required["SCHEMA"]}
    BY <2>0, CreateFine
  <2> QED  BY <2>1, CreateKinds
<1> HIDE DEF a, b
<1>3. Fine(r, a \o b, {})
  <2>1. A = {} \cup Members(a)
    OBVIOUS
  <2> HIDE DEF A
  <2> QED  BY <1>1, <1>2, <2>1, FineConcat
<1>4. AB = A \cup B
  BY <1>1, <1>2, FineEntries
<1> HIDE DEF A, B
<1>5. NoneOf("edge", AB) /\ NoneOf("version", AB)
  <2>1. NoneOf("edge", A) /\ NoneOf("version", A)
    BY <1>1 DEF Plain
  <2>2. NoneOf("edge", B) /\ NoneOf("version", B)
    BY <1>2
  <2> QED  BY <1>4, <2>1, <2>2 DEF NoneOf
<1>6. Fine(r, d, AB) /\ VersionOp(r.id, Definition(c), 1) \in Members(d)
  <2>1. 1 \in Nat \ {0}
    OBVIOUS
  <2> HIDE DEF AB
  <2> QED  BY <1>5, <2>1, AddDefinitionFine
<1> HIDE DEF d
<1>7. Fine(r, (a \o b) \o d, {})
  <2>1. AB = {} \cup Members(a \o b)
    OBVIOUS
  <2> HIDE DEF AB
  <2> QED  BY <1>3, <1>6, <2>1, FineConcat
<1>8. Members((a \o b) \o d) = AB \cup Members(d)
  BY <1>3, <1>6, FineEntries
<1> HIDE DEF AB
<1>9. Achieves(r, AB \cup Members(d))
  <2>1. Creates(AB \cup Members(d), r.id, "SCHEMA")
    BY <1>2, <1>4 DEF Creates
  <2>2. AddsVersion(AB \cup Members(d), r.id, 1)
    BY <1>6 DEF AddsVersion, Definitions
  <2> QED  BY <2>1, <2>2 DEF Achieves
<1> QED  BY <1>0, <1>7, <1>8, <1>9

\* add_schema_version.
LEMMA AddSchemaVersionFine ==
    ASSUME NEW r, NEW c \in Callers, r.op = "add_version", r.id \in Schemas,
           r.version \in Nat \ {0}
    PROVE  Fine(r, AddSchemaVersion(c, r), {}) /\ Achieves(r, Members(AddSchemaVersion(c, r)))
<1> DEFINE a == <<Exists(r.id), [do |-> "newest", id |-> r.id, version |-> r.version],
                  Build(r.refs)>>
           d == AddDefinition(c, r.id, r.version)
           A == Members(a)
<1>0. AddSchemaVersion(c, r) = a \o d
  BY Zenon DEF AddSchemaVersion
<1>1. Fine(r, a, {}) /\ \A kind : kind \notin Plain => NoneOf(kind, A)
  <2> DEFINE S == {Exists(r.id), [do |-> "newest", id |-> r.id, version |-> r.version],
                   Build(r.refs)}
  <2>1. a \in Seq(S)
    OBVIOUS
  <2>2. \A op \in S : op.do \in Plain
    BY DEF Exists, Build, Plain
  <2> HIDE DEF a, S
  <2> QED  BY <2>1, <2>2, PlainFine
<1> HIDE DEF a
<1>5. NoneOf("edge", A) /\ NoneOf("version", A)
  BY <1>1 DEF Plain
<1>6. Fine(r, d, A) /\ VersionOp(r.id, Definition(c), r.version) \in Members(d)
  <2> HIDE DEF A
  <2> QED  BY <1>5, AddDefinitionFine
<1> HIDE DEF d
<1>7. Fine(r, a \o d, {})
  <2>1. A = {} \cup Members(a)
    OBVIOUS
  <2> HIDE DEF A
  <2> QED  BY <1>1, <1>6, <2>1, FineConcat
<1>8. Members(a \o d) = A \cup Members(d)
  BY <1>1, <1>6, FineEntries
<1> HIDE DEF A
<1>9. Achieves(r, A \cup Members(d))
  <2>1. AddsVersion(A \cup Members(d), r.id, r.version)
    BY <1>6 DEF AddsVersion, Definitions
  <2> QED  BY <2>1 DEF Achieves
<1> QED  BY <1>0, <1>7, <1>8, <1>9

\* add_view_to_schema.
LEMMA AddViewFine ==
    ASSUME NEW r, r.op = "add_view", r.id \in Views, r.schema \in Schemas
    PROVE  Fine(r, AddViewToSchema(r), {}) /\ Achieves(r, Members(AddViewToSchema(r)))
<1> DEFINE a == <<Exists(r.schema)>>
           b == Create(r.id, "VIEW")
           d == ViewEdge(r.schema, r.id)
           A == Members(a)
           B == Members(b)
           AB == Members(a \o b)
<1>0. AddViewToSchema(r) = (a \o b) \o d
  BY Zenon DEF AddViewToSchema
<1>1. Fine(r, a, {}) /\ \A kind : kind \notin Plain => NoneOf(kind, A)
  <2>1. a \in Seq({Exists(r.schema)})
    OBVIOUS
  <2>2. \A op \in {Exists(r.schema)} : op.do \in Plain
    BY DEF Exists, Plain
  <2> HIDE DEF a
  <2> QED  BY <2>1, <2>2, PlainFine
<1>2. /\ Fine(r, b, A) /\ Creates(B, r.id, "VIEW")
      /\ \A kind : kind \notin {"create", "set"} => NoneOf(kind, B)
  <2>0. r.id \in Ids /\ r.id \notin Definitions /\ "VIEW" \in Types /\ "VIEW" # "SCHEMA"
    BY ConstantsAssumption DEF Ids, Types, Required
  <2>1. /\ Fine(r, b, A)
        /\ B = {CreateOp(r.id, "VIEW")} \cup {Set(r.id, name) : name \in Required["VIEW"]}
    BY <2>0, CreateFine
  <2> QED  BY <2>1, CreateKinds
<1> HIDE DEF a, b
<1>3. Fine(r, a \o b, {})
  <2>1. A = {} \cup Members(a)
    OBVIOUS
  <2> HIDE DEF A
  <2> QED  BY <1>1, <1>2, <2>1, FineConcat
<1>4. AB = A \cup B
  BY <1>1, <1>2, FineEntries
<1> HIDE DEF A, B
<1>5. /\ NoneOf("viewEdge", AB) /\ CreateOp(r.id, "VIEW") \in AB
      /\ Set(r.id, "VIEW_NAME") \in AB /\ Set(r.id, "JMESPATH") \in AB
  <2>1. NoneOf("viewEdge", A)
    BY <1>1 DEF Plain
  <2>2. NoneOf("viewEdge", B)
    BY <1>2
  <2>3. Required["VIEW"] = {"VIEW_NAME", "JMESPATH"}
    BY DEF Required
  <2>4. /\ CreateOp(r.id, "VIEW") \in B
        /\ Set(r.id, "VIEW_NAME") \in B /\ Set(r.id, "JMESPATH") \in B
    BY <1>2, <2>3 DEF Creates
  <2>5. NoneOf("viewEdge", AB)
    BY <1>4, <2>1, <2>2 DEF NoneOf
  <2> QED  BY <1>4, <2>4, <2>5
<1>6. Fine(r, d, AB) /\ Members(d) = {ViewEdgeOp(r.schema, r.id)}
  <2> HIDE DEF AB
  <2> QED  BY <1>5, ViewEdgeFine
<1> HIDE DEF d
<1>7. Fine(r, (a \o b) \o d, {})
  <2>1. AB = {} \cup Members(a \o b)
    OBVIOUS
  <2> HIDE DEF AB
  <2> QED  BY <1>3, <1>6, <2>1, FineConcat
<1>8. Members((a \o b) \o d) = AB \cup Members(d)
  BY <1>3, <1>6, FineEntries
<1> HIDE DEF AB
<1>9. Achieves(r, AB \cup Members(d))
  <2>1. Creates(AB \cup Members(d), r.id, "VIEW")
    BY <1>2, <1>4 DEF Creates
  <2> QED  BY <1>6, <2>1 DEF Achieves
<1> QED  BY <1>0, <1>7, <1>8, <1>9

\* import_all: the pieces are put together one by one.
LEMMA ImportFine ==
    Fine(ImportRequest, ImportAll, {}) /\ Achieves(ImportRequest, Members(ImportAll))
<1> DEFINE r == ImportRequest
           d == Definition(Import)
           p0 == <<[do |-> "export"], [do |-> "empty"]>>
           p1 == Create(ImportSchema, "SCHEMA")
           p2 == Create(d, "DEFINITION")
           p3 == Create(ImportView, "VIEW")
           p4 == DefinitionEdge(ImportSchema, d, 1)
           p5 == ViewEdge(ImportSchema, ImportView)
<1>0. ImportAll = ((((p0 \o p1) \o p2) \o p3) \o p4) \o p5
  BY Zenon DEF ImportAll
<1>r. r.op = "import"
  BY DEF ImportRequest
<1>d. d \in Definitions /\ d \in Ids /\ "DEFINITION" # "SCHEMA" /\ "VIEW" # "SCHEMA"
  BY DEF Definitions, Ids, Callers
<1>i. /\ ImportSchema \in Ids /\ ImportSchema \notin Definitions /\ ImportSchema \in Schemas
      /\ ImportView \in Ids /\ ImportView \notin Definitions /\ ImportView \in Views
  BY ConstantsAssumption DEF Ids
<1>t. /\ {"SCHEMA", "DEFINITION", "VIEW"} \subseteq Types
      /\ Required["DEFINITION"] = {"DEFINITION"}
      /\ Required["VIEW"] = {"VIEW_NAME", "JMESPATH"}
  BY DEF Types, Required
<1> HIDE DEF r, d
<1> DEFINE s1 == p0 \o p1
           s2 == s1 \o p2
           s3 == s2 \o p3
           s4 == s3 \o p4
           E0 == Members(p0)
           E1 == Members(s1)
           E2 == Members(s2)
           E3 == Members(s3)
           E4 == Members(s4)
<1>e. E0 = {} \cup Members(p0) /\ E1 = {} \cup Members(s1) /\ E2 = {} \cup Members(s2)
      /\ E3 = {} \cup Members(s3) /\ E4 = {} \cup Members(s4)
  OBVIOUS
\* The export and the check for an empty store.
<1>1. Fine(r, p0, {}) /\ E0 = {[do |-> "export"], [do |-> "empty"]}
  <2> DEFINE a == [do |-> "export"]
             b == [do |-> "empty"]
             more == {} \cup {a}
  <2>0. a.do = "export" /\ b.do = "empty" /\ p0 = <<a, b>>
    OBVIOUS
  <2> HIDE DEF a, b, p0
  <2>1. May(r, a, {})
    BY <2>0, PlainMay DEF Plain
  <2>2. NoneOf("create", more) /\ more = {} \cup {a}
    BY <2>0 DEF NoneOf
  <2> HIDE DEF more
  <2>3. May(r, b, more)
    BY <1>r, <2>0, <2>2 DEF May
  <2>4. Fine(r, <<a, b>>, {}) /\ Members(<<a, b>>) = {a, b}
    BY <2>1, <2>2, <2>3, FineTwo
  <2> QED  BY <2>0, <2>4 DEF a, b
<1>1k. \A op \in E0 : op.do \in {"export", "empty"}
  <2>1. \A op \in {[do |-> "export"], [do |-> "empty"]} : op.do \in {"export", "empty"}
    OBVIOUS
  <2> HIDE DEF E0
  <2> QED  BY <1>1, <2>1
<1> HIDE DEF p0, E0
\* The schema.
<1>2. /\ Fine(r, p1, E0) /\ Creates(Members(p1), ImportSchema, "SCHEMA")
      /\ \A kind : kind \notin {"create", "set"} => NoneOf(kind, Members(p1))
  <2>1. /\ Fine(r, p1, E0)
        /\ Members(p1) = {CreateOp(ImportSchema, "SCHEMA")} \cup
                           {Set(ImportSchema, name) : name \in Required["SCHEMA"]}
    BY <1>r, <1>i, <1>t, CreateFine
  <2> QED  BY <2>1, CreateKinds
<1> HIDE DEF p1
<1>3. Fine(r, s1, {}) /\ E1 = E0 \cup Members(p1)
  <2>1. Fine(r, s1, {})
    BY <1>1, <1>2, <1>e, FineConcat
  <2>2. E1 = E0 \cup Members(p1)
    BY <1>1, <1>2, FineEntries DEF E0
  <2> QED  BY <2>1, <2>2
<1> HIDE DEF s1, E1
\* The definition.
<1>4. /\ NoneOf("edge", E1) /\ NoneOf("version", E1) /\ NoneOf("viewEdge", E1)
  <2>1. /\ NoneOf("edge", Members(p1)) /\ NoneOf("version", Members(p1))
        /\ NoneOf("viewEdge", Members(p1))
    BY <1>2
  <2> QED  BY <1>1k, <1>3, <2>1 DEF NoneOf
<1>5. /\ Fine(r, p2, E1) /\ Creates(Members(p2), d, "DEFINITION")
      /\ \A kind : kind \notin {"create", "set"} => NoneOf(kind, Members(p2))
  <2>1. /\ Fine(r, p2, E1)
        /\ Members(p2) = {CreateOp(d, "DEFINITION")} \cup
                           {Set(d, name) : name \in Required["DEFINITION"]}
    BY <1>d, <1>t, <1>4, CreateFine
  <2> QED  BY <2>1, CreateKinds
<1> HIDE DEF p2
<1>6. Fine(r, s2, {}) /\ E2 = E1 \cup Members(p2)
  <2>1. Fine(r, s2, {})
    BY <1>3, <1>5, <1>e, FineConcat
  <2>2. E2 = E1 \cup Members(p2)
    BY <1>3, <1>5, FineEntries DEF E1
  <2> QED  BY <2>1, <2>2
<1> HIDE DEF s2, E2
\* The view.
<1>7. /\ Fine(r, p3, E2) /\ Creates(Members(p3), ImportView, "VIEW")
      /\ \A kind : kind \notin {"create", "set"} => NoneOf(kind, Members(p3))
  <2>1. /\ Fine(r, p3, E2)
        /\ Members(p3) = {CreateOp(ImportView, "VIEW")} \cup
                           {Set(ImportView, name) : name \in Required["VIEW"]}
    BY <1>d, <1>i, <1>t, CreateFine
  <2> QED  BY <2>1, CreateKinds
<1> HIDE DEF p3
<1>8. Fine(r, s3, {}) /\ E3 = E2 \cup Members(p3)
  <2>1. Fine(r, s3, {})
    BY <1>6, <1>7, <1>e, FineConcat
  <2>2. E3 = E2 \cup Members(p3)
    BY <1>6, <1>7, FineEntries DEF E2
  <2> QED  BY <2>1, <2>2
<1> HIDE DEF s3, E3
\* The edge to the definition.
<1>9. /\ NoneOf("edge", E3) /\ NoneOf("version", E3) /\ NoneOf("viewEdge", E3)
      /\ CreateOp(d, "DEFINITION") \in E3 /\ Set(d, "DEFINITION") \in E3
      /\ Creates(E3, ImportSchema, "SCHEMA") /\ Creates(E3, ImportView, "VIEW")
  <2>1. /\ NoneOf("edge", Members(p2)) /\ NoneOf("version", Members(p2))
        /\ NoneOf("viewEdge", Members(p2))
        /\ NoneOf("edge", Members(p3)) /\ NoneOf("version", Members(p3))
        /\ NoneOf("viewEdge", Members(p3))
    BY <1>5, <1>7
  <2>2. NoneOf("edge", E3) /\ NoneOf("version", E3) /\ NoneOf("viewEdge", E3)
    BY <1>4, <1>6, <1>8, <2>1 DEF NoneOf
  <2>3. CreateOp(d, "DEFINITION") \in E3 /\ Set(d, "DEFINITION") \in E3
    BY <1>t, <1>5, <1>6, <1>8 DEF Creates
  <2>4. Creates(E3, ImportSchema, "SCHEMA")
    BY <1>2, <1>3, <1>6, <1>8 DEF Creates
  <2>5. Creates(E3, ImportView, "VIEW")
    BY <1>7, <1>8 DEF Creates
  <2> QED  BY <2>2, <2>3, <2>4, <2>5
<1>10. Fine(r, p4, E3) /\ Members(p4) = {EdgeOp(ImportSchema, d), VersionOp(ImportSchema, d, 1)}
  <2>1. 1 \in Nat \ {0}
    OBVIOUS
  <2> QED  BY <1>d, <1>i, <1>9, <2>1, DefinitionEdgeFine
<1> HIDE DEF p4
<1>11. Fine(r, s4, {}) /\ E4 = E3 \cup Members(p4)
  <2>1. Fine(r, s4, {})
    BY <1>8, <1>10, <1>e, FineConcat
  <2>2. E4 = E3 \cup Members(p4)
    BY <1>8, <1>10, FineEntries DEF E3
  <2> QED  BY <2>1, <2>2
<1> HIDE DEF s4, E4
\* The edge to the view.
<1>12. /\ NoneOf("viewEdge", E4) /\ CreateOp(ImportView, "VIEW") \in E4
       /\ Set(ImportView, "VIEW_NAME") \in E4 /\ Set(ImportView, "JMESPATH") \in E4
  <2>1. EdgeOp(ImportSchema, d).do = "edge" /\ VersionOp(ImportSchema, d, 1).do = "version"
    BY DEF EdgeOp, VersionOp
  <2>2. NoneOf("viewEdge", E4)
    BY <1>9, <1>10, <1>11, <2>1 DEF NoneOf
  <2> QED  BY <1>t, <1>9, <1>11, <2>2 DEF Creates
<1>13. Fine(r, p5, E4) /\ Members(p5) = {ViewEdgeOp(ImportSchema, ImportView)}
  BY <1>i, <1>12, ViewEdgeFine
<1> HIDE DEF p5
<1>14. Fine(r, s4 \o p5, {})
  BY <1>11, <1>13, <1>e, FineConcat
<1>15. Members(s4 \o p5) = E4 \cup Members(p5)
  BY <1>11, <1>13, FineEntries DEF E4
<1>16. Achieves(r, E4 \cup Members(p5))
  <2>1. /\ Creates(E4 \cup Members(p5), ImportSchema, "SCHEMA")
        /\ Creates(E4 \cup Members(p5), ImportView, "VIEW")
    BY <1>9, <1>11 DEF Creates
  <2>2. AddsVersion(E4 \cup Members(p5), ImportSchema, 1)
    BY <1>d, <1>10, <1>11 DEF AddsVersion
  <2> QED  BY <1>r, <1>13, <2>1, <2>2 DEF Achieves
<1>17. ImportAll = s4 \o p5
  BY <1>0 DEF s4, s3, s2, s1
<1> QED  BY <1>14, <1>15, <1>16, <1>17 DEF r

\* Writes to a vertex that is no definition are in place anywhere.
LEMMA SetMay ==
    ASSUME NEW r, NEW id \in Schemas \cup Views, NEW name \in Names, NEW past
    PROVE  May(r, Set(id, name), past)
<1> DEFINE op == Set(id, name)
<1>1. op.do = "set" /\ op.id = id /\ op.name = name
  BY DEF Set
<1>2. id \in Ids /\ id \notin Definitions
  BY ConstantsAssumption DEF Ids
<1> HIDE DEF op
<1>3. May(r, op, past)
  BY <1>1, <1>2 DEF May
<1> QED  BY <1>3 DEF op

\* A sequence of operations, one for each field.
LEMMA FieldOps ==
    ASSUME NEW S, NEW F, NEW fields \in Seq(F), NEW p,
           p = [i \in 1..Len(fields) |-> p[i]], \A i \in 1..Len(fields) : p[i] \in S
    PROVE  p \in Seq(S)
<1>1. Len(fields) \in Nat
  OBVIOUS
<1>2. p \in [1..Len(fields) -> S]
  OBVIOUS
<1> QED  BY <1>1, <1>2, SeqDef

\* update_schema, and the read that follows it in the API.
LEMMA UpdateSchemaFine ==
    ASSUME NEW r \in Requests, r.op = "update_schema"
    PROVE  Fine(r, UpdateSchemaMetadata(r) \o ReadSchema(r), {})
<1> DEFINE T == {Exists(r.id)} \cup {Set(r.id, name) : name \in Names}
           S == T \cup {Topic, [do |-> "fail"], [do |-> "schema", id |-> r.id]}
           a == IF "TOPIC_NAME" \in Range(r.fields) THEN <<Topic>> ELSE <<>>
           ss == [i \in 1..Len(r.fields) |-> <<Exists(r.id), Set(r.id, r.fields[i])>>]
           b == FlattenSeq(ss)
           d == IF r.valid THEN <<>> ELSE <<[do |-> "fail"]>>
           e == ReadSchema(r)
<1>0. r.id \in Schemas /\ r.fields \in Seq(Required["SCHEMA"])
  BY ConstantsAssumption
<1>1. UpdateSchemaMetadata(r) = (a \o b) \o d
  BY Zenon DEF UpdateSchemaMetadata
<1>2. a \in Seq(S) /\ d \in Seq(S) /\ e \in Seq(S)
  <2> DEFINE x == Topic
             y == [do |-> "fail"]
             z == [do |-> "schema", id |-> r.id]
  <2>1. x \in S /\ y \in S /\ z \in S
    OBVIOUS
  <2>2. /\ a = <<x>> \/ a = <<>>
        /\ d = <<y>> \/ d = <<>>
    OBVIOUS
  <2>3. e = <<z>> \/ e = <<>>
    BY DEF ReadSchema
  <2> HIDE DEF x, y, z, a, d, e, S
  <2>4. <<x>> \in Seq(S) /\ <<y>> \in Seq(S) /\ <<z>> \in Seq(S) /\ <<>> \in Seq(S)
    BY <2>1
  <2> QED  BY <2>2, <2>3, <2>4
<1>4. b \in Seq(S)
  <2>1. Required["SCHEMA"] \subseteq Names
    BY DEF Names, Types, Required
  <2>2. \A i \in 1..Len(r.fields) : r.fields[i] \in Names
    BY <1>0, <2>1
  <2>3. \A i \in 1..Len(r.fields) : <<Exists(r.id), Set(r.id, r.fields[i])>> \in Seq(T)
    <3> TAKE i \in 1..Len(r.fields)
    <3>1. PICK x \in T, y \in T : x = Exists(r.id) /\ y = Set(r.id, r.fields[i])
      BY <2>2
    <3>2. <<x, y>> \in Seq(T)
      <4> HIDE DEF T
      <4> QED  OBVIOUS
    <3> QED  BY <3>1, <3>2
  <2> HIDE DEF T
  <2>4. \A i \in 1..Len(r.fields) : ss[i] \in Seq(T)
    BY <2>3
  <2>5. ss = [i \in 1..Len(r.fields) |-> ss[i]]
    OBVIOUS
  <2> HIDE DEF ss
  <2>6. ss \in Seq(Seq(T))
    BY <1>0, <2>4, <2>5, FieldOps
  <2>7. b \in Seq(T)
    BY <2>6, FlattenType
  <2> HIDE DEF b
  <2>8. T \subseteq S
    OBVIOUS
  <2> HIDE DEF S
  <2> QED  BY <2>7, <2>8, SeqMono
<1>5. ASSUME NEW op \in S, NEW past PROVE May(r, op, past)
  <2>1. CASE op \in {Exists(r.id), Topic, [do |-> "fail"], [do |-> "schema", id |-> r.id]}
    <3>1. op.do \in Plain
      BY <2>1 DEF Exists, Topic, Plain
    <3> QED  BY <3>1, PlainMay
  <2>2. CASE op \in {Set(r.id, name) : name \in Names}
    BY <1>0, <2>2, SetMay
  <2> QED  BY <1>5, <2>1, <2>2
<1> HIDE DEF S, a, b, d, e
<1>6. ((a \o b) \o d) \o e \in Seq(S)
  BY <1>2, <1>4, ConcatProperties
<1>7. UpdateSchemaMetadata(r) \o ReadSchema(r) \in Seq(S)
  BY <1>1, <1>6 DEF e
<1> QED  BY <1>5, <1>7, FineAnywhere

\* update_view, and the read that follows it in the API.
LEMMA UpdateViewFine ==
    ASSUME NEW r \in Requests, r.op = "update_view"
    PROVE  Fine(r, UpdateView(r) \o ReadView(r), {})
<1> DEFINE S == {[do |-> "view", id |-> r.id]} \cup {Set(r.id, name) : name \in Names}
           a == <<[do |-> "view", id |-> r.id]>>
           b == [i \in 1..Len(r.fields) |-> Set(r.id, r.fields[i])]
           e == ReadView(r)
<1>0. r.id \in Views /\ r.fields \in Seq(Required["VIEW"])
  BY ConstantsAssumption
<1>1. UpdateView(r) = a \o b
  BY Zenon DEF UpdateView
<1>2. a \in Seq(S) /\ e \in Seq(S)
  <2> DEFINE x == [do |-> "view", id |-> r.id]
  <2>1. x \in S /\ a = <<x>>
    OBVIOUS
  <2>2. e = <<x>> \/ e = <<>>
    BY DEF ReadView
  <2> HIDE DEF x, a, e, S
  <2>3. <<x>> \in Seq(S) /\ <<>> \in Seq(S)
    BY <2>1
  <2> QED  BY <2>1, <2>2, <2>3
<1>4. b \in Seq(S)
  <2>1. Required["VIEW"] \subseteq Names
    BY DEF Names, Types, Required
  <2>2. \A i \in 1..Len(r.fields) : r.fields[i] \in Names
    BY <1>0, <2>1
  <2>3. \A i \in 1..Len(r.fields) : b[i] \in S
    BY <2>2
  <2>4. b = [i \in 1..Len(r.fields) |-> b[i]]
    OBVIOUS
  <2> HIDE DEF b, S
  <2> QED  BY <1>0, <2>3, <2>4, FieldOps
<1>5. ASSUME NEW op \in S, NEW past PROVE May(r, op, past)
  <2>1. CASE op = [do |-> "view", id |-> r.id]
    <3>1. op.do \in Plain
      BY <2>1 DEF Plain
    <3> QED  BY <3>1, PlainMay
  <2>2. CASE op \in {Set(r.id, name) : name \in Names}
    BY <1>0, <2>2, SetMay
  <2> QED  BY <1>5, <2>1, <2>2
<1> HIDE DEF S, a, b, e
<1>6. (a \o b) \o e \in Seq(S)
  BY <1>2, <1>4, ConcatProperties
<1>7. UpdateView(r) \o ReadView(r) \in Seq(S)
  BY <1>1, <1>6 DEF e
<1> QED  BY <1>5, <1>7, FineAnywhere

\* The readers.
LEMMA ReadersFine ==
    ASSUME NEW r \in Requests
    PROVE  /\ r.op = "definitions" => Fine(r, GetDefinitions(r), {})
           /\ r.op = "views" => Fine(r, GetViews(r), {})
           /\ r.op = "lookup" => Fine(r, Lookup(r), {})
           /\ r.op = "schemas" => Fine(r, GetSchemas, {})
<1>1. ASSUME r.op = "definitions" PROVE Fine(r, GetDefinitions(r), {})
  <2> DEFINE a == [do |-> "versions", id |-> r.id]
             b == [do |-> "definitions", id |-> r.id]
             more == {} \cup {a}
  <2>0. a.do = "versions" /\ a.id = r.id /\ b.do = "definitions" /\ b.id = r.id
    OBVIOUS
  <2>1. GetDefinitions(r) = <<a, b>>
    BY DEF GetDefinitions
  <2> HIDE DEF a, b
  <2>2. May(r, a, {}) /\ May(r, b, more)
    BY <1>1, <2>0 DEF May
  <2>3. more = {} \cup {a}
    OBVIOUS
  <2> HIDE DEF more
  <2>4. Fine(r, <<a, b>>, {})
    BY <2>2, <2>3, FineTwo
  <2> QED  BY <2>1, <2>4
<1>2. Fine(r, GetViews(r), {})
  <2> DEFINE S == {Exists(r.id), [do |-> "views", id |-> r.id]}
  <2>1. GetViews(r) \in Seq(S)
    BY DEF GetViews
  <2>2. \A op \in S : op.do \in Plain
    BY DEF Exists, Plain
  <2> HIDE DEF S
  <2> QED  BY <2>1, <2>2, PlainFine
<1>3. ASSUME r.op = "lookup" PROVE Fine(r, Lookup(r), {})
  <2> DEFINE S == {[do |-> "get", id |-> r.id, name |-> n] : n \in Names}
             p == Lookup(r)
  <2>0. r.fields \in Seq(Required["SCHEMA"]) /\ Required["SCHEMA"] \subseteq Names
    BY <1>3, ConstantsAssumption DEF Names, Types, Required
  <2>1. \A i \in 1..Len(r.fields) : r.fields[i] \in Names
    BY <2>0
  <2>2. (\A i \in 1..Len(r.fields) : p[i] \in S) /\ p = [i \in 1..Len(r.fields) |-> p[i]]
    BY <2>1 DEF Lookup
  <2>3. \A op \in S : op.do \in Plain
    BY DEF Plain
  <2> HIDE DEF S, p
  <2>4. p \in Seq(S)
    BY <2>0, <2>2, FieldOps
  <2>5. Fine(r, p, {})
    BY <2>3, <2>4, PlainFine
  <2> QED  BY <2>5 DEF p
<1>4. ASSUME r.op = "schemas" PROVE Fine(r, GetSchemas, {})
  <2> DEFINE a == [do |-> "schemas"]
  <2>0. a.do = "schemas" /\ GetSchemas = <<a>>
    BY DEF GetSchemas
  <2> HIDE DEF a
  <2>1. May(r, a, {})
    BY <1>4, <2>0 DEF May
  <2> QED  BY <2>0, <2>1, FineOne
<1> QED  BY <1>1, <1>2, <1>3, <1>4

\* Every operation of every program is in its place, and a program that comes to
\* its end has done what was asked.
LEMMA OperationsFine ==
    ASSUME NEW c \in Callers, NEW r \in Requests \cup {NoRequest, ImportRequest}
    PROVE  Fine(r, Operations(c, r), {}) /\ Achieves(r, Members(Operations(c, r)))
<1>1. CASE r = NoRequest
  <2>1. r.op = "none"
    BY <1>1 DEF NoRequest
  <2>2. Operations(c, r) = <<>>
    BY <2>1 DEF Operations
  <2>4. Fine(r, <<>>, {})
    <3>1. <<>> \in Seq(Members(<<>>)) /\ Len(<<>>) = 0 /\ 1..0 = {}
      OBVIOUS
    <3> QED  BY <3>1 DEF Fine
  <2>5. Achieves(r, Members(<<>>))
    BY <2>1 DEF Achieves
  <2> QED  BY <2>2, <2>4, <2>5
<1>2. CASE r = ImportRequest
  <2>1. r.op = "import"
    BY <1>2 DEF ImportRequest
  <2>2. Operations(c, r) = ImportAll
    BY <2>1 DEF Operations
  <2> QED  BY <1>2, <2>2, ImportFine
<1>3. CASE r \in Requests
  <2>1. \/ r.op = "add_schema" /\ r.id \in Schemas
        \/ r.op = "add_version" /\ r.id \in Schemas /\ r.version \in Nat \ {0}
        \/ r.op = "update_schema" 
        \/ r.op = "add_view" /\ r.id \in Views /\ r.schema \in Schemas
        \/ r.op = "update_view"
        \/ r.op \in {"definitions", "views", "lookup", "schemas"}
    BY <1>3, ConstantsAssumption
  <2>2. CASE r.op = "add_schema"
    <3>1. Operations(c, r) = AddSchema(c, r)
      BY <2>2 DEF Operations
    <3> QED  BY <2>1, <2>2, <3>1, AddSchemaFine
  <2>3. CASE r.op = "add_version"
    <3>1. Operations(c, r) = AddSchemaVersion(c, r)
      BY <2>3 DEF Operations
    <3> QED  BY <2>1, <2>3, <3>1, AddSchemaVersionFine
  <2>4. CASE r.op = "add_view"
    <3>1. Operations(c, r) = AddViewToSchema(r)
      BY <2>4 DEF Operations
    <3> QED  BY <2>1, <2>4, <3>1, AddViewFine
  <2>5. CASE r.op \in {"update_schema", "update_view", "definitions", "views", "lookup", "schemas"}
    <3>1. \A ops : Achieves(r, ops)
      BY <2>5 DEF Achieves
    <3>2. CASE r.op = "update_schema"
      <4>1. Operations(c, r) = UpdateSchemaMetadata(r) \o ReadSchema(r)
        BY <3>2 DEF Operations
      <4> QED  BY <1>3, <3>1, <3>2, <4>1, UpdateSchemaFine
    <3>3. CASE r.op = "update_view"
      <4>1. Operations(c, r) = UpdateView(r) \o ReadView(r)
        BY <3>3 DEF Operations
      <4> QED  BY <1>3, <3>1, <3>3, <4>1, UpdateViewFine
    <3>4. CASE r.op = "definitions"
      <4>1. Operations(c, r) = GetDefinitions(r)
        BY <3>4 DEF Operations
      <4> QED  BY <1>3, <3>1, <3>4, <4>1, ReadersFine
    <3>5. CASE r.op = "views"
      <4>1. Operations(c, r) = GetViews(r)
        BY <3>5 DEF Operations
      <4> QED  BY <1>3, <3>1, <3>5, <4>1, ReadersFine
    <3>6. CASE r.op = "lookup"
      <4>1. Operations(c, r) = Lookup(r)
        BY <3>6 DEF Operations
      <4> QED  BY <1>3, <3>1, <3>6, <4>1, ReadersFine
    <3>7. CASE r.op = "schemas"
      <4>1. Operations(c, r) = GetSchemas
        BY <3>7 DEF Operations
      <4> QED  BY <1>3, <3>1, <3>7, <4>1, ReadersFine
    <3> QED  BY <2>5, <3>2, <3>3, <3>4, <3>5, <3>6, <3>7
  <2> QED  BY <2>1, <2>2, <2>3, <2>4, <2>5
<1> QED  BY <1>1, <1>2, <1>3

------------------------------------------------------------------------------
(* The invariant. *)

\* What call c has done, and whether it has made the vertex id.
Past(c) == Before(Program(c), at[c])
Made(c, id) == \E op \in Past(c) : op.do = "create" /\ op.id = id

\* What an operation leaves in the graph for good.
Effect(op) ==
    /\ op.do = "create" => vertex[op.id] = op.t
    /\ op.do = "set" => property[op.id][op.name] # NoValue
    /\ op.do = "edge" => \E e \in edges : e.from = op.from /\ e.to = op.to
    /\ op.do = "version" => [from |-> op.from, to |-> op.to, version |-> op.version] \in edges
    /\ op.do = "viewEdge" => <<op.from, op.to>> \in viewEdges

\* Only a running call is under way, and no call runs before the import is done.
CallInv ==
    /\ request[Import] = ImportRequest
    /\ \A c \in Calls : request[c] # ImportRequest
    /\ \A c \in Callers : /\ at[c] <= Len(Program(c)) + 1
                          /\ answer[c] # "running" => at[c] = 1 /\ listed[c] = {}
    /\ ~ Serving => \A c \in Calls : answer[c] # "running"

\* What a running call has done is in the graph.
DoneInv == \A c \in Callers : \A op \in Past(c) : Effect(op)

\* Two calls do not both make a vertex.
OwnInv == \A c, d \in Callers : \A id \in Ids : Made(c, id) /\ Made(d, id) => c = d

\* An edge leads to a whole vertex.
EdgeInv ==
    /\ \A e \in edges : Complete(e.to, "DEFINITION")
    /\ \A e \in viewEdges : Complete(e[2], "VIEW")

\* Nothing leads to a new vertex before its maker draws the edge, and the edge
\* has no version before its maker sets it.
FreshInv ==
    \A c \in Callers : \A id \in Ids : Made(c, id) =>
        /\ NoneOf("edge", Past(c)) => \A e \in edges : e.to # id
        /\ NoneOf("version", Past(c)) => \A e \in edges : e.to = id => e.version = 0
        /\ NoneOf("viewEdge", Past(c)) => \A e \in viewEdges : e[2] # id

\* The first process starts on an empty store.
FirstRun ==
    crashes = 0 /\ answer[Import] = "running" /\ NoneOf("create", Past(Import)) =>
        \A id \in Ids : vertex[id] = "none"

\* A schema that is not whole is one whose creation was interrupted.
Origin ==
    \A id \in Ids : vertex[id] = "SCHEMA" /\ ~ Complete(id, "SCHEMA") =>
        id \in Schemas /\ (Interrupted(id) \/ (id = ImportSchema /\ ~ Serving))

\* The versions that a reader has yet to read are there.
ListedInv ==
    \A c \in Callers : \A v \in listed[c] :
        \E e \in edges : e.from = request[c].id /\ e.version = v

IInv ==
    /\ TypeOK /\ ViewHasOneSchema /\ AnsweredIsThere
    /\ CallInv /\ DoneInv /\ OwnInv /\ EdgeInv /\ FreshInv /\ FirstRun /\ Origin /\ ListedInv

------------------------------------------------------------------------------
(* Where a call stands in its program. *)

\* The program of a call is in place, and achieves what was asked.
LEMMA ProgramFine ==
    ASSUME TypeOK, NEW c \in Callers
    PROVE  /\ Fine(request[c], Program(c), {})
           /\ Achieves(request[c], Members(Program(c)))
           /\ Len(Program(c)) \in Nat
<1>1. request[c] \in Requests \cup {NoRequest, ImportRequest}
  BY DEF TypeOK
<1> DEFINE r == request[c]
           p == Operations(c, r)
<1>2. Program(c) = p
  BY <1>1 DEF Program, Programs
<1>3. Fine(r, p, {}) /\ Achieves(r, Members(p))
  BY <1>1, OperationsFine
<1> HIDE DEF p, r
<1>4. Len(p) \in Nat
  BY <1>3 DEF Fine
<1> QED  BY <1>2, <1>3, <1>4 DEF r

\* The operation a call is about to do is in its place.
LEMMA DoingMay ==
    ASSUME TypeOK, NEW c \in Callers, at[c] <= Len(Program(c))
    PROVE  May(request[c], Operation(c), Past(c))
<1>1. at[c] \in 1..Len(Program(c))
  BY ProgramFine DEF TypeOK
<1>2. May(request[c], Program(c)[at[c]], {} \cup Before(Program(c), at[c]))
  BY <1>1, ProgramFine DEF Fine
<1>3. {} \cup Before(Program(c), at[c]) = Before(Program(c), at[c])
  OBVIOUS
<1> QED  BY <1>2, <1>3 DEF Operation, Past

\* So was every operation it has done.
LEMMA PastMay ==
    ASSUME TypeOK, CallInv, NEW c \in Callers, NEW op \in Past(c)
    PROVE  \E past : May(request[c], op, past)
<1>1. PICK j \in 1..(at[c] - 1) : op = Program(c)[j]
  BY DEF Past, Before
<1>2. j \in 1..Len(Program(c))
  <2>1. at[c] \in Nat /\ at[c] <= Len(Program(c)) + 1
    BY DEF TypeOK, CallInv
  <2> QED  BY <2>1, ProgramFine
<1> QED  BY <1>1, <1>2, ProgramFine DEF Fine

\* The arguments of an operation done.
LEMMA PastTypes ==
    ASSUME TypeOK, CallInv, NEW c \in Callers, NEW op \in Past(c)
    PROVE  /\ op.do = "create" => op.id \in Ids /\ op.t \in Types
           /\ op.do = "set" => op.id \in Ids /\ op.name \in Names
           /\ op.do = "version" => op.version \in Nat \ {0}
<1>1. PICK past : May(request[c], op, past)
  BY PastMay
<1> QED  BY <1>1 DEF May

\* A call that has not begun, or is over, has done nothing.
LEMMA NothingDone ==
    ASSUME NEW c \in Callers, at[c] = 1
    PROVE  Past(c) = {}
BY DEF Past, Before

\* A call at the end of its program has done all of it.
LEMMA AllDone ==
    ASSUME TypeOK, CallInv, NEW c \in Callers, at[c] > Len(Program(c))
    PROVE  Past(c) = Members(Program(c))
<1>1. at[c] - 1 = Len(Program(c))
  <2>1. at[c] \in Nat /\ at[c] <= Len(Program(c)) + 1
    BY DEF TypeOK, CallInv
  <2> QED  BY <2>1, ProgramFine
<1> QED  BY <1>1 DEF Past, Before, Members

\* A step of call c adds its operation to what it has done.
LEMMA AdvancePast ==
    ASSUME TypeOK, NEW c \in Callers, at[c] <= Len(Program(c)), Advance(c)
    PROVE  /\ Past(c)' = Past(c) \cup {Operation(c)}
           /\ \A d \in Callers \ {c} : Past(d)' = Past(d)
           /\ \A d \in Callers : at'[d] <= Len(Program(d)') + 1 \/ at'[d] = at[d]
           /\ \A d \in Callers : Program(d)' = Program(d)
<1>1. at'[c] = at[c] + 1 /\ at[c] \in Nat \ {0}
  BY DEF Advance, TypeOK
<1>2. \A d \in Callers \ {c} : at'[d] = at[d]
  BY DEF Advance, TypeOK
<1>3. \A d \in Callers : Program(d)' = Program(d)
  BY DEF Program, Advance
<1>4. Before(Program(c), at[c] + 1) = Before(Program(c), at[c]) \cup {Program(c)[at[c]]}
  <2> DEFINE k == at[c]
             p == Program(c)
  <2>1. k \in Nat \ {0}
    BY <1>1
  <2> HIDE DEF k, p
  <2>2. Before(p, k + 1) = Before(p, k) \cup {p[k]}
    <3>1. 1..((k + 1) - 1) = (1..(k - 1)) \cup {k}
      BY <2>1
    <3> QED  BY <3>1 DEF Before
  <2> QED  BY <2>2 DEF k, p
<1>5. Past(c)' = Past(c) \cup {Operation(c)}
  BY <1>1, <1>3, <1>4 DEF Past, Operation
<1>6. \A d \in Callers \ {c} : Past(d)' = Past(d)
  BY <1>2, <1>3 DEF Past
<1>7. at'[c] <= Len(Program(c)') + 1
  BY <1>1, <1>3, ProgramFine
<1> QED  BY <1>2, <1>3, <1>5, <1>6, <1>7

------------------------------------------------------------------------------
(* A step of a call: it does its next operation. *)

\* What an operation may change in the graph, and what it must.
Does(op) ==
    /\ op.do = "create" => vertex[op.id] = "none"
    /\ \A id \in Ids :
         \/ vertex'[id] = vertex[id]
         \/ op.do = "create" /\ id = op.id /\ vertex'[id] = op.t
    /\ \A id \in Ids : \A name \in Names :
         \/ property'[id][name] = property[id][name]
         \/ op.do = "set" /\ id = op.id /\ property'[id][name] # NoValue
    /\ \A e \in edges' :
         \/ e \in edges
         \/ op.do = "edge" /\ e.to = op.to /\ e.version = 0
         \/ op.do = "version" /\ e.to = op.to
    /\ \A e \in edges :
         \/ e \in edges'
         \/ /\ op.do = "version" /\ e.from = op.from /\ e.to = op.to
            /\ \E f \in edges' : f.from = op.from /\ f.to = op.to
    /\ viewEdges \subseteq viewEdges'
    /\ \A e \in viewEdges' :
         e \in viewEdges \/ (op.do = "viewEdge" /\ e = <<op.from, op.to>>)
    /\ Effect(op)'

\* Call c does its operation op; the versions it has yet to read are the old ones
\* or are there.  (op is a constant: Operation(c) itself changes in the step.)
Step(c, op) ==
    /\ answer[c] = "running" /\ at[c] <= Len(Program(c))
    /\ op = Operation(c)
    /\ Advance(c)
    /\ Does(op)
    /\ \A d \in Callers \ {c} : listed'[d] = listed[d]
    /\ \A v \in listed'[c] :
         \/ v \in listed[c]
         \/ v # 0 /\ \E e \in edges : e.from = request[c].id /\ e.version = v

\* Nothing that can be read goes away.
Grow ==
    /\ \A id \in Ids : vertex[id] # "none" => vertex'[id] = vertex[id]
    /\ \A id \in Ids : \A name \in Names :
         property[id][name] # NoValue => property'[id][name] # NoValue
    /\ \A e \in edges : e.version # 0 => e \in edges'
    /\ \A e \in edges : \E f \in edges' : f.from = e.from /\ f.to = e.to
    /\ viewEdges \subseteq viewEdges'

\* A vertex whose creation is behind a call was made by it.
LEMMA CreatedIsMade ==
    ASSUME NEW c, NEW id, NEW t, CreateOp(id, t) \in Past(c)
    PROVE  Made(c, id)
<1>1. CreateOp(id, t).do = "create" /\ CreateOp(id, t).id = id
  BY DEF CreateOp
<1> QED  BY <1>1 DEF Made

\* An operation takes nothing away: the edge whose version is set had none.
LEMMA StepGrows ==
    ASSUME IInv, NEW c \in Callers, NEW op, Step(c, op)
    PROVE  Grow
<1>1. May(request[c], op, Past(c)) /\ Does(op)
  BY DoingMay DEF IInv, Step
<1>2. \A id \in Ids : vertex[id] # "none" => vertex'[id] = vertex[id]
  BY <1>1 DEF Does
<1>3. \A id \in Ids : \A name \in Names :
         property[id][name] # NoValue => property'[id][name] # NoValue
  BY <1>1 DEF Does
<1>4. ASSUME NEW e \in edges, e.version # 0 PROVE e \in edges'
  <2>1. SUFFICES ASSUME op.do = "version", e.to = op.to PROVE FALSE
    BY <1>1 DEF Does
  <2>2. /\ CreateOp(op.to, "DEFINITION") \in Past(c) /\ NoneOf("version", Past(c))
        /\ op.to \in Ids
    BY <1>1, <2>1 DEF May, Ids
  <2>3. Made(c, op.to)
    BY <2>2, CreatedIsMade
  <2> QED  BY <1>4, <2>1, <2>2, <2>3 DEF IInv, FreshInv
<1>5. ASSUME NEW e \in edges PROVE \E f \in edges' : f.from = e.from /\ f.to = e.to
  BY <1>1 DEF Does
<1>6. viewEdges \subseteq viewEdges'
  BY <1>1 DEF Does
<1> QED  BY <1>2, <1>3, <1>4, <1>5, <1>6 DEF Grow

\* What is whole stays whole.
LEMMA CompleteGrows ==
    ASSUME Grow, NEW id \in Ids, NEW t \in Types, Complete(id, t)
    PROVE  Complete(id, t)'
<1>1. Required[t] \subseteq Names
  BY DEF Names
<1>2. t # "none"
  BY DEF Types, Required
<1> QED  BY <1>1, <1>2 DEF Complete, Grow

\* What an operation left in the graph stays there.
LEMMA EffectGrows ==
    ASSUME TypeOK, CallInv, Grow, NEW c \in Callers, NEW op \in Past(c), Effect(op)
    PROVE  Effect(op)'
<1>0. /\ op.do = "create" => op.id \in Ids /\ op.t \in Types
      /\ op.do = "set" => op.id \in Ids /\ op.name \in Names
      /\ op.do = "version" => op.version \in Nat \ {0}
  BY PastTypes
<1>1. ASSUME op.do = "create" PROVE vertex'[op.id] = op.t
  <2>1. op.t # "none"
    BY <1>0, <1>1 DEF Types, Required
  <2> QED  BY <1>0, <1>1, <2>1 DEF Effect, Grow
<1>2. ASSUME op.do = "set" PROVE property'[op.id][op.name] # NoValue
  BY <1>0, <1>2 DEF Effect, Grow
<1>3. ASSUME op.do = "edge" PROVE \E e \in edges' : e.from = op.from /\ e.to = op.to
  BY <1>3 DEF Effect, Grow
<1>4. ASSUME op.do = "version"
      PROVE  [from |-> op.from, to |-> op.to, version |-> op.version] \in edges'
  <2> DEFINE e == [from |-> op.from, to |-> op.to, version |-> op.version]
  <2>1. e.version = op.version /\ e \in edges
    BY <1>4 DEF Effect
  <2> HIDE DEF e
  <2>2. e.version # 0
    BY <1>0, <1>4, <2>1
  <2>3. e \in edges'
    BY <2>1, <2>2 DEF Grow
  <2> QED  BY <2>3 DEF e
<1>5. ASSUME op.do = "viewEdge" PROVE <<op.from, op.to>> \in viewEdges'
  BY <1>5 DEF Effect, Grow
<1> QED  BY <1>1, <1>2, <1>3, <1>4, <1>5 DEF Effect

\* What the answer to request r promises.
There(r) ==
    /\ r.op = "add_schema" => Complete(r.id, "SCHEMA") /\ HasVersion(r.id, 1)
    /\ r.op = "add_version" => HasVersion(r.id, r.version)
    /\ r.op = "add_view" => Complete(r.id, "VIEW") /\ <<r.schema, r.id>> \in viewEdges
    /\ r.op = "import" =>
         /\ Complete(ImportSchema, "SCHEMA") /\ HasVersion(ImportSchema, 1)
         /\ Complete(ImportView, "VIEW") /\ <<ImportSchema, ImportView>> \in viewEdges

\* What a request names.
LEMMA RequestTypes ==
    ASSUME NEW r \in Requests \cup {NoRequest, ImportRequest}
    PROVE  /\ r.op = "add_schema" => r.id \in Schemas
           /\ r.op = "add_view" => r.id \in Views
           /\ r.op = "import" => r = ImportRequest
<1>1. NoRequest.op = "none" /\ ImportRequest.op = "import"
  BY DEF NoRequest, ImportRequest
<1>2. CASE r \in Requests
  BY <1>2, ConstantsAssumption
<1>3. CASE r = NoRequest \/ r = ImportRequest
  BY <1>1, <1>3
<1> QED  BY <1>2, <1>3

\* A version that can be read stays.
LEMMA HasVersionGrows ==
    ASSUME TypeOK, Grow, NEW s, NEW v, HasVersion(s, v)
    PROVE  HasVersion(s, v)'
<1>1. PICK e \in edges : /\ e.from = s /\ e.version # 0 /\ e.version = v
                         /\ Complete(e.to, "DEFINITION")
  BY DEF HasVersion, Versions
<1>2. e.to \in Ids /\ "DEFINITION" \in Types
  BY DEF TypeOK, Ids, Types, Required
<1> DEFINE d == e.to
<1>3. Complete(d, "DEFINITION")'
  <2> HIDE DEF d
  <2>1. d \in Ids /\ Complete(d, "DEFINITION")
    BY <1>1, <1>2 DEF d
  <2> QED  BY <1>2, <2>1, CompleteGrows
<1>4. e \in edges'
  BY <1>1 DEF Grow
<1> QED  BY <1>1, <1>3, <1>4 DEF HasVersion, Versions

\* What was answered stays.
LEMMA ThereGrows ==
    ASSUME TypeOK, Grow, NEW r \in Requests \cup {NoRequest, ImportRequest}, There(r)
    PROVE  There(r)'
<1>1. "SCHEMA" \in Types /\ "VIEW" \in Types /\ Schemas \subseteq Ids /\ Views \subseteq Ids
  BY DEF Types, Required, Ids
<1>2. ImportSchema \in Ids /\ ImportView \in Ids
  BY <1>1, ConstantsAssumption
<1>3. viewEdges \subseteq viewEdges'
  BY DEF Grow
<1>4. ASSUME r.op = "add_schema" PROVE Complete(r.id, "SCHEMA")' /\ HasVersion(r.id, 1)'
  BY <1>1, <1>4, RequestTypes, CompleteGrows, HasVersionGrows DEF There
<1>5. ASSUME r.op = "add_version" PROVE HasVersion(r.id, r.version)'
  BY <1>5, HasVersionGrows DEF There
<1>6. ASSUME r.op = "add_view"
      PROVE  Complete(r.id, "VIEW")' /\ <<r.schema, r.id>> \in viewEdges'
  BY <1>1, <1>3, <1>6, RequestTypes, CompleteGrows DEF There
<1>7. ASSUME r.op = "import"
      PROVE  /\ Complete(ImportSchema, "SCHEMA")' /\ HasVersion(ImportSchema, 1)'
             /\ Complete(ImportView, "VIEW")' /\ <<ImportSchema, ImportView>> \in viewEdges'
  BY <1>1, <1>2, <1>3, <1>7, CompleteGrows, HasVersionGrows DEF There
<1> QED  BY <1>4, <1>5, <1>6, <1>7 DEF There

\* The promise is kept by a call that has done its whole program.
LEMMA AchievedIsThere ==
    ASSUME IInv, NEW c \in Callers, at[c] > Len(Program(c)), NEW r, r = request[c]
    PROVE  There(r)
<1>1. Achieves(r, Past(c)) /\ \A op \in Past(c) : Effect(op)
  BY ProgramFine, AllDone DEF IInv, DoneInv
<1>2. ASSUME NEW id, NEW t, Creates(Past(c), id, t) PROVE Complete(id, t)
  <2>1. CreateOp(id, t) \in Past(c) /\ \A name \in Required[t] : Set(id, name) \in Past(c)
    BY <1>2 DEF Creates
  <2>2. vertex[id] = t
    <3>1. CreateOp(id, t).do = "create" /\ CreateOp(id, t).id = id /\ CreateOp(id, t).t = t
      BY DEF CreateOp
    <3> QED  BY <1>1, <2>1, <3>1 DEF Effect
  <2>3. ASSUME NEW name \in Required[t] PROVE property[id][name] # NoValue
    <3>1. Set(id, name).do = "set" /\ Set(id, name).id = id /\ Set(id, name).name = name
      BY DEF Set
    <3> QED  BY <1>1, <2>1, <3>1 DEF Effect
  <2> QED  BY <2>2, <2>3 DEF Complete
<1>3. ASSUME NEW s, NEW v, AddsVersion(Past(c), s, v) PROVE HasVersion(s, v)
  <2>1. PICK d \in Definitions : VersionOp(s, d, v) \in Past(c)
    BY <1>3 DEF AddsVersion
  <2> DEFINE op == VersionOp(s, d, v)
             e == [from |-> s, to |-> d, version |-> v]
  <2>2. op.do = "version" /\ op.from = s /\ op.to = d /\ op.version = v
    BY DEF VersionOp
  <2>3. op \in Past(c)
    BY <2>1
  <2> HIDE DEF op
  <2>4. e \in edges /\ v \in Nat \ {0}
    BY <1>1, <2>2, <2>3, PastTypes DEF Effect, IInv
  <2>5. e.from = s /\ e.to = d /\ e.version = v
    OBVIOUS
  <2> HIDE DEF e
  <2>6. Complete(d, "DEFINITION") /\ v # 0
    BY <2>4, <2>5 DEF IInv, EdgeInv
  <2> QED  BY <2>4, <2>5, <2>6 DEF HasVersion, Versions
<1>4. ASSUME NEW s, NEW v, ViewEdgeOp(s, v) \in Past(c) PROVE <<s, v>> \in viewEdges
  <2>1. /\ ViewEdgeOp(s, v).do = "viewEdge" /\ ViewEdgeOp(s, v).from = s
        /\ ViewEdgeOp(s, v).to = v
    BY DEF ViewEdgeOp
  <2> QED  BY <1>1, <1>4, <2>1 DEF Effect
<1> QED  BY <1>1, <1>2, <1>3, <1>4 DEF There, Achieves

\* AnsweredIsThere, one request at a time.
LEMMA AnsweredIs ==
    AnsweredIsThere <=> \A c \in Callers : answer[c] = "ok" => There(request[c])
BY DEF AnsweredIsThere, There

\* What each call has done, and has made, after the step.
LEMMA StepMade ==
    ASSUME IInv, NEW c \in Callers, NEW op, Step(c, op)
    PROVE  /\ \A d \in Callers : Past(d) \subseteq Past(d)'
           /\ \A d \in Callers : \A o \in Past(d)' :
                o \in Past(d) \/ (d = c /\ o = op)
           /\ \A d \in Callers : \A id : Made(d, id)' =>
                Made(d, id) \/ (d = c /\ op.do = "create" /\ op.id = id)
           /\ \A d \in Callers : \A kind : NoneOf(kind, Past(d)') => NoneOf(kind, Past(d))
           /\ op \in Past(c)'
<1>1. /\ Past(c)' = Past(c) \cup {op}
      /\ \A d \in Callers \ {c} : Past(d)' = Past(d)
  BY AdvancePast DEF IInv, Step
<1>2. \A d \in Callers : Past(d) \subseteq Past(d)'
  BY <1>1
<1>3. \A d \in Callers : \A o \in Past(d)' : o \in Past(d) \/ (d = c /\ o = op)
  BY <1>1
<1>4. \A d \in Callers : \A id : Made(d, id)' =>
                Made(d, id) \/ (d = c /\ op.do = "create" /\ op.id = id)
  BY <1>3 DEF Made
<1>5. \A d \in Callers : \A kind : NoneOf(kind, Past(d)') => NoneOf(kind, Past(d))
  BY <1>2 DEF NoneOf
<1> QED  BY <1>1, <1>2, <1>3, <1>4, <1>5

\* What was done is in the graph, the operation of this step too.
LEMMA StepDoneInv ==
    ASSUME IInv, NEW c \in Callers, NEW op, Step(c, op)
    PROVE  DoneInv'
<1> SUFFICES ASSUME NEW d \in Callers, NEW o \in Past(d)' PROVE Effect(o)'
  BY DEF DoneInv
<1>1. CASE o \in Past(d)
  BY <1>1, StepGrows, EffectGrows DEF IInv, DoneInv
<1>2. CASE o = op
  BY <1>2 DEF Step, Does
<1> QED  BY <1>1, <1>2, StepMade

\* A vertex that another call has made is not made again.
LEMMA StepOwnInv ==
    ASSUME IInv, NEW c \in Callers, NEW op, Step(c, op)
    PROVE  OwnInv'
<1>1. ASSUME NEW d \in Callers, NEW id \in Ids, Made(d, id),
             op.do = "create", op.id = id
      PROVE  FALSE
  <2>1. PICK o \in Past(d) : o.do = "create" /\ o.id = id
    BY <1>1 DEF Made
  <2>2. vertex[id] = o.t /\ o.t \in Types
    BY <2>1, PastTypes DEF IInv, DoneInv, Effect
  <2>3. vertex[id] = "none"
    BY <1>1 DEF Step, Does
  <2> QED  BY <2>2, <2>3 DEF Types, Required
<1>2. ASSUME NEW d \in Callers, NEW e \in Callers, NEW id \in Ids, Made(d, id)', Made(e, id)'
      PROVE  d = e
  BY <1>1, <1>2, StepMade DEF IInv, OwnInv
<1> QED  BY <1>2 DEF OwnInv

\* The vertex at the end of a new edge is whole.
LEMMA StepEdgeInv ==
    ASSUME IInv, NEW c \in Callers, NEW op, Step(c, op)
    PROVE  EdgeInv'
<1>1. /\ May(request[c], op, Past(c)) /\ Does(op) /\ Grow
      /\ \A o \in Past(c) : Effect(o)
  BY DoingMay, StepGrows DEF IInv, Step, DoneInv
<1>t. "DEFINITION" \in Types /\ "VIEW" \in Types
  BY DEF Types, Required
<1>2. ASSUME NEW id, NEW t, CreateOp(id, t) \in Past(c),
             \A name \in Required[t] : Set(id, name) \in Past(c)
      PROVE  Complete(id, t)
  <2>1. CreateOp(id, t).do = "create" /\ CreateOp(id, t).id = id /\ CreateOp(id, t).t = t
    BY DEF CreateOp
  <2>2. vertex[id] = t
    BY <1>1, <1>2, <2>1 DEF Effect
  <2>3. ASSUME NEW name \in Required[t] PROVE property[id][name] # NoValue
    <3>1. Set(id, name).do = "set" /\ Set(id, name).id = id /\ Set(id, name).name = name
      BY DEF Set
    <3> QED  BY <1>1, <1>2, <3>1 DEF Effect
  <2> QED  BY <2>2, <2>3 DEF Complete
<1>3. ASSUME NEW e \in edges', NEW d, d = e.to PROVE Complete(d, "DEFINITION")'
  <2>1. d \in Ids /\ Complete(d, "DEFINITION")
    <3>1. CASE e \in edges
      BY <1>3, <3>1 DEF IInv, EdgeInv, TypeOK, Ids
    <3>2. CASE op.do = "edge" /\ d = op.to
      <4>1. /\ d \in Definitions
            /\ CreateOp(d, "DEFINITION") \in Past(c) /\ Set(d, "DEFINITION") \in Past(c)
        BY <1>1, <3>2 DEF May
      <4>2. Required["DEFINITION"] = {"DEFINITION"}
        BY DEF Required
      <4> QED  BY <1>2, <4>1, <4>2 DEF Ids
    <3>3. CASE op.do = "version" /\ d = op.to
      <4>1. op.to \in Definitions /\ EdgeOp(op.from, op.to) \in Past(c)
        BY <1>1, <3>3 DEF May
      <4>2. EdgeOp(op.from, op.to).do = "edge" /\ EdgeOp(op.from, op.to).to = op.to
        BY DEF EdgeOp
      <4>3. \E f \in edges : f.to = op.to
        BY <1>1, <4>1, <4>2 DEF Effect
      <4> QED  BY <3>3, <4>1, <4>3 DEF IInv, EdgeInv, Ids
    <3> QED  BY <1>1, <1>3, <3>1, <3>2, <3>3 DEF Does
  <2> QED  BY <1>1, <1>t, <2>1, CompleteGrows
<1>4. ASSUME NEW e \in viewEdges', NEW v, v = e[2] PROVE Complete(v, "VIEW")'
  <2>1. v \in Ids /\ Complete(v, "VIEW")
    <3>1. CASE e \in viewEdges
      <4>1. e[2] \in Views
        BY <3>1 DEF IInv, TypeOK
      <4> QED  BY <1>4, <3>1, <4>1 DEF IInv, EdgeInv, Ids
    <3>2. CASE op.do = "viewEdge" /\ e = <<op.from, op.to>>
      <4>1. /\ v = op.to /\ v \in Views /\ CreateOp(v, "VIEW") \in Past(c)
            /\ Set(v, "VIEW_NAME") \in Past(c) /\ Set(v, "JMESPATH") \in Past(c)
        BY <1>1, <1>4, <3>2 DEF May
      <4>2. Required["VIEW"] = {"VIEW_NAME", "JMESPATH"}
        BY DEF Required
      <4> QED  BY <1>2, <4>1, <4>2 DEF Ids
    <3> QED  BY <1>1, <3>1, <3>2 DEF Does
  <2> QED  BY <1>1, <1>t, <2>1, CompleteGrows
<1> QED  BY <1>3, <1>4 DEF EdgeInv

\* A new edge leads to a vertex that its own call has made.
LEMMA StepFreshInv ==
    ASSUME IInv, NEW c \in Callers, NEW op, Step(c, op)
    PROVE  FreshInv'
<1>1. May(request[c], op, Past(c)) /\ Does(op)
  BY DoingMay DEF IInv, Step
<1> SUFFICES ASSUME NEW d \in Callers, NEW id \in Ids, Made(d, id)'
             PROVE  /\ NoneOf("edge", Past(d)') => \A e \in edges' : e.to # id
                    /\ NoneOf("version", Past(d)') =>
                         \A e \in edges' : e.to = id => e.version = 0
                    /\ NoneOf("viewEdge", Past(d)') => \A e \in viewEdges' : e[2] # id
  BY DEF FreshInv
<1>2. CASE d = c /\ op.do = "create" /\ op.id = id
  <2>1. vertex[id] = "none"
    BY <1>1, <1>2 DEF Does
  <2>2. (\A e \in edges : e.to # id) /\ (\A e \in viewEdges : e[2] # id)
    BY <2>1 DEF IInv, EdgeInv, Complete
  <2>3. op.do \notin {"edge", "version", "viewEdge"}
    BY <1>2
  <2> QED  BY <1>1, <2>2, <2>3 DEF Does
<1>3. CASE Made(d, id)
  \* What the step adds leads to a vertex of c, which is then not one of d.
  <2>1. ASSUME op.do \in {"edge", "version", "viewEdge"}, op.to = id PROVE d = c
    <3>1. \E t : CreateOp(id, t) \in Past(c)
      BY <1>1, <2>1 DEF May
    <3>2. Made(c, id)
      BY <3>1, CreatedIsMade
    <3> QED  BY <1>3, <3>2 DEF IInv, OwnInv
  <2>2. d = c => ~ NoneOf(op.do, Past(d)')
    BY StepMade DEF NoneOf
  <2>3. \A kind : NoneOf(kind, Past(d)') => NoneOf(kind, Past(d))
    BY StepMade
  <2>4. ASSUME NoneOf("edge", Past(d)'), NEW e \in edges' PROVE e.to # id
    <3>1. \A f \in edges : f.to # id
      BY <1>3, <2>3, <2>4 DEF IInv, FreshInv
    <3>2. CASE op.do = "version" /\ e.to = op.to
      <4>1. EdgeOp(op.from, op.to) \in Past(c)
        BY <1>1, <3>2 DEF May
      <4>2. EdgeOp(op.from, op.to).do = "edge" /\ EdgeOp(op.from, op.to).to = op.to
        BY DEF EdgeOp
      <4>3. \E f \in edges : f.to = op.to
        BY <4>1, <4>2 DEF IInv, DoneInv, Effect
      <4> QED  BY <3>1, <3>2, <4>3
    <3>3. CASE op.do = "edge" /\ e.to = op.to
      BY <2>1, <2>2, <2>4, <3>3
    <3> QED  BY <1>1, <3>1, <3>2, <3>3 DEF Does
  <2>5. ASSUME NoneOf("version", Past(d)'), NEW e \in edges', e.to = id PROVE e.version = 0
    <3>1. \A f \in edges : f.to = id => f.version = 0
      BY <1>3, <2>3, <2>5 DEF IInv, FreshInv
    <3>2. CASE op.do = "version" /\ e.to = op.to
      BY <2>1, <2>2, <2>5, <3>2
    <3> QED  BY <1>1, <2>5, <3>1, <3>2 DEF Does
  <2>6. ASSUME NoneOf("viewEdge", Past(d)'), NEW e \in viewEdges' PROVE e[2] # id
    <3>1. \A f \in viewEdges : f[2] # id
      BY <1>3, <2>3, <2>6 DEF IInv, FreshInv
    <3>2. CASE op.do = "viewEdge" /\ e = <<op.from, op.to>>
      <4>1. e[2] = op.to
        BY <3>2
      <4> QED  BY <2>1, <2>2, <2>6, <3>2, <4>1
    <3> QED  BY <1>1, <3>1, <3>2 DEF Does
  <2> QED  BY <2>4, <2>5, <2>6
<1> QED  BY <1>2, <1>3, StepMade

\* The edge to a view is its only one.
LEMMA StepViewHasOneSchema ==
    ASSUME IInv, NEW c \in Callers, NEW op, Step(c, op)
    PROVE  ViewHasOneSchema'
<1>1. May(request[c], op, Past(c)) /\ Does(op)
  BY DoingMay DEF IInv, Step
<1>2. ASSUME op.do = "viewEdge" PROVE \A e \in viewEdges : e[2] # op.to
  <2>1. CreateOp(op.to, "VIEW") \in Past(c) /\ NoneOf("viewEdge", Past(c)) /\ op.to \in Ids
    BY <1>1, <1>2 DEF May, Ids
  <2>2. Made(c, op.to)
    BY <2>1, CreatedIsMade
  <2> QED  BY <2>1, <2>2 DEF IInv, FreshInv
<1>3. <<op.from, op.to>>[2] = op.to
  OBVIOUS
<1>4. ASSUME NEW e \in viewEdges', NEW f \in viewEdges', e[2] = f[2] PROVE e[1] = f[1]
  BY <1>1, <1>2, <1>3, <1>4 DEF IInv, ViewHasOneSchema, Does
<1> QED  BY <1>4 DEF ViewHasOneSchema

\* What was answered stays.
LEMMA StepAnsweredIsThere ==
    ASSUME IInv, NEW c \in Callers, NEW op, Step(c, op)
    PROVE  AnsweredIsThere'
<1>1. ASSUME NEW d \in Callers, answer'[d] = "ok", NEW r, r = request'[d] PROVE There(r)'
  <2>1. answer[d] = "ok" /\ r = request[d]
    BY <1>1 DEF Step, Advance
  <2>2. There(r) /\ r \in Requests \cup {NoRequest, ImportRequest}
    BY <2>1, AnsweredIs DEF IInv, TypeOK
  <2> QED  BY <2>2, StepGrows, ThereGrows DEF IInv
<1>2. \A d \in Callers : answer'[d] = "ok" => There(request[d])'
  BY <1>1 DEF There
<1> QED  BY <1>2 DEF AnsweredIsThere, There

\* The rest of the call's state.
LEMMA StepCallInv ==
    ASSUME IInv, NEW c \in Callers, NEW op, Step(c, op)
    PROVE  CallInv'
<1>1. request' = request /\ answer' = answer
  BY DEF Step, Advance
<1>2. ASSUME NEW d \in Callers PROVE at'[d] <= Len(Program(d)') + 1
  <2>1. /\ at'[d] <= Len(Program(d)') + 1 \/ at'[d] = at[d]
        /\ Program(d)' = Program(d)
    BY AdvancePast DEF Step, IInv
  <2>2. at[d] <= Len(Program(d)) + 1
    BY DEF IInv, CallInv
  <2> QED  BY <2>1, <2>2
<1>3. ASSUME NEW d \in Callers, answer'[d] # "running" PROVE at'[d] = 1 /\ listed'[d] = {}
  <2>1. d # c
    BY <1>1, <1>3 DEF Step
  <2>2. at'[d] = at[d] /\ listed'[d] = listed[d]
    BY <2>1 DEF Step, Advance, IInv, TypeOK
  <2> QED  BY <1>1, <1>3, <2>2 DEF IInv, CallInv
<1>4. /\ request'[Import] = ImportRequest
      /\ \A d \in Calls : request'[d] # ImportRequest
      /\ ~ Serving' => \A d \in Calls : answer'[d] # "running"
  BY <1>1 DEF IInv, CallInv, Serving
<1> QED  BY <1>2, <1>3, <1>4 DEF CallInv

\* The first process makes no vertex before it has found the store empty.
LEMMA StepFirstRun ==
    ASSUME IInv, NEW c \in Callers, NEW op, Step(c, op)
    PROVE  FirstRun'
<1> SUFFICES ASSUME crashes' = 0, answer'[Import] = "running", NoneOf("create", Past(Import)')
             PROVE  \A id \in Ids : vertex'[id] = "none"
  BY DEF FirstRun
<1>0. Import \in Callers
  BY DEF Callers
<1>1. crashes = 0 /\ answer[Import] = "running" /\ answer[c] = "running"
  BY DEF Step, Advance
<1>2. c = Import
  <2>1. ~ Serving
    BY <1>1 DEF Serving
  <2> QED  BY <1>1, <2>1 DEF IInv, CallInv, Callers
<1>3. op.do # "create"
  BY <1>2, StepMade DEF NoneOf
<1>4. \A id \in Ids : vertex[id] = "none"
  <2>1. NoneOf("create", Past(Import))
    BY <1>0, StepMade
  <2> QED  BY <1>1, <2>1 DEF IInv, FirstRun
<1>5. Does(op)
  BY DEF Step
<1> QED  BY <1>3, <1>4, <1>5 DEF Does

\* A schema that is not whole was so before, or its creation has just begun.
LEMMA StepOrigin ==
    ASSUME IInv, NEW c \in Callers, NEW op, Step(c, op)
    PROVE  Origin'
<1>0. "SCHEMA" \in Types
  BY DEF Types, Required
<1>1. /\ May(request[c], op, Past(c)) /\ Does(op)
      /\ answer[c] = "running" /\ answer' = answer /\ request' = request /\ crashes' = crashes
  BY DoingMay DEF IInv, Step, Advance
<1> SUFFICES ASSUME NEW id \in Ids, vertex'[id] = "SCHEMA", ~ Complete(id, "SCHEMA")'
             PROVE  id \in Schemas /\ (Interrupted(id)' \/ (id = ImportSchema /\ ~ Serving'))
  BY DEF Origin
<1>2. Interrupted(id)' = Interrupted(id) /\ Serving' = Serving
  BY <1>1 DEF Interrupted, Serving
<1>3. CASE vertex[id] = "SCHEMA"
  <2>1. ~ Complete(id, "SCHEMA")
    BY <1>0, StepGrows, CompleteGrows
  <2> QED  BY <1>2, <1>3, <2>1 DEF IInv, Origin
<1>4. CASE op.do = "create" /\ op.id = id /\ op.t = "SCHEMA"
  <2> DEFINE r == request[c]
  <2>0. r \in Requests \cup {NoRequest, ImportRequest}
    BY DEF IInv, TypeOK
  <2>1. \/ r.op = "add_schema" /\ id = r.id
        \/ r.op = "import" /\ id = ImportSchema
    BY <1>1, <1>4 DEF May
  <2>2. CASE r.op = "add_schema" /\ id = r.id
    <3>1. id \in Schemas
      BY <2>0, <2>2, RequestTypes
    <3>2. c \in Calls
      <4>1. ImportRequest.op # "add_schema"
        BY DEF ImportRequest
      <4> QED  BY <2>2, <4>1 DEF IInv, CallInv, Callers
    <3> QED  BY <1>1, <1>2, <2>2, <3>1, <3>2 DEF Interrupted
  <2>3. CASE r.op = "import" /\ id = ImportSchema
    <3>1. r = ImportRequest
      BY <2>0, <2>3, RequestTypes
    <3>2. c = Import
      BY <3>1 DEF IInv, CallInv, Callers
    <3>3. ~ Serving
      BY <1>1, <3>2 DEF Serving
    <3> QED  BY <1>2, <2>3, <3>3, ConstantsAssumption
  <2> QED  BY <2>1, <2>2, <2>3
<1> QED  BY <1>1, <1>3, <1>4 DEF Does

\* The versions listed are still there.
LEMMA StepListedInv ==
    ASSUME IInv, NEW c \in Callers, NEW op, Step(c, op)
    PROVE  ListedInv'
<1> SUFFICES ASSUME NEW d \in Callers, NEW v \in listed'[d]
             PROVE  \E e \in edges' : e.from = request'[d].id /\ e.version = v
  BY DEF ListedInv
<1>1. v # 0
  <2>1. listed[d] \subseteq Nat \ {0}
    BY DEF IInv, TypeOK
  <2> QED  BY <2>1 DEF Step
<1>2. \E e \in edges : e.from = request[d].id /\ e.version = v
  BY DEF Step, IInv, ListedInv
<1>3. request' = request
  BY DEF Step, Advance
<1> QED  BY <1>1, <1>2, <1>3, StepGrows DEF Grow

\* Together: a step of a call keeps the invariant.
LEMMA StepIInv ==
    ASSUME IInv, NEW c \in Callers, NEW op, Step(c, op), TypeOK'
    PROVE  IInv'
BY StepDoneInv, StepOwnInv, StepEdgeInv, StepFreshInv, StepViewHasOneSchema,
   StepAnsweredIsThere, StepCallInv, StepFirstRun, StepOrigin, StepListedInv DEF IInv

------------------------------------------------------------------------------
(* The writes, each a step of a call. *)

Writing == {"create", "set", "edge", "version", "viewEdge"}

\* The types of what a step of a call does to the calls.
LEMMA AdvanceTypes ==
    ASSUME TypeOK, NEW c \in Callers, Advance(c)
    PROVE  /\ request' \in [Callers -> Requests \cup {NoRequest, ImportRequest}]
           /\ at' \in [Callers -> Nat \ {0}]
           /\ answer' \in [Callers -> Answers]
           /\ crashes' \in 0 .. MaxCrashes
<1>1. at' \in [Callers -> Nat \ {0}]
  BY DEF TypeOK, Advance
<1> QED  BY <1>1 DEF TypeOK, Advance

\* A check that holds, or a read: the graph is left alone.
LEMMA PassIInv ==
    ASSUME IInv, NEW c \in Callers, answer[c] = "running", at[c] <= Len(Program(c)),
           Operation(c).do \notin Writing, Proceed(c), UNCHANGED graph
    PROVE  IInv'
<1>1. PICK op : op = Operation(c)
  OBVIOUS
<1>2. op.do \notin Writing
  BY <1>1
<1>3. Does(op)
  BY <1>2 DEF Does, Effect, Writing, graph
<1>4. Step(c, op)
  BY <1>1, <1>3 DEF Step, Proceed
<1>5. TypeOK'
  BY AdvanceTypes DEF IInv, TypeOK, Proceed, graph
<1> QED  BY <1>4, <1>5, StepIInv

\* create_vertex.
LEMMA CreateVertexStep ==
    ASSUME IInv, NEW c \in Callers, answer[c] = "running", at[c] <= Len(Program(c)),
           NEW op, op = Operation(c), op.do = "create", vertex[op.id] = "none",
           vertex' = [vertex EXCEPT ![op.id] = op.t],
           Proceed(c), UNCHANGED <<property, edges, viewEdges>>
    PROVE  Step(c, op) /\ IInv'
<1>1. op.id \in Ids /\ op.t \in Types
  BY DoingMay DEF IInv, May
<1>2. vertex \in [Ids -> Types \cup {"none"}]
  BY DEF IInv, TypeOK
<1>3. /\ vertex' \in [Ids -> Types \cup {"none"}] /\ vertex'[op.id] = op.t
      /\ \A id \in Ids : id # op.id => vertex'[id] = vertex[id]
  BY <1>1, <1>2
<1>4. Does(op)
  BY <1>3 DEF Does, Effect
<1>5. Step(c, op)
  BY <1>4 DEF Step, Proceed
<1>6. TypeOK'
  BY <1>3, AdvanceTypes DEF IInv, TypeOK, Proceed
<1> QED  BY <1>5, <1>6, StepIInv

\* set_vertex_properties.
LEMMA SetVertexPropertyStep ==
    ASSUME IInv, NEW c \in Callers, answer[c] = "running", at[c] <= Len(Program(c)),
           NEW op, op = Operation(c), op.do = "set",
           property' = [property EXCEPT ![op.id][op.name] = c],
           Proceed(c), UNCHANGED <<vertex, edges, viewEdges>>
    PROVE  Step(c, op) /\ IInv'
<1>1. op.id \in Ids /\ op.name \in Names
  BY DoingMay DEF IInv, May
<1>2. property \in [Ids -> [Names -> Callers \cup {NoValue}]]
  BY DEF IInv, TypeOK
<1>3. /\ property' \in [Ids -> [Names -> Callers \cup {NoValue}]]
      /\ property'[op.id][op.name] = c
      /\ \A id \in Ids : \A name \in Names :
           id # op.id \/ name # op.name => property'[id][name] = property[id][name]
  BY <1>1, <1>2
<1>4. c # NoValue
  BY ConstantsAssumption
<1>5. Does(op)
  BY <1>3, <1>4 DEF Does, Effect
<1>6. Step(c, op)
  BY <1>5 DEF Step, Proceed
<1>7. TypeOK'
  BY <1>3, AdvanceTypes DEF IInv, TypeOK, Proceed
<1> QED  BY <1>6, <1>7, StepIInv

\* create_edge.
LEMMA CreateEdgeStep ==
    ASSUME IInv, NEW c \in Callers, answer[c] = "running", at[c] <= Len(Program(c)),
           NEW op, op = Operation(c), op.do = "edge",
           edges' = edges \cup {[from |-> op.from, to |-> op.to, version |-> 0]},
           Proceed(c), UNCHANGED <<vertex, property, viewEdges>>
    PROVE  Step(c, op) /\ IInv'
<1>1. op.from \in Schemas /\ op.to \in Definitions
  BY DoingMay DEF IInv, May
<1> DEFINE e == [from |-> op.from, to |-> op.to, version |-> 0]
<1>2. /\ e.from = op.from /\ e.to = op.to /\ e.version = 0
      /\ e \in [from : Schemas, to : Definitions, version : Nat]
  BY <1>1
<1>3. edges' = edges \cup {e}
  OBVIOUS
<1> HIDE DEF e
<1>4. edges' \subseteq [from : Schemas, to : Definitions, version : Nat]
  BY <1>2, <1>3 DEF IInv, TypeOK
<1>5. Does(op)
  BY <1>2, <1>3 DEF Does, Effect
<1>6. Step(c, op)
  BY <1>5 DEF Step, Proceed
<1>7. TypeOK'
  BY <1>4, AdvanceTypes DEF IInv, TypeOK, Proceed
<1> QED  BY <1>6, <1>7, StepIInv

\* set_edge_properties: the edge is there, and gets its version.
LEMMA SetVersionStep ==
    ASSUME IInv, NEW c \in Callers, answer[c] = "running", at[c] <= Len(Program(c)),
           NEW op, op = Operation(c), op.do = "version",
           edges' = {IF e.from = op.from /\ e.to = op.to
                       THEN [e EXCEPT !.version = op.version] ELSE e : e \in edges},
           Proceed(c), UNCHANGED <<vertex, property, viewEdges>>
    PROVE  Step(c, op) /\ IInv'
<1> DEFINE S == [from : Schemas, to : Definitions, version : Nat]
           new == [from |-> op.from, to |-> op.to, version |-> op.version]
<1>1. /\ op.from \in Schemas /\ op.to \in Definitions /\ op.version \in Nat \ {0}
      /\ EdgeOp(op.from, op.to) \in Past(c)
  BY DoingMay DEF IInv, May
<1>2. \E e \in edges : e.from = op.from /\ e.to = op.to
  <2>1. /\ EdgeOp(op.from, op.to).do = "edge" /\ EdgeOp(op.from, op.to).from = op.from
        /\ EdgeOp(op.from, op.to).to = op.to
    BY DEF EdgeOp
  <2>2. Effect(EdgeOp(op.from, op.to))
    BY <1>1 DEF IInv, DoneInv
  <2> QED  BY <2>1, <2>2 DEF Effect
<1>3. edges \subseteq S
  BY DEF IInv, TypeOK
<1>4. \A e \in S : e.from = op.from /\ e.to = op.to => [e EXCEPT !.version = op.version] = new
  OBVIOUS
<1>5. new.from = op.from /\ new.to = op.to /\ new \in S
  BY <1>1
<1>6. \A f : f \in edges' <=> \/ f = new
                              \/ f \in edges /\ ~ (f.from = op.from /\ f.to = op.to)
  <2> HIDE DEF S, new
  <2>1. ASSUME NEW f \in edges'
        PROVE  f = new \/ (f \in edges /\ ~ (f.from = op.from /\ f.to = op.to))
    BY <1>3, <1>4
  <2>2. new \in edges'
    BY <1>2, <1>3, <1>4
  <2>3. ASSUME NEW f \in edges, ~ (f.from = op.from /\ f.to = op.to) PROVE f \in edges'
    BY <2>3
  <2> QED  BY <2>1, <2>2, <2>3
<1>7. new \in edges'
  BY <1>6
<1>8. Effect(op)'
  BY <1>7 DEF Effect
<1> HIDE DEF new, S
<1>9. edges' \subseteq S
  BY <1>3, <1>5, <1>6
<1>10. Does(op)
  <2>1. \A e \in edges' : e \in edges \/ e.to = op.to
    BY <1>5, <1>6
  <2>2. \A e \in edges : \/ e \in edges'
                         \/ /\ e.from = op.from /\ e.to = op.to
                            /\ \E f \in edges' : f.from = op.from /\ f.to = op.to
    BY <1>5, <1>6
  <2> QED  BY <1>8, <2>1, <2>2 DEF Does
<1>11. Step(c, op)
  BY <1>10 DEF Step, Proceed
<1>12. TypeOK'
  BY <1>9, AdvanceTypes DEF IInv, TypeOK, Proceed, S
<1> QED  BY <1>11, <1>12, StepIInv

\* create_edge of a view.
LEMMA CreateViewEdgeStep ==
    ASSUME IInv, NEW c \in Callers, answer[c] = "running", at[c] <= Len(Program(c)),
           NEW op, op = Operation(c), op.do = "viewEdge",
           viewEdges' = viewEdges \cup {<<op.from, op.to>>},
           Proceed(c), UNCHANGED <<vertex, property, edges>>
    PROVE  Step(c, op) /\ IInv'
<1>1. op.from \in Schemas /\ op.to \in Views
  BY DoingMay DEF IInv, May
<1>2. viewEdges' \subseteq Schemas \X Views
  BY <1>1 DEF IInv, TypeOK
<1>3. Does(op)
  BY DEF Does, Effect
<1>4. Step(c, op)
  BY <1>3 DEF Step, Proceed
<1>5. TypeOK'
  BY <1>2, AdvanceTypes DEF IInv, TypeOK, Proceed
<1> QED  BY <1>4, <1>5, StepIInv

------------------------------------------------------------------------------
(* The end of a call, its start, a crash. *)

\* A call ends: with success only at the end of its program, and it never answers
\* add_schema but with success or an error; the import is skipped only after a
\* crash.
LEMMA FinishIInv ==
    ASSUME IInv, NEW c \in Callers, answer[c] = "running",
           NEW result \in {"ok", "error", "malformed", "skipped"}, Finish(c, result),
           result = "ok" => at[c] > Len(Program(c)),
           result = "malformed" => request[c].op # "add_schema",
           result = "skipped" => c = Import /\ crashes # 0
    PROVE  IInv'
<1>1. /\ answer' = [answer EXCEPT ![c] = result] /\ at' = [at EXCEPT ![c] = 1]
      /\ listed' = [listed EXCEPT ![c] = {}]
      /\ UNCHANGED <<vertex, property, edges, viewEdges, request, crashes>>
  BY DEF Finish, graph
<1>2. /\ TypeOK /\ answer \in [Callers -> Answers] /\ at \in [Callers -> Nat \ {0}]
      /\ listed \in [Callers -> SUBSET (Nat \ {0})]
  BY DEF IInv, TypeOK
<1>3. /\ answer'[c] = result /\ at'[c] = 1 /\ listed'[c] = {}
      /\ \A d \in Callers \ {c} : answer'[d] = answer[d] /\ at'[d] = at[d] /\ listed'[d] = listed[d]
  BY <1>1, <1>2
<1>4. TypeOK'
  <2>1. result \in Answers
    BY DEF Answers
  <2> QED  BY <1>1, <1>2, <2>1 DEF TypeOK
<1>5. \A d \in Callers : Program(d)' = Program(d)
  BY <1>1 DEF Program
<1>6. Past(c)' = {} /\ \A d \in Callers \ {c} : Past(d)' = Past(d)
  <2>1. Past(c)' = {}
    BY <1>3 DEF Past, Before
  <2> QED  BY <1>3, <1>5, <2>1 DEF Past
<1>7. \A d \in Callers : \A id : Made(d, id)' => Made(d, id) /\ d # c
  BY <1>6 DEF Made
<1>8. \A op : Effect(op)' <=> Effect(op)
  BY <1>1 DEF Effect
<1>9. \A id, t : Complete(id, t)' <=> Complete(id, t)
  BY <1>1 DEF Complete
<1>10. ViewHasOneSchema' /\ EdgeInv'
  BY <1>1, <1>9 DEF IInv, ViewHasOneSchema, EdgeInv
<1>11. DoneInv'
  BY <1>6, <1>8 DEF IInv, DoneInv
<1>12. OwnInv'
  BY <1>7 DEF IInv, OwnInv
<1>13. FreshInv'
  <2> SUFFICES ASSUME NEW d \in Callers, NEW id \in Ids, Made(d, id)'
               PROVE  /\ NoneOf("edge", Past(d)') => \A e \in edges' : e.to # id
                      /\ NoneOf("version", Past(d)') =>
                           \A e \in edges' : e.to = id => e.version = 0
                      /\ NoneOf("viewEdge", Past(d)') => \A e \in viewEdges' : e[2] # id
    BY DEF FreshInv
  <2>1. Made(d, id) /\ Past(d)' = Past(d)
    BY <1>6, <1>7
  <2> QED  BY <1>1, <2>1 DEF IInv, FreshInv
<1>14. FirstRun'
  <2> SUFFICES ASSUME crashes' = 0, answer'[Import] = "running", NoneOf("create", Past(Import)')
               PROVE  \A id \in Ids : vertex'[id] = "none"
    BY DEF FirstRun
  <2>1. Import \in Callers /\ Import # c
    BY <1>3 DEF Callers
  <2>2. answer[Import] = "running" /\ Past(Import)' = Past(Import)
    BY <1>3, <1>6, <2>1
  <2> QED  BY <1>1, <2>2 DEF IInv, FirstRun
<1>15. AnsweredIsThere'
  <2>1. ASSUME NEW d \in Callers, answer'[d] = "ok", NEW r, r = request[d] PROVE There(r)
    <3>1. CASE d = c
      BY <1>3, <2>1, <3>1, AchievedIsThere
    <3>2. CASE d # c
      BY <1>3, <2>1, <3>2, AnsweredIs DEF IInv
    <3> QED  BY <3>1, <3>2
  <2>2. \A r : There(r)' <=> There(r)
    BY <1>1, <1>9 DEF There, HasVersion, Versions
  <2>3. \A d \in Callers : answer'[d] = "ok" => There(request[d])'
    BY <1>1, <2>1, <2>2 DEF There
  <2> QED  BY <2>3 DEF AnsweredIsThere, There
<1>16. CallInv'
  <2>1. ASSUME NEW d \in Callers
        PROVE  /\ at'[d] <= Len(Program(d)') + 1
               /\ answer'[d] # "running" => at'[d] = 1 /\ listed'[d] = {}
    <3>1. CASE d = c
      <4>1. 1 <= Len(Program(c)) + 1
        BY <1>2, ProgramFine
      <4> QED  BY <1>3, <1>5, <3>1, <4>1
    <3>2. CASE d # c
      BY <1>3, <1>5, <3>2 DEF IInv, CallInv
    <3> QED  BY <3>1, <3>2
  <2>2. ASSUME ~ Serving', NEW d \in Calls PROVE answer'[d] # "running"
    <3>1. Import \in Callers /\ d \in Callers
      BY DEF Callers
    <3>2. ~ Serving
      BY <1>3, <2>2, <3>1 DEF Serving
    <3> QED  BY <1>3, <3>1, <3>2 DEF IInv, CallInv
  <2>3. request'[Import] = ImportRequest /\ \A d \in Calls : request'[d] # ImportRequest
    BY <1>1 DEF IInv, CallInv
  <2> QED  BY <2>1, <2>2, <2>3 DEF CallInv
<1>17. Origin'
  <2> SUFFICES ASSUME NEW id \in Ids, vertex'[id] = "SCHEMA", ~ Complete(id, "SCHEMA")'
               PROVE  id \in Schemas /\ (Interrupted(id)' \/ (id = ImportSchema /\ ~ Serving'))
    BY DEF Origin
  <2>1. ~ Complete(id, "SCHEMA") /\ id \in Schemas
    BY <1>1, <1>9 DEF IInv, Origin
  <2>2. Interrupted(id) \/ (id = ImportSchema /\ ~ Serving)
    BY <1>1, <2>1 DEF IInv, Origin
  <2>3. result = "ok" => There(request[c])
    BY AchievedIsThere
  <2>4. ASSUME NEW d \in Calls, request[d].op = "add_schema", request[d].id = id,
               answer[d] \in {"running", "error"}
        PROVE  answer'[d] \in {"running", "error"}
    <3>1. CASE d = c
      <4>1. c # Import
        BY <3>1, ConstantsAssumption
      <4>2. result # "ok"
        BY <2>1, <2>3, <2>4, <3>1 DEF There
      <4> QED  BY <1>3, <2>4, <3>1, <4>1, <4>2
    <3>2. CASE d # c
      BY <1>3, <2>4, <3>2 DEF Callers
    <3> QED  BY <3>1, <3>2
  <2>5. CASE Interrupted(id)
    <3>1. Interrupted(id)'
      BY <1>1, <2>4, <2>5 DEF Interrupted
    <3> QED  BY <2>1, <3>1
  <2>6. CASE id = ImportSchema /\ ~ Serving
    <3>1. CASE c = Import
      <4>1. result # "ok"
        <5>1. request[c].op = "import"
          BY <3>1 DEF IInv, CallInv, ImportRequest
        <5> QED  BY <2>1, <2>3, <2>6, <5>1 DEF There
      <4>2. CASE result = "skipped"
        <5>1. crashes > 0
          BY <1>2, <4>2, ConstantsAssumption DEF TypeOK
        <5> QED  BY <1>1, <2>1, <2>6, <5>1 DEF Interrupted
      <4>3. CASE result \in {"error", "malformed"}
        BY <1>3, <2>1, <2>6, <3>1, <4>3 DEF Serving
      <4> QED  BY <4>1, <4>2, <4>3
    <3>2. CASE c # Import
      BY <1>3, <2>1, <2>6, <3>2 DEF Serving, Callers
    <3> QED  BY <3>1, <3>2
  <2> QED  BY <2>2, <2>5, <2>6
<1>18. ListedInv'
  BY <1>1, <1>3 DEF IInv, ListedInv
<1> QED  BY <1>4, <1>10, <1>11, <1>12, <1>13, <1>14, <1>15, <1>16, <1>17, <1>18 DEF IInv

\* A call starts.
LEMMA StartIInv ==
    ASSUME IInv, NEW c \in Calls, NEW r \in Requests, Start(c, r)
    PROVE  IInv'
<1>0. c \in Callers /\ c # Import /\ Import \in Callers
  BY ConstantsAssumption DEF Callers
<1>1. /\ answer[c] = "none" /\ Serving
      /\ request' = [request EXCEPT ![c] = r] /\ answer' = [answer EXCEPT ![c] = "running"]
      /\ UNCHANGED <<vertex, property, edges, viewEdges, at, listed, crashes>>
  BY DEF Start, graph
<1>2. /\ TypeOK /\ answer \in [Callers -> Answers]
      /\ request \in [Callers -> Requests \cup {NoRequest, ImportRequest}]
  BY DEF IInv, TypeOK
<1>3. /\ answer'[c] = "running" /\ request'[c] = r
      /\ \A d \in Callers \ {c} : answer'[d] = answer[d] /\ request'[d] = request[d]
  BY <1>0, <1>1, <1>2
<1>4. TypeOK'
  <2>1. "running" \in Answers
    BY DEF Answers
  <2> QED  BY <1>1, <1>2, <2>1 DEF TypeOK
<1>5. at[c] = 1 /\ listed[c] = {} /\ Past(c) = {}
  <2>1. at[c] = 1 /\ listed[c] = {}
    BY <1>0, <1>1 DEF IInv, CallInv
  <2> QED  BY <1>0, <2>1, NothingDone
<1>6. \A d \in Callers : Past(d)' = Past(d)
  <2>1. Past(c)' = {}
    BY <1>1, <1>5 DEF Past, Before
  <2>2. \A d \in Callers \ {c} : Past(d)' = Past(d)
    BY <1>1, <1>3 DEF Past, Program
  <2> QED  BY <1>5, <2>1, <2>2
<1>7. \A d \in Callers : \A id : Made(d, id)' <=> Made(d, id)
  BY <1>6 DEF Made
<1>8. \A id, t : Complete(id, t)' <=> Complete(id, t)
  BY <1>1 DEF Complete
<1>9. ViewHasOneSchema' /\ EdgeInv'
  BY <1>1, <1>8 DEF IInv, ViewHasOneSchema, EdgeInv
<1>10. DoneInv'
  <2>1. \A op : Effect(op)' <=> Effect(op)
    BY <1>1 DEF Effect
  <2> QED  BY <1>6, <2>1 DEF IInv, DoneInv
<1>11. OwnInv'
  BY <1>7 DEF IInv, OwnInv
<1>12. FreshInv'
  BY <1>1, <1>6, <1>7 DEF IInv, FreshInv
<1>13. FirstRun'
  BY <1>0, <1>1, <1>3 DEF FirstRun, Serving
<1>14. AnsweredIsThere'
  <2>1. \A q : There(q)' <=> There(q)
    BY <1>1, <1>8 DEF There, HasVersion, Versions
  <2>2. \A d \in Callers : answer'[d] = "ok" => There(request'[d])
    BY <1>3, AnsweredIs DEF IInv
  <2>3. ASSUME NEW d \in Callers, answer'[d] = "ok", NEW q, q = request'[d] PROVE There(q)'
    BY <2>1, <2>2, <2>3
  <2>4. \A d \in Callers : answer'[d] = "ok" => There(request[d])'
    BY <2>3 DEF There
  <2> QED  BY <2>4 DEF AnsweredIsThere, There
<1>15. CallInv'
  <2>1. r.op # "import" /\ r # ImportRequest
    <3>1. r.op # "import"
      BY ConstantsAssumption
    <3> QED  BY <3>1 DEF ImportRequest
  <2>2. request'[Import] = ImportRequest /\ \A d \in Calls : request'[d] # ImportRequest
    BY <1>0, <1>3, <2>1 DEF IInv, CallInv, Callers
  <2>3. Serving'
    BY <1>0, <1>1, <1>3 DEF Serving
  <2>4. ASSUME NEW d \in Callers
        PROVE  /\ at'[d] <= Len(Program(d)') + 1
               /\ answer'[d] # "running" => at'[d] = 1 /\ listed'[d] = {}
    <3>1. CASE d = c
      <4> DEFINE p == Operations(c, r)
      <4>1. Program(c)' = p
        BY <1>0, <1>3 DEF Program, Programs
      <4>2. Fine(r, p, {})
        BY <1>0, OperationsFine
      <4> HIDE DEF p
      <4>3. Len(p) \in Nat
        BY <4>2 DEF Fine
      <4> QED  BY <1>1, <1>3, <1>5, <3>1, <4>1, <4>3
    <3>2. CASE d # c
      <4>1. Program(d)' = Program(d)
        BY <1>3, <3>2 DEF Program
      <4> QED  BY <1>1, <1>3, <3>2, <4>1 DEF IInv, CallInv
    <3> QED  BY <3>1, <3>2
  <2> QED  BY <2>2, <2>3, <2>4 DEF CallInv
<1>16. Origin'
  <2>1. Serving' = Serving
    BY <1>0, <1>3 DEF Serving
  <2>2. \A id : Interrupted(id) => Interrupted(id)'
    <3>1. \A d \in Calls : answer[d] \in {"running", "error"} =>
             answer'[d] = answer[d] /\ request'[d] = request[d]
      BY <1>1, <1>3 DEF Callers
    <3> QED  BY <1>1, <3>1 DEF Interrupted
  <2> QED  BY <1>1, <1>8, <2>1, <2>2 DEF IInv, Origin
<1>17. ListedInv'
  BY <1>1, <1>3, <1>5 DEF IInv, ListedInv
<1> QED  BY <1>4, <1>9, <1>10, <1>11, <1>12, <1>13, <1>14, <1>15, <1>16, <1>17 DEF IInv

\* The process dies, and the next one starts with the import.
LEMMA CrashIInv ==
    ASSUME IInv, Crash
    PROVE  IInv'
<1>0. Import \in Callers /\ Calls \subseteq Callers /\ Import \notin Calls
  BY ConstantsAssumption DEF Callers
<1>1. /\ crashes' = crashes + 1 /\ crashes < MaxCrashes
      /\ UNCHANGED <<vertex, property, edges, viewEdges, request>>
  BY DEF Crash, graph
<1>2. /\ answer'[Import] = "running"
      /\ \A d \in Calls : answer'[d] = IF answer[d] = "running" THEN "error" ELSE answer[d]
      /\ \A d \in Callers : at'[d] = 1 /\ listed'[d] = {}
  BY <1>0 DEF Crash
<1>3. TypeOK'
  <2>1. \A d \in Callers : answer[d] \in Answers
    BY DEF IInv, TypeOK
  <2>2. answer' \in [Callers -> Answers]
    BY <2>1 DEF Crash, Answers
  <2>3. at' \in [Callers -> Nat \ {0}] /\ listed' \in [Callers -> SUBSET (Nat \ {0})]
    BY DEF Crash
  <2>4. crashes' \in 0 .. MaxCrashes
    BY <1>1, ConstantsAssumption DEF IInv, TypeOK
  <2> QED  BY <1>1, <2>2, <2>3, <2>4 DEF IInv, TypeOK
<1>4. \A d \in Callers : Past(d)' = {}
  BY <1>2 DEF Past, Before
<1>5. \A d \in Callers : \A id : ~ Made(d, id)'
  BY <1>4 DEF Made
<1>6. \A id, t : Complete(id, t)' <=> Complete(id, t)
  BY <1>1 DEF Complete
<1>7. ViewHasOneSchema' /\ EdgeInv'
  BY <1>1, <1>6 DEF IInv, ViewHasOneSchema, EdgeInv
<1>8. DoneInv'
  BY <1>4 DEF DoneInv
<1>9. OwnInv' /\ FreshInv'
  BY <1>5 DEF OwnInv, FreshInv
<1>10. crashes' > 0
  BY <1>1 DEF IInv, TypeOK
<1>11. FirstRun'
  BY <1>10 DEF FirstRun
<1>12. AnsweredIsThere'
  <2>1. \A q : There(q)' <=> There(q)
    BY <1>1, <1>6 DEF There, HasVersion, Versions
  <2>2. \A d \in Callers : answer'[d] = "ok" => answer[d] = "ok"
    BY <1>2 DEF Callers
  <2>3. ASSUME NEW d \in Callers, answer'[d] = "ok", NEW q, q = request'[d] PROVE There(q)'
    BY <1>1, <2>1, <2>2, <2>3, AnsweredIs DEF IInv
  <2>4. \A d \in Callers : answer'[d] = "ok" => There(request[d])'
    BY <2>3 DEF There
  <2> QED  BY <2>4 DEF AnsweredIsThere, There
<1>13. CallInv'
  <2>1. ASSUME NEW d \in Callers PROVE at'[d] <= Len(Program(d)') + 1
    <3>1. Program(d)' = Program(d)
      BY <1>1 DEF Program
    <3>2. Len(Program(d)) \in Nat
      BY ProgramFine DEF IInv
    <3> QED  BY <1>2, <3>1, <3>2
  <2>2. \A d \in Calls : answer'[d] # "running"
    BY <1>2
  <2> QED  BY <1>1, <1>2, <2>1, <2>2 DEF IInv, CallInv
<1>14. Origin'
  <2>1. \A id : Interrupted(id) => Interrupted(id)'
    <3>1. \A d \in Calls : answer[d] \in {"running", "error"} => answer'[d] \in {"running", "error"}
      BY <1>2
    <3> QED  BY <1>1, <1>10, <3>1 DEF Interrupted
  <2>2. Interrupted(ImportSchema)'
    BY <1>10 DEF Interrupted
  <2> QED  BY <1>1, <1>6, <2>1, <2>2 DEF IInv, Origin
<1>15. ListedInv'
  BY <1>2 DEF ListedInv
<1> QED  BY <1>3, <1>7, <1>8, <1>9, <1>11, <1>12, <1>13, <1>14, <1>15 DEF IInv

------------------------------------------------------------------------------
(* The actions. *)

\* Reads and checks that go on, or end the call with an error.
LEMMA ReadIInv ==
    ASSUME IInv, NEW c \in Callers, NEW kind, Doing(c, kind), kind \notin Writing,
           (Proceed(c) /\ UNCHANGED graph) \/ Finish(c, "error")
    PROVE  IInv'
<1>1. /\ answer[c] = "running" /\ at[c] <= Len(Program(c)) /\ Operation(c).do \notin Writing
  BY DEF Doing, Operation
<1>2. CASE Proceed(c) /\ UNCHANGED graph
  BY <1>1, <1>2, PassIInv
<1>3. CASE Finish(c, "error")
  BY <1>1, <1>3, FinishIInv
<1> QED  BY <1>2, <1>3

\* The checks.
LEMMA ChecksIInv ==
    ASSUME IInv, NEW c \in Callers,
           \/ CheckTopic(c) \/ EnsureSchemaExists(c) \/ CheckVersion(c) \/ BuildFullSchema(c)
           \/ GetView(c) \/ RejectType(c) \/ GetSchema(c) \/ GetProperty(c) \/ ExportAll(c)
    PROVE  IInv'
<1>1. \E kind \in {"topic", "exists", "newest", "build", "view", "fail", "schema", "get", "export"} :
        Doing(c, kind) /\ ((Proceed(c) /\ UNCHANGED graph) \/ Finish(c, "error"))
  <2>1. CASE CheckTopic(c)
    BY <2>1 DEF CheckTopic, Check, CheckOr
  <2>2. CASE EnsureSchemaExists(c)
    BY <2>2 DEF EnsureSchemaExists, Check, CheckOr
  <2>3. CASE CheckVersion(c)
    BY <2>3 DEF CheckVersion, Check, CheckOr
  <2>4. CASE BuildFullSchema(c)
    BY <2>4 DEF BuildFullSchema, Check, CheckOr
  <2>5. CASE GetView(c)
    BY <2>5 DEF GetView, Check, CheckOr
  <2>6. CASE RejectType(c)
    BY <2>6 DEF RejectType, Check, CheckOr
  <2>7. CASE GetSchema(c)
    BY <2>7 DEF GetSchema, Check, CheckOr
  <2>8. CASE GetProperty(c)
    BY <2>8 DEF GetProperty, Check, CheckOr
  <2>9. CASE ExportAll(c)
    BY <2>9 DEF ExportAll
  <2> QED  BY <2>1, <2>2, <2>3, <2>4, <2>5, <2>6, <2>7, <2>8, <2>9
<1>2. \A kind \in {"topic", "exists", "newest", "build", "view", "fail", "schema", "get", "export"} :
        kind \notin Writing
  BY DEF Writing
<1> QED  BY <1>1, <1>2, ReadIInv

\* import_all finds a schema only if an earlier process left it.
LEMMA CheckEmptyIInv ==
    ASSUME IInv, NEW c \in Callers, CheckEmpty(c)
    PROVE  IInv'
<1>1. /\ Doing(c, "empty") /\ answer[c] = "running" /\ at[c] <= Len(Program(c))
      /\ Operation(c).do = "empty"
  BY DEF CheckEmpty, Doing, Operation
<1>2. request[c].op = "import" /\ NoneOf("create", Past(c))
  BY <1>1, DoingMay DEF IInv, May
<1>3. c = Import
  <2>1. request[c] \in Requests \cup {NoRequest, ImportRequest}
    BY DEF IInv, TypeOK
  <2>2. request[c] = ImportRequest
    BY <1>2, <2>1, RequestTypes
  <2> QED  BY <2>2 DEF IInv, CallInv, Callers
<1>4. CASE Proceed(c) /\ UNCHANGED graph
  <2>1. "empty" \notin Writing
    BY DEF Writing
  <2> QED  BY <1>1, <1>4, <2>1, ReadIInv
<1>5. CASE /\ \E s \in Schemas : vertex[s] = "SCHEMA" /\ property[s]["NAME"] # NoValue
           /\ Finish(c, "skipped")
  <2>1. crashes # 0
    <3>1. \E id \in Ids : vertex[id] # "none"
      BY <1>5 DEF Ids
    <3> QED  BY <1>1, <1>2, <1>3, <3>1 DEF IInv, FirstRun
  <2> QED  BY <1>1, <1>3, <1>5, <2>1, FinishIInv
<1> QED  BY <1>4, <1>5 DEF CheckEmpty

\* get_all_schemas.
LEMMA GetAllSchemasIInv ==
    ASSUME IInv, NEW c \in Callers, GetAllSchemas(c)
    PROVE  IInv'
<1>1. /\ Doing(c, "schemas") /\ answer[c] = "running" /\ at[c] <= Len(Program(c))
      /\ Operation(c).do = "schemas"
  BY DEF GetAllSchemas, CheckOr, Doing, Operation
<1>2. request[c].op = "schemas"
  BY <1>1, DoingMay DEF IInv, May
<1>3. CASE Proceed(c) /\ UNCHANGED graph
  <2>1. "schemas" \notin Writing
    BY DEF Writing
  <2> QED  BY <1>1, <1>3, <2>1, ReadIInv
<1>4. CASE Finish(c, "malformed")
  BY <1>1, <1>2, <1>4, FinishIInv
<1> QED  BY <1>3, <1>4 DEF GetAllSchemas, CheckOr

\* get_all_views_of_schema finds every view whole.
LEMMA GetAllViewsWhole ==
    ASSUME IInv, NEW c \in Callers, GetAllViewsOfSchema(c)
    PROVE  Doing(c, "views") /\ Proceed(c) /\ UNCHANGED graph
BY DEF GetAllViewsOfSchema, CheckOr, IInv, EdgeInv

\* So the list of views is a read that goes on.
LEMMA GetAllViewsIInv ==
    ASSUME IInv, NEW c \in Callers, GetAllViewsOfSchema(c)
    PROVE  IInv'
<1>1. "views" \notin Writing
  BY DEF Writing
<1> QED  BY <1>1, GetAllViewsWhole, ReadIInv

\* get_schema_versions.
LEMMA GetSchemaVersionsIInv ==
    ASSUME IInv, NEW c \in Callers, GetSchemaVersions(c)
    PROVE  IInv'
<1>1. /\ answer[c] = "running" /\ at[c] <= Len(Program(c)) /\ Operation(c).do = "versions"
      /\ Advance(c) /\ UNCHANGED <<vertex, property, edges, viewEdges>>
      /\ listed' = [listed EXCEPT ![c] = {e.version : e \in Versions(Operation(c).id)}]
  BY DEF GetSchemaVersions, Doing, Operation, graph
<1>2. Operation(c).id = request[c].id
  BY <1>1, DoingMay DEF IInv, May
<1>3. PICK op : op = Operation(c)
  OBVIOUS
<1>4. op.do \notin Writing
  BY <1>1, <1>3 DEF Writing
<1>5. Does(op)
  BY <1>1, <1>4 DEF Does, Effect, Writing
<1> DEFINE found == {e.version : e \in Versions(Operation(c).id)}
<1>6. /\ found \subseteq Nat \ {0}
      /\ \A v \in found : v # 0 /\ \E e \in edges : e.from = request[c].id /\ e.version = v
  BY <1>2 DEF Versions, IInv, TypeOK
<1> HIDE DEF found
<1>7. listed \in [Callers -> SUBSET (Nat \ {0})] /\ listed' = [listed EXCEPT ![c] = found]
  BY <1>1 DEF IInv, TypeOK, found
<1>8. /\ listed' \in [Callers -> SUBSET (Nat \ {0})] /\ listed'[c] = found
      /\ \A d \in Callers \ {c} : listed'[d] = listed[d]
  BY <1>6, <1>7
<1>9. Step(c, op)
  BY <1>1, <1>3, <1>5, <1>6, <1>8 DEF Step
<1>10. TypeOK'
  BY <1>1, <1>8, AdvanceTypes DEF IInv, TypeOK
<1> QED  BY <1>9, <1>10, StepIInv

\* Nothing happens but that there may be less to read.
LEMMA ListedIInv ==
    ASSUME IInv, listed' \in [Callers -> SUBSET (Nat \ {0})],
           \A d \in Callers : listed'[d] \subseteq listed[d],
           UNCHANGED <<graph, request, at, answer, crashes>>
    PROVE  IInv'
<1>1. UNCHANGED <<vertex, property, edges, viewEdges, request, at, answer, crashes>>
  BY DEF graph
<1>4. TypeOK'
  BY <1>1 DEF IInv, TypeOK
<1>5. ListedInv'
  BY <1>1 DEF IInv, ListedInv
<1>6. CallInv'
  <2>1. \A d \in Callers : listed[d] = {} => listed'[d] = {}
    OBVIOUS
  <2> QED  BY <1>1, <2>1 DEF IInv, CallInv, Program, Serving
<1>7. \A d : Past(d)' = Past(d)
  BY <1>1 DEF Past, Program
<1>8. /\ \A op : Effect(op)' <=> Effect(op)
      /\ \A id, t : Complete(id, t)' <=> Complete(id, t)
      /\ \A d, id : Made(d, id)' <=> Made(d, id)
  BY <1>1, <1>7 DEF Effect, Complete, Made
<1>9. DoneInv' /\ OwnInv' /\ EdgeInv' /\ ViewHasOneSchema'
  BY <1>1, <1>7, <1>8 DEF IInv, DoneInv, OwnInv, EdgeInv, ViewHasOneSchema
<1>10. FreshInv' /\ FirstRun'
  BY <1>1, <1>7, <1>8 DEF IInv, FreshInv, FirstRun
<1>11. Origin'
  BY <1>1, <1>8 DEF IInv, Origin, Interrupted, Serving
<1>12. AnsweredIsThere'
  BY <1>1, <1>8 DEF IInv, AnsweredIsThere, HasVersion, Versions
<1> QED  BY <1>4, <1>5, <1>6, <1>9, <1>10, <1>11, <1>12 DEF IInv

\* get_schema of a version that was listed finds it.
LEMMA GetSchemaDefinitionFinds ==
    ASSUME IInv, NEW c \in Callers, GetSchemaDefinition(c)
    PROVE  /\ Doing(c, "definitions")
           /\ \/ \E v : /\ listed' = [listed EXCEPT ![c] = @ \ {v}]
                        /\ UNCHANGED <<graph, request, at, answer, crashes>>
              \/ Proceed(c) /\ UNCHANGED graph
<1>1. /\ answer[c] = "running" /\ at[c] <= Len(Program(c)) /\ Operation(c).do = "definitions"
      /\ Doing(c, "definitions")
  BY DEF GetSchemaDefinition, Doing, Operation
<1>2. Operation(c).id = request[c].id
  BY <1>1, DoingMay DEF IInv, May
<1>3. ASSUME NEW v \in listed[c], NEW found,
             found = {e \in Versions(Operation(c).id) : e.version = v}
      PROVE  found # {} /\ \A e \in found : Complete(e.to, "DEFINITION")
  <2>1. v # 0
    BY DEF IInv, TypeOK
  <2>2. \E e \in edges : e.from = Operation(c).id /\ e.version = v
    BY <1>2 DEF IInv, ListedInv
  <2>3. found # {}
    BY <1>3, <2>1, <2>2 DEF Versions
  <2> QED  BY <1>3, <2>3 DEF IInv, EdgeInv, Versions
<1> QED  BY <1>1, <1>3 DEF GetSchemaDefinition

\* So it leaves one version less to read, or goes on.
LEMMA GetSchemaDefinitionIInv ==
    ASSUME IInv, NEW c \in Callers, GetSchemaDefinition(c)
    PROVE  IInv'
<1>1. answer[c] = "running" /\ "definitions" \notin Writing
  BY GetSchemaDefinitionFinds DEF Doing, Writing
<1>2. CASE Proceed(c) /\ UNCHANGED graph
  BY <1>1, <1>2, GetSchemaDefinitionFinds, ReadIInv
<1>3. CASE \E v : /\ listed' = [listed EXCEPT ![c] = @ \ {v}]
                  /\ UNCHANGED <<graph, request, at, answer, crashes>>
  <2>1. listed \in [Callers -> SUBSET (Nat \ {0})]
    BY DEF IInv, TypeOK
  <2>2. /\ listed' \in [Callers -> SUBSET (Nat \ {0})]
        /\ \A d \in Callers : listed'[d] \subseteq listed[d]
    BY <1>3, <2>1
  <2> QED  BY <1>3, <2>2, ListedIInv
<1> QED  BY <1>2, <1>3, GetSchemaDefinitionFinds

\* A write is a step of its call, or the error of an id that is taken.
LEMMA WriteSteps ==
    ASSUME IInv, NEW c \in Callers, Write(c)
    PROVE  /\ IInv'
           /\ (\E op : Step(c, op)) \/ (answer[c] = "running" /\ Finish(c, "error"))
<1>1. PICK op : op = Operation(c)
  OBVIOUS
<1>2. \A kind : Doing(c, kind) =>
        answer[c] = "running" /\ at[c] <= Len(Program(c)) /\ op.do = kind
  BY <1>1 DEF Doing, Operation
<1>3. CASE CreateVertex(c)
  <2>1. CASE vertex[op.id] = "none"
    <3>1. Step(c, op) /\ IInv'
      BY <1>1, <1>2, <1>3, <2>1, CreateVertexStep DEF CreateVertex
    <3> QED  BY <3>1
  <2>2. CASE vertex[op.id] # "none"
    <3>1. answer[c] = "running" /\ Finish(c, "error")
      BY <1>1, <1>2, <1>3, <2>2 DEF CreateVertex
    <3> QED  BY <3>1, FinishIInv
  <2> QED  BY <2>1, <2>2
<1>4. CASE SetVertexProperty(c)
  <2>1. Step(c, op) /\ IInv'
    BY <1>1, <1>2, <1>4, SetVertexPropertyStep DEF SetVertexProperty
  <2> QED  BY <2>1
<1>5. CASE CreateEdge(c)
  <2>1. Step(c, op) /\ IInv'
    BY <1>1, <1>2, <1>5, CreateEdgeStep DEF CreateEdge
  <2> QED  BY <2>1
<1>6. CASE SetVersion(c)
  <2>1. Step(c, op) /\ IInv'
    BY <1>1, <1>2, <1>6, SetVersionStep DEF SetVersion
  <2> QED  BY <2>1
<1>7. CASE CreateViewEdge(c)
  <2>1. Step(c, op) /\ IInv'
    BY <1>1, <1>2, <1>7, CreateViewEdgeStep DEF CreateViewEdge
  <2> QED  BY <2>1
<1> QED  BY <1>3, <1>4, <1>5, <1>6, <1>7 DEF Write

\* The empty store, in which the first process starts its import.
LEMMA InitIInv ==
    ASSUME Init
    PROVE  IInv
<1>0. Import \in Callers /\ Import \notin Calls /\ Calls \subseteq Callers
  BY ConstantsAssumption DEF Callers
<1>1. /\ \A id \in Ids : vertex[id] = "none"
      /\ edges = {} /\ viewEdges = {}
      /\ request[Import] = ImportRequest /\ answer[Import] = "running"
      /\ \A c \in Calls : request[c] = NoRequest /\ answer[c] = "none"
      /\ \A c \in Callers : at[c] = 1 /\ listed[c] = {}
  BY <1>0 DEF Init
<1>2. TypeOK
  <2>1. \A c \in Callers : (IF c = Import THEN "running" ELSE "none") \in Answers
    BY DEF Answers
  <2>2. crashes \in 0 .. MaxCrashes
    BY ConstantsAssumption DEF Init
  <2>3. at \in [Callers -> Nat \ {0}]
    BY DEF Init
  <2>4. answer \in [Callers -> Answers]
    BY <2>1 DEF Init
  <2>5. request \in [Callers -> Requests \cup {NoRequest, ImportRequest}]
    BY DEF Init
  <2>6. /\ vertex \in [Ids -> Types \cup {"none"}]
        /\ property \in [Ids -> [Names -> Callers \cup {NoValue}]]
    BY DEF Init
  <2>7. /\ edges \subseteq [from : Schemas, to : Definitions, version : Nat]
        /\ viewEdges \subseteq Schemas \X Views
        /\ listed \in [Callers -> SUBSET (Nat \ {0})]
    BY DEF Init
  <2> QED  BY <2>2, <2>3, <2>4, <2>5, <2>6, <2>7 DEF TypeOK
<1>3. \A c \in Callers : Past(c) = {}
  BY <1>1, NothingDone
<1>4. \A c \in Callers : \A id : ~ Made(c, id)
  BY <1>3 DEF Made
<1>5. CallInv
  <2>1. \A c \in Callers : at[c] <= Len(Program(c)) + 1
    BY <1>1, <1>2, ProgramFine
  <2>2. NoRequest # ImportRequest
    <3>1. NoRequest.op = "none" /\ ImportRequest.op = "import"
      BY DEF NoRequest, ImportRequest
    <3> QED  BY <3>1
  <2> QED  BY <1>1, <2>1, <2>2 DEF CallInv
<1>6. DoneInv /\ OwnInv /\ EdgeInv /\ FreshInv /\ FirstRun /\ Origin /\ ListedInv
  BY <1>1, <1>3, <1>4 DEF DoneInv, OwnInv, EdgeInv, FreshInv, FirstRun, Origin, ListedInv
<1>7. ViewHasOneSchema
  BY <1>1 DEF ViewHasOneSchema
<1>8. AnsweredIsThere
  <2>1. \A c \in Callers : answer[c] # "ok"
    BY <1>1 DEF Callers
  <2> QED  BY <2>1 DEF AnsweredIsThere
<1> QED  BY <1>2, <1>5, <1>6, <1>7, <1>8 DEF IInv

\* A step that changes nothing.
LEMMA StutterIInv ==
    ASSUME IInv, UNCHANGED vars
    PROVE  IInv'
<1>1. UNCHANGED <<graph, request, at, answer, crashes>> /\ listed' = listed
  BY DEF vars
<1>2. listed' \in [Callers -> SUBSET (Nat \ {0})]
  BY <1>1 DEF IInv, TypeOK
<1> QED  BY <1>1, <1>2, ListedIInv

\* Every step keeps the invariant.
LEMMA NextIInv ==
    ASSUME IInv, [Next]_vars
    PROVE  IInv'
<1>1. ASSUME NEW c \in Calls, NEW r \in Requests, Start(c, r) PROVE IInv'
  BY <1>1, StartIInv
<1>2. ASSUME NEW c \in Callers, Read(c) PROVE IInv'
  BY <1>2, ChecksIInv, CheckEmptyIInv, GetAllSchemasIInv, GetAllViewsIInv,
     GetSchemaVersionsIInv, GetSchemaDefinitionIInv DEF Read
<1>3. ASSUME NEW c \in Callers, Write(c) PROVE IInv'
  BY <1>3, WriteSteps
<1>4. ASSUME NEW c \in Callers, Answer(c) PROVE IInv'
  BY <1>4, FinishIInv DEF Answer
<1>5. ASSUME NEW c \in Callers, StoreFails(c) PROVE IInv'
  BY <1>5, FinishIInv DEF StoreFails
<1>6. CASE Crash
  BY <1>6, CrashIInv
<1>7. CASE UNCHANGED vars
  BY <1>7, StutterIInv
<1> QED  BY <1>1, <1>2, <1>3, <1>4, <1>5, <1>6, <1>7 DEF Next

------------------------------------------------------------------------------
(* The theorems. *)

\* The variables keep their types, for every set of calls and requests.
THEOREM TypeCorrect == Spec => []TypeOK
<1>1. IInv => TypeOK
  BY DEF IInv
<1> QED  BY <1>1, InitIInv, NextIInv, PTL DEF Spec

\* What a call did when it was answered with success can be read from then on:
\* add_schema, add_new_version_of_schema, add_view_to_schema and import_all, whatever
\* other calls wrote meanwhile and after, and however often the process died.
THEOREM AnsweredIsThereHolds == Spec => []AnsweredIsThere
<1>1. IInv => AnsweredIsThere
  BY DEF IInv
<1> QED  BY <1>1, InitIInv, NextIInv, PTL DEF Spec

\* A version that a reader finds has its definition: each handler writes the vertex,
\* its properties, the edge and the version in this order.
THEOREM VersionsReadableHolds == Spec => []VersionsReadable
<1>1. IInv => VersionsReadable
  BY DEF IInv, EdgeInv, VersionsReadable
<1> QED  BY <1>1, InitIInv, NextIInv, PTL DEF Spec

\* A view belongs to one schema, also when calls race for its id: the vertex is made
\* once, and only its maker draws the edge.
THEOREM ViewHasOneSchemaHolds == Spec => []ViewHasOneSchema
<1>1. IInv => ViewHasOneSchema
  BY DEF IInv
<1> QED  BY <1>1, InitIInv, NextIInv, PTL DEF Spec

\* A step of a call leaves the versions that are there alone, and the properties of
\* their definitions: a definition is written by its maker only, before the edge.
LEMMA StepFixes ==
    ASSUME IInv, IInv', NEW c \in Callers, NEW op, Step(c, op),
           NEW e \in edges, e.version # 0
    PROVE  e \in edges' /\ property'[e.to] = property[e.to]
<1>1. e \in edges'
  BY StepGrows DEF Grow
<1>2. May(request[c], op, Past(c)) /\ Does(op)
  BY DoingMay DEF IInv, Step
<1>3. e.to \in Definitions /\ e.to \in Ids
  BY DEF IInv, TypeOK, Ids
<1>4. ~ (op.do = "set" /\ op.id = e.to)
  <2> SUFFICES ASSUME op.do = "set", op.id = e.to PROVE FALSE
    OBVIOUS
  <2>1. CreateOp(e.to, "DEFINITION") \in Past(c) /\ NoneOf("edge", Past(c))
    BY <1>2, <1>3 DEF May
  <2>2. Made(c, e.to)
    BY <2>1, CreatedIsMade
  <2> QED  BY <1>3, <2>1, <2>2 DEF IInv, FreshInv
<1>5. \A name \in Names : property'[e.to][name] = property[e.to][name]
  BY <1>2, <1>3, <1>4 DEF Does
<1>6. /\ property[e.to] \in [Names -> Callers \cup {NoValue}]
      /\ property'[e.to] \in [Names -> Callers \cup {NoValue}]
  BY <1>3 DEF IInv, TypeOK
<1> QED  BY <1>1, <1>5, <1>6

\* Only the writes touch the graph.
LEMMA NextGraph ==
    ASSUME IInv, [Next]_vars
    PROVE  UNCHANGED graph \/ \E c \in Callers : \E op : Step(c, op)
<1>1. ASSUME NEW c \in Callers, NEW result, Finish(c, result) PROVE UNCHANGED graph
  BY <1>1 DEF Finish
<1>2. ASSUME NEW c \in Callers, Read(c) PROVE UNCHANGED graph
  <2>1. CASE CheckTopic(c) \/ EnsureSchemaExists(c) \/ CheckVersion(c) \/ BuildFullSchema(c)
    BY <1>1, <2>1 DEF CheckTopic, EnsureSchemaExists, CheckVersion, BuildFullSchema, Check, CheckOr
  <2>2. CASE GetView(c) \/ RejectType(c) \/ GetSchema(c) \/ GetProperty(c)
    BY <1>1, <2>2 DEF GetView, RejectType, GetSchema, GetProperty, Check, CheckOr
  <2>3. CASE CheckEmpty(c) \/ ExportAll(c)
    BY <1>1, <2>3 DEF CheckEmpty, ExportAll
  <2>4. CASE GetAllSchemas(c) \/ GetAllViewsOfSchema(c)
    BY <1>1, <2>4 DEF GetAllSchemas, GetAllViewsOfSchema, CheckOr
  <2>5. CASE GetSchemaVersions(c)
    BY <2>5 DEF GetSchemaVersions
  <2>6. CASE GetSchemaDefinition(c)
    BY <2>6, GetSchemaDefinitionFinds
  <2> QED  BY <1>2, <2>1, <2>2, <2>3, <2>4, <2>5, <2>6 DEF Read
<1>3. ASSUME NEW c \in Callers, Write(c) PROVE UNCHANGED graph \/ \E op : Step(c, op)
  BY <1>1, <1>3, WriteSteps
<1>4. ASSUME NEW c \in Callers, Answer(c) \/ StoreFails(c) PROVE UNCHANGED graph
  BY <1>1, <1>4 DEF Answer, StoreFails
<1>5. ASSUME NEW c \in Calls, NEW r \in Requests, Start(c, r) PROVE UNCHANGED graph
  BY <1>5 DEF Start
<1>6. CASE Crash
  BY <1>6 DEF Crash
<1>7. CASE UNCHANGED vars
  BY <1>7 DEF vars
<1> QED  BY <1>2, <1>3, <1>4, <1>5, <1>6, <1>7 DEF Next

\* A version once seen keeps its number and its definition, in every step of every
\* handler: a definition cannot be updated after creation.
THEOREM VersionsAreFixedHolds == Spec => VersionsAreFixed
<1>1. ASSUME IInv, IInv', [Next]_vars
      PROVE  \A s \in Schemas : \A e \in Versions(s) :
               e \in edges' /\ property'[e.to] = property[e.to]
  <2>1. CASE UNCHANGED graph
    BY <2>1 DEF graph, Versions
  <2>2. CASE \E c \in Callers : \E op : Step(c, op)
    BY <1>1, <2>2, StepFixes DEF Versions
  <2> QED  BY <1>1, <2>1, <2>2, NextGraph
<1> QED  BY <1>1, InitIInv, NextIInv, PTL DEF Spec, VersionsAreFixed

\* A reader is told that what it lists is malformed only by the list of schemas that
\* finds one that is not whole.
LEMMA MalformedFromSchemas ==
    ASSUME IInv, [Next]_vars, NEW c \in Calls,
           answer[c] = "running", answer'[c] = "malformed"
    PROVE  GetAllSchemas(c) /\ ~ WholeVertices("SCHEMA")
<1>0. c \in Callers /\ c # Import /\ answer \in [Callers -> Answers]
  BY ConstantsAssumption DEF Callers, IInv, TypeOK
<1>1. ASSUME NEW d \in Callers, NEW result, Finish(d, result) PROVE d = c /\ result = "malformed"
  BY <1>0, <1>1 DEF Finish
<1>2. ASSUME NEW d \in Callers, Advance(d) PROVE FALSE
  BY <1>2 DEF Advance
<1>3. ASSUME NEW d \in Callers, Read(d) PROVE GetAllSchemas(c) /\ ~ WholeVertices("SCHEMA")
  <2>1. CASE CheckTopic(d) \/ EnsureSchemaExists(d) \/ CheckVersion(d) \/ BuildFullSchema(d)
    BY <1>1, <1>2, <2>1
    DEF CheckTopic, EnsureSchemaExists, CheckVersion, BuildFullSchema, Check, CheckOr, Proceed
  <2>2. CASE GetView(d) \/ RejectType(d) \/ GetSchema(d) \/ GetProperty(d)
    BY <1>1, <1>2, <2>2 DEF GetView, RejectType, GetSchema, GetProperty, Check, CheckOr, Proceed
  <2>3. CASE CheckEmpty(d) \/ ExportAll(d)
    BY <1>1, <1>2, <2>3 DEF CheckEmpty, ExportAll, Proceed
  <2>4. CASE GetAllSchemas(d)
    BY <1>1, <1>2, <2>4 DEF GetAllSchemas, CheckOr, Proceed
  <2>5. CASE GetAllViewsOfSchema(d)
    BY <1>2, <2>5, GetAllViewsWhole DEF Proceed
  <2>6. CASE GetSchemaVersions(d)
    BY <1>2, <2>6 DEF GetSchemaVersions
  <2>7. CASE GetSchemaDefinition(d)
    <3>1. answer' # answer
      OBVIOUS
    <3> QED  BY <1>2, <2>7, <3>1, GetSchemaDefinitionFinds DEF Proceed
  <2> QED  BY <1>3, <2>1, <2>2, <2>3, <2>4, <2>5, <2>6, <2>7 DEF Read
<1>4. ASSUME NEW d \in Callers, Write(d) PROVE FALSE
  BY <1>1, <1>2, <1>4, WriteSteps DEF Step
<1>5. ASSUME NEW d \in Callers, Answer(d) \/ StoreFails(d) PROVE FALSE
  BY <1>1, <1>5 DEF Answer, StoreFails
<1>6. ASSUME NEW d \in Calls, NEW r \in Requests, Start(d, r) PROVE FALSE
  BY <1>0, <1>6 DEF Start
<1>7. ~ Crash
  BY <1>0 DEF Crash
<1>8. ~ UNCHANGED vars
  BY DEF vars
<1> QED  BY <1>3, <1>4, <1>5, <1>6, <1>7, <1>8 DEF Next

\* The API's `definitions' reads every version it listed, get_all_views_of_schema
\* finds whole views, and get_all_schemas fails only over a schema whose creation
\* was interrupted.
THEOREM ReadersFindWholeHolds == Spec => ReadersFindWhole
<1>1. ASSUME IInv, [Next]_vars, NEW c \in Calls,
             answer[c] = "running", answer'[c] = "malformed"
      PROVE  request[c].op = "schemas" /\ \E id \in Schemas : Interrupted(id)
  <2>0. c \in Callers
    BY DEF Callers
  <2>1. GetAllSchemas(c) /\ ~ WholeVertices("SCHEMA")
    BY <1>1, MalformedFromSchemas
  <2>2. at[c] <= Len(Program(c)) /\ Operation(c).do = "schemas"
    BY <2>1 DEF GetAllSchemas, CheckOr, Doing, Operation
  <2>3. request[c].op = "schemas"
    BY <1>1, <2>0, <2>2, DoingMay DEF IInv, May
  <2>4. PICK id \in Ids : vertex[id] = "SCHEMA" /\ ~ Complete(id, "SCHEMA")
    BY <2>1 DEF WholeVertices
  <2>5. Serving
    BY <1>1 DEF IInv, CallInv
  <2>6. id \in Schemas /\ Interrupted(id)
    BY <1>1, <2>4, <2>5 DEF IInv, Origin
  <2> QED  BY <2>3, <2>6
<1>2. ASSUME IInv, [Next]_vars
      PROVE  \A c \in Calls : answer[c] = "running" /\ answer'[c] = "malformed" =>
               request[c].op = "schemas" /\ \E id \in Schemas : Interrupted(id)
  BY <1>1, <1>2
<1> QED  BY <1>2, InitIInv, NextIInv, PTL DEF Spec, ReadersFindWhole
==============================================================================
