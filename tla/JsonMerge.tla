----------------------------- MODULE JsonMerge -----------------------------
(***************************************************************************)
(* The JSON documents of the document repository and the function merge of *)
(* db-shrinker-postgres/src/main.rs.  A document is an object or a leaf    *)
(* (null, a scalar or an array: merge treats them alike).                  *)
(*                                                                         *)
(* merge is recursive on the depth of the document, so it is declared      *)
(* RECURSIVE and this module is used by TLC's runs only; the modules that  *)
(* need a merge take it as a constant operator.                            *)
(***************************************************************************)
EXTENDS Sequences, SequencesExt, FiniteSetsExt

Leaf(v) == [leaf |-> v]
Object(members) == [members |-> members]
Null == Leaf("null")

IsObject(doc) == "members" \in DOMAIN doc
Keys(doc) == DOMAIN doc.members

RECURSIVE merge(_, _)

\* What is left in the older document a after merge(&mut a, b).
merge(a, b) ==
  IF IsObject(a) /\ IsObject(b)
  THEN LET entry(k) == IF k \in Keys(a) THEN a.members[k] ELSE Null
       IN  Object([k \in Keys(a) \cup Keys(b) |->
                     IF k \in Keys(b) THEN merge(entry(k), b.members[k])
                                      ELSE entry(k)])
  ELSE b

-----------------------------------------------------------------------------
(* The reference: what documents, numbered from the oldest, say at a path, *)
(* without merging anything.                                               *)

Nothing == [nothing |-> TRUE]

\* What doc says at path: a leaf, "there is an object", or Nothing.  A leaf
\* on the way says that there is nothing below it, which is an answer too.
RECURSIVE Says(_, _)
Says(doc, path) ==
  CASE path = << >> -> {IF IsObject(doc) THEN [object |-> TRUE] ELSE doc}
    [] path # << >> /\ ~IsObject(doc) -> {Nothing}
    [] OTHER -> IF Head(path) \in Keys(doc)
                THEN Says(doc.members[Head(path)], Tail(path))
                ELSE {}

\* The newest document that says something about the path decides.
SaidLast(docs, path) ==
  LET speaking == {i \in DOMAIN docs : Says(docs[i], path) # {}}
  IN  IF speaking = {} THEN Nothing
      ELSE CHOOSE x \in Says(docs[Max(speaking)], path) : TRUE

RECURSIVE Paths(_)
Paths(doc) ==
  IF ~IsObject(doc) THEN {<< >>}
  ELSE {<< >>} \cup
       UNION {{<<k>> \o p : p \in Paths(doc.members[k])} : k \in Keys(doc)}

\* doc is what the documents say together, at every path of any of them.
IsMergeOf(doc, docs) ==
  \A path \in UNION {Paths(docs[i]) : i \in DOMAIN docs} \cup Paths(doc) :
    SaidLast(<<doc>>, path) = SaidLast(docs, path)
=============================================================================
