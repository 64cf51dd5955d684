-------------------------- MODULE QueryRouterProofs --------------------------
(***************************************************************************)
(* The document repository and the query router in front of it, for every  *)
(* set of messages, overlapping shrinkers and requests, every cache        *)
(* capacity and every merge: shrinking loses nothing and keeps the newest  *)
(* version, answers are right, and a refusal has a reason.                 *)
(***************************************************************************)
EXTENDS QueryRouter, SequenceLemmas

\* Finitely many rows of a table.
IntRows(R) == IsFiniteSet(R) /\ \A r \in R : r.version \in Int
DistinctVersions(R) == \A r, q \in R : r.version = q.version => r = q
UpTo(R, v) == {r \in R : r.version <= v}

------------------------------------------------------------------------------
(* The newest row, and documents merged from the oldest to the newest. *)

\* Rows have an oldest and a newest one.
LEMMA OldestAndNewest ==
    ASSUME NEW R, IntRows(R), R # {}
    PROVE  /\ \E r \in R : \A q \in R : r.version <= q.version
           /\ \E r \in R : \A q \in R : q.version <= r.version
<1> DEFINE Ends(S) == /\ \E r \in S : \A q \in S : r.version <= q.version
                      /\ \E r \in S : \A q \in S : q.version <= r.version
           Bad == {n \in Nat : \E S \in SUBSET R : S # {} /\ Cardinality(S) = n /\ ~Ends(S)}
<1>0. \A S \in SUBSET R : IsFiniteSet(S) /\ Cardinality(S) \in Nat
  BY FS_Subset, FS_CardinalityType DEF IntRows
<1>1. SUFFICES ASSUME Bad # {} PROVE FALSE
  <2>1. Cardinality(R) \notin Bad
    BY <1>1
  <2> QED  BY <1>0, <2>1
<1>2. PICK n \in Bad : \A y \in Bad : n <= y
  <2>1. Min(Bad) \in Bad /\ \A y \in Bad : Min(Bad) <= y
    BY <1>1, MinOfNaturals
  <2> QED  BY <2>1
<1>3. PICK S \in SUBSET R : S # {} /\ Cardinality(S) = n /\ ~Ends(S)
  BY <1>2
<1>4. PICK x \in S : TRUE
  BY <1>3
<1> DEFINE Q == S \ {x}
<1>5. /\ Q \in SUBSET R /\ Cardinality(Q) = n - 1 /\ Cardinality(Q) \in Nat
      /\ S = Q \cup {x} /\ \A q \in S : q.version \in Int
  <2>1. Cardinality(Q) = Cardinality(S) - 1
    BY <1>0, <1>3, <1>4, FS_RemoveElement
  <2> QED  BY <1>0, <1>3, <1>4, <2>1 DEF IntRows
<1> HIDE DEF Q
<1>6. CASE Q = {}
  <2>1. S = {x}
    BY <1>5, <1>6
  <2> QED  BY <1>3, <1>5, <2>1
<1>7. CASE Q # {}
  <2>1. n \in Nat /\ n - 1 \notin Bad
    BY <1>2, <1>5
  <2>2. Ends(Q)
    BY <1>5, <1>7, <2>1
  <2>3. PICK lo \in Q : \A q \in Q : lo.version <= q.version
    BY <2>2
  <2>4. PICK hi \in Q : \A q \in Q : q.version <= hi.version
    BY <2>2
  <2>5. /\ \E r \in S : \A q \in S : r.version <= q.version
    <3>1. CASE x.version <= lo.version
      <4>1. \A q \in S : x.version <= q.version
        BY <1>4, <1>5, <2>3, <3>1
      <4> QED  BY <1>4, <4>1
    <3>2. CASE ~(x.version <= lo.version)
      <4>1. \A q \in S : lo.version <= q.version
        BY <1>4, <1>5, <2>3, <3>2
      <4> QED  BY <1>5, <2>3, <4>1
    <3> QED  BY <3>1, <3>2
  <2>6. \E r \in S : \A q \in S : q.version <= r.version
    <3>1. CASE hi.version <= x.version
      <4>1. \A q \in S : q.version <= x.version
        BY <1>4, <1>5, <2>4, <3>1
      <4> QED  BY <1>4, <4>1
    <3>2. CASE ~(hi.version <= x.version)
      <4>1. \A q \in S : q.version <= hi.version
        BY <1>4, <1>5, <2>4, <3>2
      <4> QED  BY <1>5, <2>4, <4>1
    <3> QED  BY <3>1, <3>2
  <2> QED  BY <1>3, <2>5, <2>6
<1> QED  BY <1>6, <1>7

\* NewestIn returns it.
LEMMA NewestIsThere ==
    ASSUME NEW R, IntRows(R), R # {}
    PROVE  NewestIn(R) \in R /\ \A q \in R : q.version <= NewestIn(R).version
BY OldestAndNewest DEF NewestIn

\* Among distinct versions there is only one that is not below another.
LEMMA NewestIsOne ==
    ASSUME NEW R, IntRows(R), DistinctVersions(R), NEW r \in R, \A q \in R : q.version <= r.version
    PROVE  NewestIn(R) = r
<1>1. NewestIn(R) \in R /\ \A q \in R : q.version <= NewestIn(R).version
  BY NewestIsThere
<1>2. NewestIn(R).version = r.version
  BY <1>1 DEF IntRows
<1> QED  BY <1>1, <1>2 DEF DistinctVersions

\* What is left of finitely many rows.
LEMMA PartOfRows ==
    ASSUME NEW R, IntRows(R), NEW Q \in SUBSET R
    PROVE  IntRows(Q) /\ Cardinality(Q) \in Nat /\ (Q = {} <=> Cardinality(Q) = 0)
BY FS_Subset, FS_CardinalityType, FS_EmptySet DEF IntRows

\* The function behind MinimizeDocument, on the parts of R with up to n rows.
MergedValue(f, Q) == IF Cardinality(Q) <= 1 THEN NewestIn(Q).payload
                     ELSE Merge(f[Q \ {NewestIn(Q)}], NewestIn(Q).payload)
PartsUpTo(R, n) == {Q \in SUBSET R : Cardinality(Q) <= n}
MergedUpTo(f, R, n) == f = [Q \in PartsUpTo(R, n) |-> MergedValue(f, Q)]

\* There is one for every n: the least n without one has a predecessor.
LEMMA MergedExists ==
    ASSUME NEW R, IntRows(R), NEW n \in Nat
    PROVE  \E f : MergedUpTo(f, R, n)
<1> DEFINE Bad == {m \in Nat : ~ \E f : MergedUpTo(f, R, m)}
<1> SUFFICES ASSUME Bad # {} PROVE FALSE
  OBVIOUS
<1>1. PICK m \in Bad : \A y \in Bad : m <= y
  <2>1. Min(Bad) \in Bad /\ \A y \in Bad : Min(Bad) <= y
    BY MinOfNaturals
  <2> QED  BY <2>1
<1>2. \A Q \in SUBSET R : /\ Cardinality(Q) \in Nat
                          /\ Cardinality(Q) > 1 =>
                               /\ Q \ {NewestIn(Q)} \in SUBSET R
                               /\ Cardinality(Q \ {NewestIn(Q)}) = Cardinality(Q) - 1
  <2> TAKE Q \in SUBSET R
  <2>1. IntRows(Q) /\ Cardinality(Q) \in Nat /\ (Q = {} <=> Cardinality(Q) = 0)
    BY PartOfRows
  <2>2. Cardinality(Q) > 1 => NewestIn(Q) \in Q
    BY <2>1, NewestIsThere
  <2>3. NewestIn(Q) \in Q => Cardinality(Q \ {NewestIn(Q)}) = Cardinality(Q) - 1
    BY <2>1, FS_RemoveElement DEF IntRows
  <2> QED  BY <2>1, <2>2, <2>3
<1>3. CASE m = 0
  <2> DEFINE g == [Q \in PartsUpTo(R, 0) |-> NewestIn(Q).payload]
  <2>1. \A Q \in PartsUpTo(R, 0) : g[Q] = MergedValue(g, Q)
    BY <1>2 DEF PartsUpTo, MergedValue
  <2>2. g = [Q \in PartsUpTo(R, 0) |-> g[Q]]
    OBVIOUS
  <2> HIDE DEF g
  <2>3. MergedUpTo(g, R, 0)
    BY <2>1, <2>2 DEF MergedUpTo
  <2> QED  BY <1>1, <1>3, <2>3
<1>4. CASE m # 0
  <2>1. m - 1 \in Nat /\ m - 1 \notin Bad
    BY <1>1, <1>4
  <2>2. PICK f : MergedUpTo(f, R, m - 1)
    BY <2>1
  <2> DEFINE g == [Q \in PartsUpTo(R, m) |-> IF Cardinality(Q) <= m - 1 THEN f[Q]
                                             ELSE MergedValue(f, Q)]
  <2>3. ASSUME NEW Q \in PartsUpTo(R, m) PROVE g[Q] = MergedValue(g, Q)
    <3> DEFINE P == Q \ {NewestIn(Q)}
    <3>1. Q \in SUBSET R /\ Cardinality(Q) \in Nat /\ Cardinality(Q) <= m
      BY <1>2 DEF PartsUpTo
    <3>2. g[Q] = MergedValue(f, Q)
      <4>1. CASE Cardinality(Q) <= m - 1
        <5>1. Q \in PartsUpTo(R, m - 1)
          BY <3>1, <4>1 DEF PartsUpTo
        <5>2. f[Q] = MergedValue(f, Q)
          BY <2>2, <5>1 DEF MergedUpTo
        <5> QED  BY <4>1, <5>2
      <4>2. CASE ~(Cardinality(Q) <= m - 1)
        BY <4>2
      <4> QED  BY <4>1, <4>2
    <3>3. Cardinality(Q) > 1 => P \in PartsUpTo(R, m) /\ Cardinality(P) <= m - 1
      BY <1>2, <3>1 DEF PartsUpTo
    <3>4. Cardinality(Q) > 1 => g[P] = f[P]
      BY <3>3
    <3> HIDE DEF g
    <3> QED  BY <3>1, <3>2, <3>4 DEF MergedValue
  <2>4. g = [Q \in PartsUpTo(R, m) |-> g[Q]]
    OBVIOUS
  <2> HIDE DEF g
  <2>5. MergedUpTo(g, R, m)
    BY <2>3, <2>4 DEF MergedUpTo
  <2> QED  BY <1>1, <2>5
<1> QED  BY <1>3, <1>4

\* Two of them agree where both are defined.
LEMMA MergedUnique ==
    ASSUME NEW R, IntRows(R), NEW S, NEW f, NEW g,
           NEW n \in Nat, NEW k \in Nat, MergedUpTo(f, R, n), MergedUpTo(g, S, k),
           NEW X \in PartsUpTo(R, n), X \in PartsUpTo(S, k)
    PROVE  f[X] = g[X]
<1> DEFINE Both == PartsUpTo(R, n) \cap PartsUpTo(S, k)
           Bad == {m \in Nat : \E Q \in Both : Cardinality(Q) = m /\ f[Q] # g[Q]}
<1>0. \A Q \in Both : /\ Cardinality(Q) \in Nat
                      /\ Cardinality(Q) > 1 =>
                           /\ Q \ {NewestIn(Q)} \in Both
                           /\ Cardinality(Q \ {NewestIn(Q)}) = Cardinality(Q) - 1
  <2> TAKE Q \in Both
  <2>0. Q \in SUBSET R /\ Q \in SUBSET S /\ Cardinality(Q) <= n /\ Cardinality(Q) <= k
    BY DEF PartsUpTo
  <2>1. IntRows(Q) /\ Cardinality(Q) \in Nat /\ (Q = {} <=> Cardinality(Q) = 0)
    BY <2>0, PartOfRows
  <2>2. Cardinality(Q) > 1 => NewestIn(Q) \in Q
    BY <2>1, NewestIsThere
  <2>3. NewestIn(Q) \in Q => Cardinality(Q \ {NewestIn(Q)}) = Cardinality(Q) - 1
    BY <2>1, FS_RemoveElement DEF IntRows
  <2> QED  BY <2>0, <2>1, <2>2, <2>3 DEF PartsUpTo
<1>1. \A Q \in Both : f[Q] = MergedValue(f, Q) /\ g[Q] = MergedValue(g, Q)
  BY DEF MergedUpTo
<1> HIDE DEF Both
<1>2. SUFFICES ASSUME Bad # {} PROVE FALSE
  <2>1. X \in Both /\ Cardinality(X) \in Nat
    BY <1>0 DEF Both
  <2> QED  BY <1>2, <2>1
<1>3. PICK m \in Bad : \A y \in Bad : m <= y
  <2>1. Min(Bad) \in Bad /\ \A y \in Bad : Min(Bad) <= y
    BY <1>2, MinOfNaturals
  <2> QED  BY <2>1
<1>4. PICK Q \in Both : Cardinality(Q) = m /\ f[Q] # g[Q]
  BY <1>3
<1>5. CASE Cardinality(Q) <= 1
  BY <1>1, <1>4, <1>5 DEF MergedValue
<1>6. CASE ~(Cardinality(Q) <= 1)
  <2> DEFINE P == Q \ {NewestIn(Q)}
  <2>1. P \in Both /\ Cardinality(P) = m - 1 /\ Cardinality(P) \in Nat
    BY <1>0, <1>4, <1>6
  <2>2. m - 1 \notin Bad
    BY <1>3, <2>1
  <2>3. f[P] = g[P]
    BY <2>1, <2>2
  <2> QED  BY <1>1, <1>4, <1>6, <2>3 DEF MergedValue
<1> QED  BY <1>5, <1>6

\* MinimizeDocument returns the value of such a function for all the rows.
LEMMA MinimizeIsMerged ==
    ASSUME NEW R, IntRows(R)
    PROVE  \E f : MergedUpTo(f, R, Cardinality(R)) /\ MinimizeDocument(R) = f[R]
<1> DEFINE n == Cardinality(R)
<1>1. n \in Nat /\ PartsUpTo(R, n) = SUBSET R
  BY PartOfRows, FS_Subset DEF PartsUpTo, IntRows
<1>2. \E f : MergedUpTo(f, R, n)
  BY <1>1, MergedExists
<1> HIDE DEF n
<1>3. MinimizeDocument(R) = (CHOOSE f : f = [Q \in SUBSET R |-> MergedValue(f, Q)])[R]
  BY DEF MinimizeDocument, MergedValue
<1>4. MinimizeDocument(R) = (CHOOSE f : MergedUpTo(f, R, n))[R]
  BY <1>1, <1>3 DEF MergedUpTo
<1>5. MergedUpTo((CHOOSE f : MergedUpTo(f, R, n)), R, n)
  BY <1>2
<1> QED  BY <1>4, <1>5 DEF n

\* A document alone is itself.
LEMMA MinimizeOne == ASSUME NEW r, r.version \in Int PROVE MinimizeDocument({r}) = r.payload
<1>1. IntRows({r}) /\ Cardinality({r}) = 1 /\ NewestIn({r}) = r
  <2>1. IsFiniteSet({r}) /\ Cardinality({r}) = 1
    BY FS_Singleton
  <2>2. IntRows({r})
    BY <2>1 DEF IntRows
  <2>3. NewestIn({r}) \in {r}
    BY <2>2, NewestIsThere
  <2> QED  BY <2>1, <2>2, <2>3
<1>2. PICK f : MergedUpTo(f, {r}, 1) /\ MinimizeDocument({r}) = f[{r}]
  BY <1>1, MinimizeIsMerged
<1>3. {r} \in PartsUpTo({r}, 1)
  BY <1>1 DEF PartsUpTo
<1>4. f[{r}] = MergedValue(f, {r})
  BY <1>2, <1>3 DEF MergedUpTo
<1> QED  BY <1>1, <1>2, <1>4 DEF MergedValue

\* The newest of several documents is merged into what the others make.
LEMMA MinimizeMore ==
    ASSUME NEW R, IntRows(R), DistinctVersions(R), NEW r \in R,
           \A q \in R : q.version <= r.version, R \ {r} # {}
    PROVE  MinimizeDocument(R) = Merge(MinimizeDocument(R \ {r}), r.payload)
<1> DEFINE Q == R \ {r}
           n == Cardinality(R)
           k == Cardinality(Q)
<1>1. NewestIn(R) = r
  BY NewestIsOne
<1>2. /\ n \in Nat /\ k \in Nat /\ k = n - 1 /\ k # 0 /\ IntRows(Q)
      /\ R \in PartsUpTo(R, n) /\ Q \in PartsUpTo(R, n) /\ Q \in PartsUpTo(Q, k)
  <2>1. n \in Nat /\ k \in Nat /\ k # 0 /\ IntRows(Q)
    BY PartOfRows
  <2>2. k = n - 1
    BY FS_RemoveElement DEF IntRows
  <2> HIDE DEF n, k
  <2>3. n <= n /\ k <= n /\ k <= k
    BY <2>1, <2>2
  <2>4. n = Cardinality(R) /\ k = Cardinality(Q)
    BY DEF n, k
  <2> QED  BY <2>1, <2>2, <2>3, <2>4 DEF PartsUpTo
<1>3. PICK f : MergedUpTo(f, R, n) /\ MinimizeDocument(R) = f[R]
  BY MinimizeIsMerged
<1>4. PICK g : MergedUpTo(g, Q, k) /\ MinimizeDocument(Q) = g[Q]
  BY <1>2, MinimizeIsMerged
<1>5. f[R] = MergedValue(f, R)
  BY <1>2, <1>3 DEF MergedUpTo
<1>6. f[Q] = g[Q]
  <2> HIDE DEF n, k, Q
  <2> QED  BY <1>2, <1>3, <1>4, MergedUnique
<1>7. ~(Cardinality(R) <= 1)
  BY <1>2
<1> HIDE DEF n, k
<1> QED  BY <1>1, <1>3, <1>4, <1>5, <1>6, <1>7 DEF MergedValue

------------------------------------------------------------------------------
(* The rows T that are left of an object stand for all the rows S that it   *)
(* has had: the oldest of T is the merge of what there was up to its        *)
(* version, and after it nothing is missing and nothing is changed.         *)

Represents(T, S) ==
    /\ IntRows(T) /\ IntRows(S) /\ DistinctVersions(T) /\ DistinctVersions(S)
    /\ \A r \in T : \E m \in S : m.version = r.version
    /\ \A r \in T : (\E q \in T : q.version < r.version) => r \in S
    /\ \A r \in T : (\A q \in T : r.version <= q.version) =>
                      r.payload = MinimizeDocument(UpTo(S, r.version))
    /\ \A m \in S, r \in T : r.version <= m.version => \E q \in T : q.version = m.version

\* A part of rows with distinct versions.
LEMMA UpToFacts ==
    ASSUME NEW R, IntRows(R), DistinctVersions(R), NEW v
    PROVE  IntRows(UpTo(R, v)) /\ DistinctVersions(UpTo(R, v)) /\ UpTo(R, v) \in SUBSET R
<1>1. UpTo(R, v) \in SUBSET R
  BY DEF UpTo
<1> QED  BY <1>1, PartOfRows DEF DistinctVersions

\* Up to a row of T, both merge to the same: for the oldest row this is its
\* payload, and for a later one both merge it into what comes before it.
LEMMA SameUpTo ==
    ASSUME NEW T, NEW S, Represents(T, S), NEW t \in T
    PROVE  MinimizeDocument(UpTo(T, t.version)) = MinimizeDocument(UpTo(S, t.version))
<1> DEFINE Good(r) == MinimizeDocument(UpTo(T, r.version)) = MinimizeDocument(UpTo(S, r.version))
           Bad == {r \in T : ~Good(r)}
<1>0. /\ IntRows(T) /\ IntRows(S) /\ DistinctVersions(T) /\ DistinctVersions(S)
      /\ \A r \in T : r.version \in Int
      /\ \A r \in S : r.version \in Int
  BY DEF Represents, IntRows
<1>1. SUFFICES ASSUME Bad # {} PROVE FALSE
  BY <1>1
<1>2. PICK r \in Bad : \A q \in Bad : r.version <= q.version
  <2>1. Bad \in SUBSET T
    OBVIOUS
  <2>2. IntRows(Bad)
    BY <1>0, <2>1, PartOfRows
  <2> HIDE DEF Bad
  <2> QED  BY <1>1, <2>2, OldestAndNewest
<1>3. r \in T /\ ~Good(r) /\ r.version \in Int
  BY <1>0, <1>2
<1>4. \A q \in T : q.version < r.version => Good(q)
  BY <1>0, <1>2, <1>3
<1> HIDE DEF Bad
<1> DEFINE U == UpTo(T, r.version)
           V == UpTo(S, r.version)
<1>5. /\ IntRows(U) /\ DistinctVersions(U) /\ r \in U /\ \A q \in U : q.version <= r.version
      /\ IntRows(V) /\ DistinctVersions(V) /\ \A q \in V : q.version <= r.version
  <2>1. r \in U
    BY <1>3 DEF UpTo
  <2>2. (\A q \in U : q.version <= r.version) /\ (\A q \in V : q.version <= r.version)
    BY DEF UpTo
  <2> QED  BY <1>0, <2>1, <2>2, UpToFacts
<1>6. CASE \A q \in T : r.version <= q.version
  <2>1. U = {r}
    <3>1. ASSUME NEW q \in U PROVE q = r
      <4>1. q \in T /\ q.version = r.version
        BY <1>0, <1>3, <1>6 DEF UpTo
      <4> QED  BY <1>0, <1>3, <4>1 DEF DistinctVersions
    <3> HIDE DEF U
    <3> QED  BY <1>5, <3>1
  <2>2. MinimizeDocument(U) = r.payload
    BY <1>3, <2>1, MinimizeOne
  <2>3. r.payload = MinimizeDocument(V)
    BY <1>3, <1>6 DEF Represents
  <2> QED  BY <1>3, <2>2, <2>3
<1>7. CASE ~ \A q \in T : r.version <= q.version
  <2>1. PICK x \in T : x.version < r.version
    BY <1>0, <1>3, <1>7
  <2>2. r \in S
    BY <1>3, <2>1 DEF Represents
  <2> DEFINE P == U \ {r}
  <2>3. IntRows(P) /\ x \in P /\ \A q \in P : q \in T /\ q.version < r.version
    <3>1. IntRows(P)
      BY <1>5, PartOfRows
    <3>2. x \in P
      BY <1>0, <1>3, <2>1 DEF UpTo
    <3>3. ASSUME NEW q \in P PROVE q \in T /\ q.version < r.version
      <4>1. q \in T /\ q # r /\ q.version <= r.version
        BY DEF UpTo
      <4>2. q.version # r.version
        BY <1>0, <1>3, <4>1 DEF DistinctVersions
      <4> QED  BY <1>0, <1>3, <4>1, <4>2
    <3> QED  BY <3>1, <3>2, <3>3
  <2>4. PICK p \in P : \A q \in P : q.version <= p.version
    <3> HIDE DEF P
    <3> QED  BY <2>3, OldestAndNewest
  <2>5. p \in T /\ p.version < r.version /\ p.version \in Int /\ Good(p)
    BY <1>0, <1>4, <2>3, <2>4
  <2>6. U \ {r} = UpTo(T, p.version)
    <3>1. ASSUME NEW q \in P PROVE q \in UpTo(T, p.version)
      BY <2>3, <2>4 DEF UpTo
    <3>2. ASSUME NEW q \in UpTo(T, p.version) PROVE q \in P
      <4>1. q \in T /\ q.version <= p.version
        BY DEF UpTo
      <4>2. q.version <= r.version /\ q.version # r.version
        BY <1>0, <1>3, <2>5, <4>1
      <4> QED  BY <4>1, <4>2 DEF UpTo
    <3> QED  BY <3>1, <3>2
  <2>7. V \ {r} = UpTo(S, p.version)
    <3>1. ASSUME NEW m \in V \ {r} PROVE m \in UpTo(S, p.version)
      <4>1. m \in S /\ m.version <= r.version /\ m # r
        BY DEF UpTo
      <4>2. m.version # r.version /\ m.version \in Int
        BY <1>0, <2>2, <4>1 DEF DistinctVersions
      <4>3. ~(p.version <= m.version) \/ m.version = p.version
        <5>1. SUFFICES ASSUME p.version <= m.version, m.version # p.version PROVE FALSE
          OBVIOUS
        <5>2. PICK q \in T : q.version = m.version
          BY <2>5, <4>1, <5>1 DEF Represents
        <5>3. q \in P
          <6>1. q.version <= r.version /\ q # r
            BY <4>1, <4>2, <5>2
          <6> QED  BY <6>1, <5>2 DEF UpTo
        <5> QED  BY <2>4, <2>5, <4>2, <5>1, <5>2, <5>3
      <4> QED  BY <2>5, <4>1, <4>2, <4>3 DEF UpTo
    <3>2. ASSUME NEW m \in UpTo(S, p.version) PROVE m \in V \ {r}
      <4>1. m \in S /\ m.version <= p.version
        BY DEF UpTo
      <4>2. m.version <= r.version /\ m.version # r.version
        BY <1>0, <1>3, <2>5, <4>1
      <4> QED  BY <4>1, <4>2 DEF UpTo
    <3> QED  BY <3>1, <3>2
  <2>8. V \ {r} # {}
    <3>1. PICK m \in S : m.version = p.version
      BY <2>5 DEF Represents
    <3>2. m \in UpTo(S, p.version)
      BY <2>5, <3>1 DEF UpTo
    <3> QED  BY <2>7, <3>2
  <2>9. r \in V
    BY <1>3, <2>2 DEF UpTo
  <2> HIDE DEF U, V
  <2>10. MinimizeDocument(U) = Merge(MinimizeDocument(U \ {r}), r.payload)
    BY <1>5, <2>3, MinimizeMore DEF P
  <2>11. MinimizeDocument(V) = Merge(MinimizeDocument(V \ {r}), r.payload)
    BY <1>5, <2>8, <2>9, MinimizeMore
  <2>12. MinimizeDocument(U) = MinimizeDocument(V)
    BY <2>5, <2>6, <2>7, <2>10, <2>11
  <2> QED  BY <1>3, <2>12 DEF U, V
<1> QED  BY <1>6, <1>7

\* All together merge to the same, and the newest version is among the rows
\* that are left.
LEMMA SameDocument ==
    ASSUME NEW T, NEW S, Represents(T, S), T # {}
    PROVE  /\ MinimizeDocument(T) = MinimizeDocument(S)
           /\ UpTo(S, NewestIn(T).version) = S
<1> DEFINE t == NewestIn(T)
<1>0. IntRows(T) /\ IntRows(S)
  BY DEF Represents
<1>1. t \in T /\ (\A q \in T : q.version <= t.version) /\ t.version \in Int
  BY <1>0, NewestIsThere DEF IntRows
<1> HIDE DEF t
<1>2. UpTo(T, t.version) = T
  BY <1>1 DEF UpTo
<1>3. UpTo(S, t.version) = S
  <2>1. ASSUME NEW m \in S PROVE m.version <= t.version
    <3>1. m.version \in Int
      BY <1>0 DEF IntRows
    <3>2. CASE t.version <= m.version
      <4>1. \E q \in T : q.version = m.version
        BY <1>1, <3>2 DEF Represents
      <4> QED  BY <1>1, <4>1
    <3>3. CASE ~(t.version <= m.version)
      BY <1>1, <3>1, <3>3
    <3> QED  BY <3>2, <3>3
  <2> QED  BY <2>1 DEF UpTo
<1>4. MinimizeDocument(UpTo(T, t.version)) = MinimizeDocument(UpTo(S, t.version))
  BY <1>1, SameUpTo
<1> QED  BY <1>2, <1>3, <1>4 DEF t

\* An object none of whose rows was merged is represented by itself.
LEMMA RepresentsSelf ==
    ASSUME NEW S, IntRows(S), DistinctVersions(S)
    PROVE  Represents(S, S)
<1>1. ASSUME NEW r \in S, \A q \in S : r.version <= q.version
      PROVE  r.payload = MinimizeDocument(UpTo(S, r.version))
  <2>1. r.version \in Int /\ \A q \in S : q.version \in Int
    BY DEF IntRows
  <2>2. UpTo(S, r.version) = {r}
    <3>1. ASSUME NEW q \in UpTo(S, r.version) PROVE q = r
      <4>1. q \in S /\ q.version = r.version
        BY <1>1, <2>1 DEF UpTo
      <4> QED  BY <4>1 DEF DistinctVersions
    <3>2. r \in UpTo(S, r.version)
      BY <2>1 DEF UpTo
    <3> QED  BY <3>1, <3>2
  <2> QED  BY <2>1, <2>2, MinimizeOne
<1> QED  BY <1>1 DEF Represents

\* A version above one that is left comes to both.
LEMMA RepresentsInserted ==
    ASSUME NEW T, NEW S, Represents(T, S), NEW row, row.version \in Int,
           NEW f \in T, f.version < row.version,
           \A q \in T : q.version # row.version,
           NEW T2, T2 = T \cup {row}, NEW S2, S2 = S \cup {row}
    PROVE  Represents(T2, S2)
<1>0. /\ IntRows(T) /\ IntRows(S) /\ DistinctVersions(T) /\ DistinctVersions(S)
      /\ \A r \in T2 : r.version \in Int
      /\ \A r \in S2 : r.version \in Int
  BY DEF Represents, IntRows
<1>1. IntRows(T2) /\ IntRows(S2)
  BY <1>0, FS_AddElement DEF IntRows
<1>2. ASSUME NEW m \in S PROVE m.version # row.version
  <2>1. SUFFICES ASSUME m.version = row.version PROVE FALSE
    OBVIOUS
  <2>2. f.version <= m.version
    BY <1>0, <2>1
  <2>3. \E q \in T : q.version = m.version
    BY <2>2 DEF Represents
  <2> QED  BY <2>1, <2>3
<1>3. DistinctVersions(T2) /\ DistinctVersions(S2)
  BY <1>0, <1>2 DEF DistinctVersions
<1>4. \A r \in T2 : \E m \in S2 : m.version = r.version
  <2>1. \A r \in T : \E m \in S : m.version = r.version
    BY DEF Represents
  <2> QED  BY <2>1
<1>5. \A r \in T2 : (\E q \in T2 : q.version < r.version) => r \in S2
  <2>1. ASSUME NEW r \in T, NEW q \in T2, q.version < r.version PROVE r \in S2
    <3>1. \E p \in T : p.version < r.version
      <4>1. CASE q \in T
        BY <2>1, <4>1
      <4>2. CASE q = row
        <5>1. f.version < r.version
          BY <1>0, <2>1, <4>2
        <5> QED  BY <5>1
      <4> QED  BY <4>1, <4>2
    <3>2. r \in S
      BY <3>1 DEF Represents
    <3> QED  BY <3>2
  <2> QED  BY <2>1
<1>6. ASSUME NEW r \in T2, \A q \in T2 : r.version <= q.version
      PROVE  r.payload = MinimizeDocument(UpTo(S2, r.version))
  <2>1. r \in T /\ r.version < row.version
    <3>1. r.version <= f.version /\ r.version \in Int /\ f.version \in Int
      BY <1>0, <1>6
    <3>2. r.version < row.version
      BY <3>1
    <3> QED  BY <3>2
  <2>2. UpTo(S2, r.version) = UpTo(S, r.version)
    BY <1>0, <2>1 DEF UpTo
  <2>3. \A q \in T : r.version <= q.version
    BY <1>6
  <2>4. r.payload = MinimizeDocument(UpTo(S, r.version))
    BY <2>1, <2>3 DEF Represents
  <2> QED  BY <2>2, <2>4
<1>7. ASSUME NEW m \in S2, NEW r \in T2, r.version <= m.version
      PROVE  \E q \in T2 : q.version = m.version
  <2>1. CASE m = row
    BY <2>1
  <2>2. CASE m \in S
    <3>1. \E p \in T : p.version <= m.version
      <4>1. CASE r \in T
        BY <1>7, <4>1
      <4>2. CASE r = row
        <5>1. f.version <= m.version
          BY <1>0, <1>7, <4>2
        <5> QED  BY <5>1
      <4> QED  BY <4>1, <4>2
    <3>2. \E q \in T : q.version = m.version
      BY <2>2, <3>1 DEF Represents
    <3> QED  BY <3>2
  <2> QED  BY <2>1, <2>2
<1> QED  BY <1>1, <1>3, <1>4, <1>5, <1>6, <1>7 DEF Represents

\* The transaction of a shrinker on the rows of its object: what is below v
\* is gone, v has the document, the rest is as it was.
ShrinksTo(T, T2, v, d) ==
    /\ \A q \in T2 : \E r \in T : /\ r.version >= v /\ q.version = r.version
                                  /\ IF r.version = v THEN q.payload = d ELSE q = r
    /\ \A r \in T : r.version >= v =>
         \E q \in T2 : q.version = r.version /\ (r.version # v => q = r)

\* It leaves rows that stand for the same, if the document does: a version of
\* S that is not left any more has nothing older to delete.
LEMMA RepresentsShrunk ==
    ASSUME NEW T, NEW S, Represents(T, S), NEW v \in Int, NEW T2, IntRows(T2),
           DistinctVersions(T2), ShrinksTo(T, T2, v, MinimizeDocument(UpTo(S, v))),
           \E m \in S : m.version = v
    PROVE  Represents(T2, S)
<1> DEFINE d == MinimizeDocument(UpTo(S, v))
<1>0. /\ IntRows(T) /\ IntRows(S) /\ DistinctVersions(T) /\ DistinctVersions(S)
      /\ \A r \in T : r.version \in Int
      /\ \A r \in S : r.version \in Int
      /\ \A r \in T2 : r.version \in Int
  BY DEF Represents, IntRows
<1>1. ASSUME NEW q \in T2
      PROVE  \E r \in T : /\ r.version >= v /\ q.version = r.version
                          /\ IF r.version = v THEN q.payload = d ELSE q = r
  BY DEF ShrinksTo
<1>2. ASSUME NEW r \in T, r.version >= v
      PROVE  \E q \in T2 : q.version = r.version /\ (r.version # v => q = r)
  BY <1>2 DEF ShrinksTo
<1> HIDE DEF d
<1>3. ASSUME NEW r \in T, r.version <= v PROVE \E q \in T : q.version = v
  BY <1>3 DEF Represents
<1>4. ASSUME NEW q \in T2 PROVE \E m \in S : m.version = q.version
  BY <1>1 DEF Represents
<1>5. ASSUME NEW q \in T2, NEW p \in T2, p.version < q.version PROVE q \in S
  <2>1. PICK r \in T : /\ r.version >= v /\ q.version = r.version
                       /\ IF r.version = v THEN q.payload = d ELSE q = r
    BY <1>1
  <2>2. PICK x \in T : x.version >= v /\ p.version = x.version
    BY <1>1
  <2>3. x.version < r.version /\ r.version # v
    BY <1>0, <1>5, <2>1, <2>2
  <2>4. r \in S
    BY <2>3 DEF Represents
  <2> QED  BY <2>1, <2>3, <2>4
<1>6. ASSUME NEW q \in T2, \A p \in T2 : q.version <= p.version
      PROVE  q.payload = MinimizeDocument(UpTo(S, q.version))
  <2>1. PICK r \in T : /\ r.version >= v /\ q.version = r.version
                       /\ IF r.version = v THEN q.payload = d ELSE q = r
    BY <1>1
  <2>2. CASE r.version = v
    BY <2>1, <2>2 DEF d
  <2>3. CASE r.version # v
    <3>1. ASSUME NEW x \in T PROVE r.version <= x.version
      <4>1. CASE x.version >= v
        <5>1. PICK p \in T2 : p.version = x.version
          BY <1>2, <4>1
        <5> QED  BY <1>6, <2>1, <5>1
      <4>2. CASE ~(x.version >= v)
        <5>1. PICK y \in T : y.version = v
          BY <1>0, <1>3, <4>2
        <5>2. PICK p \in T2 : p.version = y.version
          BY <1>0, <1>2, <5>1
        <5>3. r.version <= v
          BY <1>6, <2>1, <5>1, <5>2
        <5> QED  BY <1>0, <2>1, <2>3, <5>3
      <4> QED  BY <4>1, <4>2
    <3>2. r.payload = MinimizeDocument(UpTo(S, r.version))
      BY <3>1 DEF Represents
    <3> QED  BY <2>1, <2>3, <3>2
  <2> QED  BY <2>2, <2>3
<1>7. ASSUME NEW m \in S, NEW q \in T2, q.version <= m.version
      PROVE  \E p \in T2 : p.version = m.version
  <2>1. PICK r \in T : r.version >= v /\ q.version = r.version
    BY <1>1
  <2>2. PICK x \in T : x.version = m.version
    BY <1>7, <2>1 DEF Represents
  <2>3. x.version >= v
    BY <1>0, <1>7, <2>1, <2>2
  <2> QED  BY <1>2, <2>2, <2>3
<1> QED  BY <1>0, <1>4, <1>5, <1>6, <1>7 DEF Represents

------------------------------------------------------------------------------
(* The repository. *)

\* The rows are finitely many, with distinct keys, and each was inserted; only
\* its payload may have changed since.
RowInv ==
    /\ stored \subseteq Messages /\ IsFiniteSet(table) /\ IsFiniteSet(stored)
    /\ \A r \in table : IsRow(r)
    /\ \A r, q \in table : r.object = q.object /\ r.version = q.version => r = q
    /\ \A r \in table : \E m \in stored :
         m.object = r.object /\ m.version = r.version /\ m.schema = r.schema

\* A shrinker between its read and its transaction.
Writes(s, o) == shrinker[s].pc = "write" /\ shrinker[s].object = o

\* Until its transaction there is a row at least as new as those it has read.
ShrinkerInv ==
    /\ shrinker = [s \in Shrinkers |-> shrinker[s]]
    /\ folded \in [ObjectIds -> Int]
    /\ \A s \in Shrinkers :
         /\ shrinker[s].pc \in {"idle", "next", "write"}
         /\ shrinker[s].ids \subseteq ObjectIds
         /\ shrinker[s].pc = "write" =>
              /\ shrinker[s].object \in ObjectIds /\ shrinker[s].version \in Int
              /\ shrinker[s].version <= folded[shrinker[s].object]
              /\ \E r \in table : /\ r.object = shrinker[s].object
                                  /\ r.version >= shrinker[s].version

\* Either the greatest version a shrinker has read is still there, or none has
\* read the object and all its rows are there as they were inserted.
ReadInv(o) ==
    \/ \E r \in RowsOf(table, o) : r.version = folded[o]
    \/ /\ RowsOf(table, o) = RowsOf(stored, o)
       /\ \A m \in RowsOf(stored, o) : m.version >= folded[o]
       /\ \A s \in Shrinkers : ~Writes(s, o)

\* A shrinker is about to write what was stored up to the version it writes to.
DocumentInv(o) ==
    \A s \in Shrinkers : Writes(s, o) =>
      /\ \E m \in RowsOf(stored, o) : m.version = shrinker[s].version
      /\ shrinker[s].document = MinimizeDocument(UpTo(RowsOf(stored, o), shrinker[s].version))

MergeInv(o) == /\ Represents(RowsOf(table, o), RowsOf(stored, o))
               /\ ReadInv(o) /\ DocumentInv(o)

\* The inductive invariant of the repository.
RInv == RowInv /\ ShrinkerInv /\ \A o \in ObjectIds \ late : MergeInv(o)

\* What RowInv says of the rows of one object.
LEMMA RowsOfObject ==
    ASSUME RowInv, NEW o
    PROVE  /\ IntRows(RowsOf(table, o)) /\ DistinctVersions(RowsOf(table, o))
           /\ IntRows(RowsOf(stored, o))
<1>1. RowsOf(table, o) \in SUBSET table /\ RowsOf(stored, o) \in SUBSET stored
  BY DEF RowsOf
<1>2. IsFiniteSet(RowsOf(table, o)) /\ IsFiniteSet(RowsOf(stored, o))
  BY <1>1, FS_Subset DEF RowInv
<1>3. (\A m \in stored : m.version \in Int) /\ (\A r \in table : r.version \in Int)
  BY MessagesAssumption DEF RowInv
<1>4. DistinctVersions(RowsOf(table, o))
  BY DEF RowInv, DistinctVersions, RowsOf
<1> QED  BY <1>1, <1>2, <1>3, <1>4 DEF IntRows

\* The columns of the rows.
LEMMA RowTypes ==
    ASSUME RowInv
    PROVE  /\ \A r \in table : IsRow(r) /\ r.version \in Int /\ r.object \in ObjectIds
           /\ \A m \in stored : IsRow(m) /\ m.version \in Int /\ m.object \in ObjectIds
BY MessagesAssumption DEF RowInv, ObjectIds

\* Every row stays, or one of the same object with a greater version does.
Keeps(r) == \E q \in table' :
              /\ q.object = r.object
              /\ q.version > r.version \/ (q.version = r.version /\ q.schema = r.schema)
TableKeeps == \A r \in table : Keeps(r)

\* A table that does not lose a row keeps them all.
LEMMA GrowingKeeps == ASSUME RowInv, table \subseteq table' PROVE TableKeeps
BY RowTypes DEF TableKeeps, Keeps

\* What a row becomes in the UPDATE.
Updated(r, o, v, d) == IF Key(r) = <<o, v>> THEN [r EXCEPT !.payload = d] ELSE r

\* The UPDATE changes the payload of one row.
LEMMA UpdatedRow ==
    ASSUME NEW r, IsRow(r), NEW o, NEW v, NEW d
    PROVE  LET q == Updated(r, o, v, d)
           IN  /\ IsRow(q) /\ q.object = r.object /\ q.version = r.version
               /\ q.schema = r.schema
               /\ IF r.object = o /\ r.version = v THEN q.payload = d ELSE q = r
<1> DEFINE q == [r EXCEPT !.payload = d]
<1>1. q = [object |-> r.object, version |-> r.version, schema |-> r.schema, payload |-> d]
  BY DEF IsRow
<1>2. /\ q.object = r.object /\ q.version = r.version
      /\ q.schema = r.schema /\ q.payload = d
  BY <1>1
<1>3. IsRow(q)
  <2> HIDE DEF q
  <2> QED  BY <1>1, <1>2 DEF IsRow
<1>4. Key(r) = <<o, v>> <=> r.object = o /\ r.version = v
  BY DEF Key
<1>5. CASE Key(r) = <<o, v>>
  <2>1. Updated(r, o, v, d) = q
    BY <1>5 DEF Updated
  <2> HIDE DEF q
  <2> QED  BY <1>2, <1>3, <1>4, <1>5, <2>1
<1>6. CASE Key(r) # <<o, v>>
  <2>1. Updated(r, o, v, d) = r
    BY <1>6 DEF Updated
  <2> QED  BY <1>4, <1>6, <2>1
<1> QED  BY <1>5, <1>6

Remaining(rows, o, v) == {q \in rows : q.object = o => q.version >= v}

\* The table after a transaction.
LEMMA ShrunkRows ==
    ASSUME NEW rows, IsFiniteSet(rows), NEW o, NEW v, NEW d
    PROVE  /\ IsFiniteSet(Shrunk(rows, o, v, d))
           /\ \A q \in Shrunk(rows, o, v, d) : \E r \in Remaining(rows, o, v) :
                q = Updated(r, o, v, d)
           /\ \A r \in Remaining(rows, o, v) : Updated(r, o, v, d) \in Shrunk(rows, o, v, d)
<1> DEFINE P == Remaining(rows, o, v)
           N == Shrunk(rows, o, v, d)
           f == [r \in P |-> Updated(r, o, v, d)]
<1>1. N = {Updated(r, o, v, d) : r \in P}
  BY DEF Shrunk, Remaining, Updated
<1>2. IsFiniteSet(P)
  <2>1. P \in SUBSET rows
    BY DEF Remaining
  <2> QED  BY <2>1, FS_Subset
<1> HIDE DEF P, N
<1>3. f \in Surjection(P, N)
  BY <1>1 DEF Surjection
<1>4. IsFiniteSet(N)
  BY <1>2, <1>3, FS_Surjection
<1> QED  BY <1>1, <1>4 DEF P, N

\* The empty table.
LEMMA InitRInv == ASSUME RepositoryInit PROVE RInv
<1>1. RowInv
  BY FS_EmptySet DEF RepositoryInit, RowInv
<1>2. ShrinkerInv
  BY DEF RepositoryInit, ShrinkerInv, Idle
<1>3. ASSUME NEW o \in ObjectIds PROVE MergeInv(o)
  <2>1. RowsOf(table, o) = {} /\ RowsOf(stored, o) = {}
    BY DEF RepositoryInit, RowsOf
  <2>2. \A s \in Shrinkers : ~Writes(s, o)
    BY DEF RepositoryInit, Writes, Idle
  <2>3. Represents({}, {})
    <3>1. IntRows({}) /\ DistinctVersions({})
      BY FS_EmptySet DEF IntRows, DistinctVersions
    <3> QED  BY <3>1, RepresentsSelf
  <2>4. ReadInv(o) /\ DocumentInv(o)
    BY <2>1, <2>2 DEF ReadInv, DocumentInv
  <2> QED  BY <2>1, <2>3, <2>4 DEF MergeInv
<1> QED  BY <1>1, <1>2, <1>3 DEF RInv

\* Steps that change nothing of the repository.
LEMMA UnchangedRInv == ASSUME RInv, UNCHANGED repositoryVars PROVE RInv' /\ TableKeeps
<1>1. UNCHANGED <<table, shrinker, stored, folded, late>>
  BY DEF repositoryVars
<1>2. RowInv' /\ ShrinkerInv' /\ TableKeeps
  BY <1>1, GrowingKeeps DEF RInv, RowInv, ShrinkerInv
<1>3. ASSUME NEW o PROVE MergeInv(o)' <=> MergeInv(o)
  BY <1>1 DEF MergeInv, ReadInv, DocumentInv, Writes
<1> QED  BY <1>1, <1>2, <1>3 DEF RInv

\* A shrinker that goes on to something other than a transaction.
LEMMA QuietRInv ==
    ASSUME RInv, NEW s \in Shrinkers, NEW w, shrinker' = [shrinker EXCEPT ![s] = w],
           w.pc \in {"idle", "next"}, w.ids \subseteq ObjectIds,
           UNCHANGED <<table, stored, folded, late>>
    PROVE  RInv' /\ TableKeeps
<1>1. RowInv' /\ TableKeeps
  BY GrowingKeeps DEF RInv, RowInv
<1>2. /\ shrinker = [u \in Shrinkers |-> shrinker[u]]
      /\ shrinker' = [u \in Shrinkers |-> shrinker'[u]]
      /\ shrinker'[s] = w /\ \A u \in Shrinkers \ {s} : shrinker'[u] = shrinker[u]
  BY DEF RInv, ShrinkerInv
<1>3. ShrinkerInv'
  BY <1>2 DEF RInv, ShrinkerInv
<1>4. ASSUME NEW o \in ObjectIds \ late PROVE MergeInv(o)'
  <2>1. MergeInv(o)
    BY DEF RInv
  <2>2. \A u \in Shrinkers : Writes(u, o)' => Writes(u, o) /\ shrinker'[u] = shrinker[u]
    BY <1>2 DEF Writes
  <2>3. ReadInv(o)'
    BY <2>1, <2>2 DEF MergeInv, ReadInv
  <2>4. DocumentInv(o)'
    BY <2>1, <2>2 DEF MergeInv, DocumentInv
  <2> QED  BY <2>1, <2>3, <2>4 DEF MergeInv
<1> QED  BY <1>1, <1>3, <1>4 DEF RInv

\* The first query of main is such a step.
LEMMA SelectIdsRInv == ASSUME RInv, NEW s \in Shrinkers, SelectIds(s) PROVE RInv' /\ TableKeeps
<1> DEFINE w == Working(ChangedIds)
<1>1. w.pc = "next" /\ w.ids = ChangedIds
  BY DEF Working, Idle
<1>2. ChangedIds \subseteq ObjectIds
  BY DEF ChangedIds
<1>3. shrinker' = [shrinker EXCEPT ![s] = w] /\ UNCHANGED <<table, stored, folded, late>>
  BY DEF SelectIds
<1> HIDE DEF w
<1> QED  BY <1>1, <1>2, <1>3, QuietRInv

\* So is the end of main, and an error in the middle of it.
LEMMA FinishRInv ==
    ASSUME RInv, NEW s \in Shrinkers, Finish(s) \/ Fail(s) PROVE RInv' /\ TableKeeps
<1>1. Idle.pc = "idle" /\ Idle.ids = {}
  BY DEF Idle
<1>2. shrinker' = [shrinker EXCEPT ![s] = Idle] /\ UNCHANGED <<table, stored, folded, late>>
  BY DEF Finish, Fail
<1> QED  BY <1>1, <1>2, QuietRInv

\* A row comes: above what a shrinker has read, or its object is late.
LEMMA InsertRInv ==
    ASSUME RInv, NEW row \in Messages, Insert(row) PROVE RInv' /\ TableKeeps
<1>0. /\ table' = table \cup {row} /\ stored' = stored \cup {row}
      /\ late' = IF row.version < folded[row.object] THEN late \cup {row.object} ELSE late
      /\ shrinker' = shrinker /\ folded' = folded
      /\ \A r \in table : ~(r.object = row.object /\ r.version = row.version)
  BY DEF Insert, Key
<1>1. /\ IsRow(row) /\ row.version \in Int /\ row.object \in ObjectIds
      /\ folded[row.object] \in Int
  BY MessagesAssumption DEF ObjectIds, RInv, ShrinkerInv
<1>2. RowInv'
  <2>1. IsFiniteSet(table') /\ IsFiniteSet(stored')
    BY <1>0, FS_AddElement DEF RInv, RowInv
  <2> QED  BY <1>0, <1>1, <2>1 DEF RInv, RowInv
<1>3. TableKeeps
  BY <1>0, GrowingKeeps DEF RInv
<1>4. ShrinkerInv'
  BY <1>0 DEF RInv, ShrinkerInv
<1>5. ASSUME NEW o \in ObjectIds \ late' PROVE MergeInv(o)'
  <2>1. o \in ObjectIds \ late /\ MergeInv(o)
    BY <1>0 DEF RInv
  <2> DEFINE T == RowsOf(table, o)
             S == RowsOf(stored, o)
  <2>2. \A s \in Shrinkers : (Writes(s, o)' <=> Writes(s, o)) /\ shrinker'[s] = shrinker[s]
    BY <1>0 DEF Writes
  <2>3. CASE o # row.object
    <3>1. RowsOf(table', o) = T /\ RowsOf(stored', o) = S
      BY <1>0, <2>3 DEF RowsOf
    <3>2. ReadInv(o)' /\ DocumentInv(o)'
      BY <1>0, <2>1, <2>2, <3>1 DEF MergeInv, ReadInv, DocumentInv
    <3> QED  BY <2>1, <3>1, <3>2 DEF MergeInv
  <2>4. CASE o = row.object
    <3>1. /\ RowsOf(table', o) = T \cup {row} /\ RowsOf(stored', o) = S \cup {row}
          /\ row.version >= folded[o]
          /\ \A q \in T : q.version # row.version
      <4>1. ~(row.version < folded[row.object])
        BY <1>0, <1>5, <2>4
      <4> QED  BY <1>0, <1>1, <2>4, <4>1 DEF RowsOf
    <3>2. IntRows(T) /\ IntRows(S) /\ Represents(T, S) /\ ReadInv(o) /\ DocumentInv(o)
      BY <2>1, RowsOfObject DEF RInv, MergeInv
    <3> HIDE DEF T, S
    <3>3. CASE \E r \in T : r.version = folded[o]
      <4>1. PICK f \in T : f.version = folded[o]
        BY <3>3
      <4>2. f.version < row.version
        BY <1>1, <2>4, <3>1, <4>1
      <4>3. Represents(T \cup {row}, S \cup {row})
        BY <1>1, <3>1, <3>2, <4>2, RepresentsInserted
      <4>4. ReadInv(o)'
        BY <1>0, <3>1, <4>1 DEF ReadInv
      <4>5. ASSUME NEW s \in Shrinkers, Writes(s, o)
            PROVE  /\ \E m \in S \cup {row} : m.version = shrinker[s].version
                   /\ shrinker[s].document =
                        MinimizeDocument(UpTo(S \cup {row}, shrinker[s].version))
        <5>1. /\ \E m \in S : m.version = shrinker[s].version
              /\ shrinker[s].document = MinimizeDocument(UpTo(S, shrinker[s].version))
          BY <3>2, <4>5 DEF DocumentInv, S
        <5>2. shrinker[s].version <= folded[o] /\ shrinker[s].version \in Int
          BY <4>5 DEF RInv, ShrinkerInv, Writes
        <5>3. ~(row.version <= shrinker[s].version)
          BY <1>1, <2>4, <4>1, <4>2, <5>2
        <5>4. UpTo(S \cup {row}, shrinker[s].version) = UpTo(S, shrinker[s].version)
          BY <5>3 DEF UpTo
        <5> QED  BY <5>1, <5>4
      <4>6. DocumentInv(o)'
        BY <2>2, <3>1, <4>5 DEF DocumentInv
      <4> QED  BY <3>1, <4>3, <4>4, <4>6 DEF MergeInv
    <3>4. CASE ~ \E r \in T : r.version = folded[o]
      <4>1. /\ T = S /\ (\A m \in S : m.version >= folded[o])
            /\ \A s \in Shrinkers : ~Writes(s, o)
        BY <3>2, <3>4 DEF ReadInv, T, S
      <4>2. IntRows(S \cup {row})
        BY <1>1, <3>2, FS_AddElement DEF IntRows
      <4>3. DistinctVersions(S \cup {row})
        BY <3>1, <3>2, <4>1 DEF DistinctVersions, Represents
      <4>4. Represents(S \cup {row}, S \cup {row})
        BY <4>2, <4>3, RepresentsSelf
      <4>5. ReadInv(o)'
        <5>1. \A m \in S \cup {row} : m.version >= folded[o]
          BY <3>1, <4>1
        <5> QED  BY <1>0, <2>2, <3>1, <4>1, <5>1 DEF ReadInv
      <4>6. DocumentInv(o)'
        BY <2>2, <4>1 DEF DocumentInv
      <4> QED  BY <3>1, <4>1, <4>4, <4>5, <4>6 DEF MergeInv
    <3> QED  BY <3>3, <3>4
  <2> QED  BY <2>3, <2>4
<1> QED  BY <1>2, <1>3, <1>4, <1>5 DEF RInv

\* The greater one of two integers.
LEMMA MaxOfTwo ==
    ASSUME NEW a \in Int, NEW b \in Int
    PROVE  Max({a, b}) = IF a >= b THEN a ELSE b
<1> DEFINE m == IF a >= b THEN a ELSE b
<1>1. m \in {a, b} /\ \A y \in {a, b} : m >= y
  OBVIOUS
<1>2. Max({a, b}) \in {a, b} /\ \A y \in {a, b} : Max({a, b}) >= y
  BY <1>1 DEF Max
<1> QED  BY <1>2

\* A shrinker reads the rows of an object: they merge to what was stored.
LEMMA ReadRowsRInv ==
    ASSUME RInv, NEW s \in Shrinkers, ReadRows(s) PROVE RInv' /\ TableKeeps
<1>1. PICK o \in shrinker[s].ids :
        /\ RowsOf(table, o) # {}
        /\ shrinker' = [shrinker EXCEPT
             ![s] = [pc |-> "write", ids |-> @.ids \ {o}, object |-> o,
                     version |-> NewestIn(RowsOf(table, o)).version,
                     document |-> MinimizeDocument(RowsOf(table, o))]]
        /\ folded' = [folded EXCEPT ![o] = Max({@, NewestIn(RowsOf(table, o)).version})]
  BY DEF ReadRows, GetAllWithId
<1> DEFINE T == RowsOf(table, o)
           S == RowsOf(stored, o)
           v == NewestIn(T).version
           w == [pc |-> "write", ids |-> shrinker[s].ids \ {o}, object |-> o,
                 version |-> v, document |-> MinimizeDocument(T)]
<1>2. UNCHANGED <<table, stored, late>>
  BY DEF ReadRows
<1>3. /\ shrinker[s].ids \subseteq ObjectIds /\ o \in ObjectIds
      /\ folded \in [ObjectIds -> Int] /\ shrinker = [u \in Shrinkers |-> shrinker[u]]
  BY <1>1 DEF RInv, ShrinkerInv
<1>4. /\ T # {} /\ IntRows(T) /\ IntRows(S)
      /\ NewestIn(T) \in T /\ v \in Int /\ \A q \in T : q.version <= v
  <2>1. T # {} /\ IntRows(T) /\ IntRows(S)
    BY <1>1, RowsOfObject DEF RInv
  <2> HIDE DEF T
  <2> QED  BY <2>1, NewestIsThere DEF IntRows
<1>5. /\ shrinker'[s] = w /\ \A u \in Shrinkers \ {s} : shrinker'[u] = shrinker[u]
      /\ shrinker' = [u \in Shrinkers |-> shrinker'[u]]
  BY <1>1, <1>3
<1>6. /\ folded' \in [ObjectIds -> Int]
      /\ folded'[o] = IF folded[o] >= v THEN folded[o] ELSE v
      /\ \A x \in ObjectIds \ {o} : folded'[x] = folded[x]
      /\ \A x \in ObjectIds : folded'[x] >= folded[x]
      /\ folded'[o] >= v
  <2>1. folded[o] \in Int
    BY <1>3
  <2>2. Max({folded[o], v}) = IF folded[o] >= v THEN folded[o] ELSE v
    BY <1>4, <2>1, MaxOfTwo
  <2>3. folded' = [folded EXCEPT ![o] = Max({folded[o], v})]
    BY <1>1
  <2> HIDE DEF v
  <2> QED  BY <1>3, <1>4, <2>1, <2>2, <2>3
<1>7. w.pc = "write" /\ w.ids \subseteq ObjectIds /\ w.object = o /\ w.version = v
      /\ w.document = MinimizeDocument(T)
  BY <1>3
<1>8. NewestIn(T) \in table /\ NewestIn(T).object = o
  BY <1>4 DEF RowsOf
<1> HIDE DEF w, v, T, S
<1>9. RowInv' /\ TableKeeps
  BY <1>2, GrowingKeeps DEF RInv, RowInv
<1>10. ShrinkerInv'
  <2>1. ASSUME NEW u \in Shrinkers
        PROVE  /\ shrinker'[u].pc \in {"idle", "next", "write"}
               /\ shrinker'[u].ids \subseteq ObjectIds
               /\ shrinker'[u].pc = "write" =>
                    /\ shrinker'[u].object \in ObjectIds /\ shrinker'[u].version \in Int
                    /\ shrinker'[u].version <= folded'[shrinker'[u].object]
                    /\ \E r \in table' : /\ r.object = shrinker'[u].object
                                         /\ r.version >= shrinker'[u].version
    <3>1. CASE u = s
      <4>1. v <= folded'[o] /\ NewestIn(T).version >= v
        BY <1>3, <1>4, <1>6 DEF v
      <4> QED  BY <1>2, <1>3, <1>4, <1>5, <1>7, <1>8, <3>1, <4>1
    <3>2. CASE u # s
      <4>1. shrinker'[u] = shrinker[u]
        BY <1>5, <3>2
      <4>2. ASSUME shrinker[u].pc = "write"
            PROVE  /\ shrinker[u].object \in ObjectIds /\ shrinker[u].version \in Int
                   /\ shrinker[u].version <= folded[shrinker[u].object]
                   /\ \E r \in table : /\ r.object = shrinker[u].object
                                       /\ r.version >= shrinker[u].version
        BY <4>2 DEF RInv, ShrinkerInv
      <4>3. shrinker[u].pc = "write" => shrinker[u].version <= folded'[shrinker[u].object]
        BY <1>3, <1>6, <4>2
      <4>4. shrinker[u].pc \in {"idle", "next", "write"} /\ shrinker[u].ids \subseteq ObjectIds
        BY DEF RInv, ShrinkerInv
      <4> QED  BY <1>2, <4>1, <4>2, <4>3, <4>4
    <3> QED  BY <3>1, <3>2
  <2> QED  BY <1>5, <1>6, <2>1 DEF ShrinkerInv
<1>11. ASSUME NEW x \in ObjectIds \ late' PROVE MergeInv(x)'
  <2>1. x \in ObjectIds \ late /\ MergeInv(x)
    BY <1>2 DEF RInv
  <2>2. Represents(RowsOf(table', x), RowsOf(stored', x))
    BY <1>2, <2>1 DEF MergeInv
  <2>3. CASE x # o
    <3>1. \A u \in Shrinkers : Writes(u, x)' => Writes(u, x) /\ shrinker'[u] = shrinker[u]
      BY <1>5, <1>7, <2>3 DEF Writes
    <3>2. folded'[x] = folded[x]
      BY <1>6, <2>1, <2>3
    <3>3. ReadInv(x)' /\ DocumentInv(x)'
      BY <1>2, <2>1, <3>1, <3>2 DEF MergeInv, ReadInv, DocumentInv
    <3> QED  BY <2>2, <3>3 DEF MergeInv
  <2>4. CASE x = o
    <3>1. Represents(T, S) /\ ReadInv(o) /\ DocumentInv(o)
      BY <2>1, <2>4 DEF MergeInv, T, S
    <3>2. MinimizeDocument(T) = MinimizeDocument(S) /\ UpTo(S, v) = S
      BY <1>4, <3>1, SameDocument DEF v
    <3>3. folded[o] <= v
      <4>1. CASE \E r \in T : r.version = folded[o]
        BY <1>4, <4>1
      <4>2. CASE ~ \E r \in T : r.version = folded[o]
        <5>1. T = S /\ \A m \in S : m.version >= folded[o]
          BY <3>1, <4>2 DEF ReadInv, T, S
        <5> QED  BY <1>3, <1>4, <5>1 DEF v
      <4> QED  BY <4>1, <4>2
    <3>4. folded'[o] = v
      BY <1>3, <1>4, <1>6, <3>3
    <3>5. ReadInv(o)'
      BY <1>2, <1>4, <3>4 DEF ReadInv, T, v
    <3>6. ASSUME NEW u \in Shrinkers, Writes(u, o)'
          PROVE  /\ \E m \in S : m.version = shrinker'[u].version
                 /\ shrinker'[u].document = MinimizeDocument(UpTo(S, shrinker'[u].version))
      <4>1. CASE u = s
        <5>1. \E m \in S : m.version = NewestIn(T).version
          BY <1>4, <3>1 DEF Represents
        <5> QED  BY <1>5, <1>7, <3>2, <4>1, <5>1 DEF v
      <4>2. CASE u # s
        <5>1. shrinker'[u] = shrinker[u]
          BY <1>5, <4>2
        <5>2. Writes(u, o)
          BY <3>6, <5>1 DEF Writes
        <5> QED  BY <3>1, <5>1, <5>2 DEF DocumentInv, S
      <4> QED  BY <4>1, <4>2
    <3>7. DocumentInv(o)'
      BY <1>2, <3>6 DEF DocumentInv, S
    <3> QED  BY <2>2, <2>4, <3>5, <3>7 DEF MergeInv
  <2> QED  BY <2>3, <2>4
<1> QED  BY <1>9, <1>10, <1>11 DEF RInv

\* The transaction of a shrinker.
LEMMA TransactionRInv ==
    ASSUME RInv, NEW s \in Shrinkers, Transaction(s) PROVE RInv' /\ TableKeeps
<1> DEFINE o == shrinker[s].object
           v == shrinker[s].version
           d == shrinker[s].document
           w == Working(shrinker[s].ids)
<1>0. /\ shrinker[s].pc = "write" /\ table' = Shrunk(table, o, v, d)
      /\ shrinker' = [shrinker EXCEPT ![s] = w] /\ UNCHANGED <<stored, folded, late>>
  BY DEF Transaction
<1>1. /\ o \in ObjectIds /\ v \in Int /\ v <= folded[o] /\ shrinker[s].ids \subseteq ObjectIds
      /\ \E r \in table : r.object = o /\ r.version >= v
      /\ shrinker = [u \in Shrinkers |-> shrinker[u]] /\ folded \in [ObjectIds -> Int]
  BY <1>0 DEF RInv, ShrinkerInv
<1>2. w.pc = "next" /\ w.ids \subseteq ObjectIds
  BY <1>1 DEF Working, Idle
<1>3. Writes(s, o)
  BY <1>0 DEF Writes
<1>4. /\ shrinker'[s] = w /\ \A u \in Shrinkers \ {s} : shrinker'[u] = shrinker[u]
      /\ shrinker' = [u \in Shrinkers |-> shrinker'[u]]
  BY <1>0, <1>1
<1> HIDE DEF o, v, d, w
<1>5. /\ \A r \in table : IsRow(r) /\ r.version \in Int
      /\ IsFiniteSet(table)
  BY RowTypes DEF RInv, RowInv
<1>6. /\ IsFiniteSet(table')
      /\ \A q \in table' : \E r \in Remaining(table, o, v) : q = Updated(r, o, v, d)
      /\ \A r \in Remaining(table, o, v) : Updated(r, o, v, d) \in table'
  BY <1>0, <1>5, ShrunkRows
<1>7. ASSUME NEW r \in table
      PROVE  LET q == Updated(r, o, v, d)
             IN  /\ IsRow(q) /\ q.object = r.object /\ q.version = r.version
                 /\ q.schema = r.schema
                 /\ IF r.object = o /\ r.version = v THEN q.payload = d ELSE q = r
  BY <1>5, UpdatedRow
<1>8. \A r \in table : (r.object = o => r.version >= v) <=> r \in Remaining(table, o, v)
  BY DEF Remaining
<1>9. Remaining(table, o, v) \subseteq table
  BY DEF Remaining
<1>10. TableKeeps
  <2>1. ASSUME NEW r \in table PROVE Keeps(r)
    <3>1. CASE r \in Remaining(table, o, v)
      BY <1>6, <1>7, <3>1 DEF Keeps
    <3>2. CASE r \notin Remaining(table, o, v)
      <4>1. r.object = o /\ ~(r.version >= v) /\ r.version \in Int
        BY <1>5, <1>8, <3>2
      <4>2. PICK x \in table : x.object = o /\ x.version >= v
        BY <1>1
      <4>3. Updated(x, o, v, d) \in table'
        BY <1>6, <1>8, <4>2
      <4>4. x.version > r.version
        BY <1>1, <1>5, <4>1, <4>2
      <4> QED  BY <1>7, <4>1, <4>2, <4>3, <4>4 DEF Keeps
    <3> QED  BY <3>1, <3>2
  <2> QED  BY <2>1 DEF TableKeeps
<1>11. RowInv'
  <2>1. ASSUME NEW q \in table'
        PROVE  \E r \in table : /\ IsRow(q) /\ q.object = r.object /\ q.version = r.version
                                /\ q.schema = r.schema /\ q = Updated(r, o, v, d)
    BY <1>6, <1>7, <1>9
  <2>2. \A q \in table' : IsRow(q)
    BY <2>1
  <2>3. ASSUME NEW q \in table', NEW p \in table', q.object = p.object, q.version = p.version
        PROVE  q = p
    <3>1. PICK r \in table : q.object = r.object /\ q.version = r.version /\ q = Updated(r, o, v, d)
      BY <2>1
    <3>2. PICK x \in table : p.object = x.object /\ p.version = x.version /\ p = Updated(x, o, v, d)
      BY <2>1
    <3>3. r.object = x.object /\ r.version = x.version
      BY <2>3, <3>1, <3>2
    <3>4. \A y, z \in table : y.object = z.object /\ y.version = z.version => y = z
      BY DEF RInv, RowInv
    <3>5. r = x
      BY <3>3, <3>4
    <3> QED  BY <3>1, <3>2, <3>5
  <2>4. ASSUME NEW q \in table'
        PROVE  \E m \in stored' :
                 m.object = q.object /\ m.version = q.version /\ m.schema = q.schema
    <3>1. PICK r \in table : q.object = r.object /\ q.version = r.version /\ q.schema = r.schema
      BY <2>1
    <3>2. \E m \in stored : m.object = r.object /\ m.version = r.version /\ m.schema = r.schema
      BY DEF RInv, RowInv
    <3> QED  BY <1>0, <3>1, <3>2
  <2>5. stored' \subseteq Messages /\ IsFiniteSet(stored')
    BY <1>0 DEF RInv, RowInv
  <2> QED  BY <1>6, <2>2, <2>3, <2>4, <2>5 DEF RowInv
<1>12. ShrinkerInv'
  <2>1. ASSUME NEW u \in Shrinkers, u # s
        PROVE  /\ shrinker[u].pc \in {"idle", "next", "write"}
               /\ shrinker[u].ids \subseteq ObjectIds
               /\ shrinker[u].pc = "write" =>
                    /\ shrinker[u].object \in ObjectIds /\ shrinker[u].version \in Int
                    /\ shrinker[u].version <= folded'[shrinker[u].object]
                    /\ \E r \in table' : /\ r.object = shrinker[u].object
                                         /\ r.version >= shrinker[u].version
    <3>1. ASSUME shrinker[u].pc = "write"
          PROVE  \E r \in table' : /\ r.object = shrinker[u].object
                                   /\ r.version >= shrinker[u].version
      <4>1. shrinker[u].version \in Int
        BY <3>1 DEF RInv, ShrinkerInv
      <4>2. PICK r \in table : r.object = shrinker[u].object /\ r.version >= shrinker[u].version
        BY <3>1 DEF RInv, ShrinkerInv
      <4>3. PICK q \in table' : q.object = r.object /\ (q.version > r.version \/ q.version = r.version)
        BY <1>10 DEF TableKeeps, Keeps
      <4>4. q.version \in Int /\ r.version \in Int
        BY <1>5, <1>6, <1>7, <1>9
      <4>5. q.version >= shrinker[u].version
        BY <4>1, <4>2, <4>3, <4>4
      <4> QED  BY <4>2, <4>3, <4>5
    <3> QED  BY <1>0, <3>1 DEF RInv, ShrinkerInv
  <2>2. folded' \in [ObjectIds -> Int]
    BY <1>0, <1>1
  <2> QED  BY <1>2, <1>4, <2>1, <2>2 DEF ShrinkerInv
<1>13. ASSUME NEW x \in ObjectIds \ late' PROVE MergeInv(x)'
  <2>1. x \in ObjectIds \ late /\ MergeInv(x)
    BY <1>0 DEF RInv
  <2>2. \A u \in Shrinkers : Writes(u, x)' => Writes(u, x) /\ shrinker'[u] = shrinker[u]
    BY <1>2, <1>4 DEF Writes
  <2>3. DocumentInv(x)'
    BY <1>0, <2>1, <2>2 DEF MergeInv, DocumentInv
  <2> DEFINE T == RowsOf(table, x)
             T2 == RowsOf(table', x)
             S == RowsOf(stored, x)
  <2>4. IntRows(T2) /\ DistinctVersions(T2)
    <3>1. T2 \in SUBSET table'
      BY DEF RowsOf
    <3>2. IsFiniteSet(T2)
      BY <1>6, <3>1, FS_Subset
    <3>3. \A q \in T2 : q.version \in Int
      BY <1>5, <1>6, <1>7, <1>9, <3>1
    <3>4. DistinctVersions(T2)
      BY <1>11 DEF RowInv, DistinctVersions, RowsOf
    <3> QED  BY <3>2, <3>3, <3>4 DEF IntRows
  <2>5. CASE x # o
    <3>1. T2 = T
      <4>1. ASSUME NEW q \in T2 PROVE q \in T
        <5>1. q \in table' /\ q.object = x
          BY DEF RowsOf
        <5>2. PICK r \in table : q = Updated(r, o, v, d)
          BY <1>6, <1>9, <5>1
        <5>3. q = r
          BY <1>7, <2>5, <5>1, <5>2
        <5> QED  BY <5>1, <5>3 DEF RowsOf
      <4>2. ASSUME NEW r \in T PROVE r \in T2
        <5>1. r \in table /\ r.object = x
          BY DEF RowsOf
        <5>2. Updated(r, o, v, d) \in table' /\ Updated(r, o, v, d) = r
          BY <1>6, <1>7, <1>8, <2>5, <5>1
        <5> QED  BY <5>1, <5>2 DEF RowsOf
      <4> QED  BY <4>1, <4>2
    <3>2. Represents(T2, S)
      BY <2>1, <3>1 DEF MergeInv
    <3>3. ReadInv(x)'
      BY <1>0, <2>1, <2>2, <3>1 DEF MergeInv, ReadInv
    <3> QED  BY <1>0, <2>3, <3>2, <3>3 DEF MergeInv
  <2>6. CASE x = o
    <3>1. /\ Represents(T, S) /\ ReadInv(o)
          /\ (\E m \in S : m.version = v) /\ d = MinimizeDocument(UpTo(S, v))
      BY <1>3, <2>1, <2>6 DEF MergeInv, DocumentInv, v, d
    <3>2. ASSUME NEW r \in T, r.version >= v
          PROVE  /\ Updated(r, o, v, d) \in T2
                 /\ Updated(r, o, v, d).version = r.version
                 /\ r.version # v => Updated(r, o, v, d) = r
      <4>1. r \in table /\ r.object = o
        BY <2>6 DEF RowsOf
      <4>2. Updated(r, o, v, d) \in table'
        BY <1>6, <1>8, <3>2, <4>1
      <4> QED  BY <1>7, <2>6, <4>1, <4>2 DEF RowsOf
    <3>3. ASSUME NEW q \in T2
          PROVE  \E r \in T : /\ r.version >= v /\ q.version = r.version
                              /\ IF r.version = v THEN q.payload = d ELSE q = r
      <4>1. q \in table' /\ q.object = o
        BY <2>6 DEF RowsOf
      <4>2. PICK r \in Remaining(table, o, v) : q = Updated(r, o, v, d)
        BY <1>6, <4>1
      <4>3. r \in table /\ r.object = o /\ r.version >= v
        BY <1>7, <1>8, <1>9, <4>1, <4>2
      <4>4. r \in T
        BY <2>6, <4>3 DEF RowsOf
      <4> QED  BY <1>7, <4>2, <4>3, <4>4
    <3>4. ShrinksTo(T, T2, v, d)
      BY <3>2, <3>3 DEF ShrinksTo
    <3> HIDE DEF T, T2, S
    <3>5. Represents(T2, S)
      BY <1>1, <2>4, <3>1, <3>4, RepresentsShrunk
    <3>6. ReadInv(x)'
      <4>1. PICK r \in T : r.version = folded[o]
        BY <1>3, <2>6, <3>1 DEF ReadInv, T
      <4>2. \E q \in T2 : q.version = folded[o]
        BY <1>1, <3>2, <4>1
      <4> QED  BY <1>0, <2>6, <4>2 DEF ReadInv, T2
    <3> QED  BY <1>0, <2>3, <2>6, <3>5, <3>6 DEF MergeInv, T2, S
  <2> QED  BY <2>5, <2>6
<1> QED  BY <1>10, <1>11, <1>12, <1>13 DEF RInv

\* Every step of the repository keeps its invariant, and loses no row but for
\* a newer one.
LEMMA RepositoryStep ==
    ASSUME RInv, RepositoryNext \/ UNCHANGED repositoryVars
    PROVE  RInv' /\ TableKeeps /\ stored \subseteq stored'
<1>1. ASSUME NEW row \in Messages, Insert(row)
      PROVE  RInv' /\ TableKeeps /\ stored \subseteq stored'
  BY <1>1, InsertRInv DEF Insert
<1>2. ASSUME NEW s \in Shrinkers, ShrinkerStep(s) \/ Fail(s)
      PROVE  RInv' /\ TableKeeps /\ stored \subseteq stored'
  <2>1. CASE SelectIds(s)
    BY <2>1, SelectIdsRInv DEF SelectIds
  <2>2. CASE ReadRows(s)
    BY <2>2, ReadRowsRInv DEF ReadRows
  <2>3. CASE Transaction(s)
    BY <2>3, TransactionRInv DEF Transaction
  <2>4. CASE Finish(s) \/ Fail(s)
    BY <2>4, FinishRInv DEF Finish, Fail
  <2> QED  BY <1>2, <2>1, <2>2, <2>3, <2>4 DEF ShrinkerStep
<1>3. CASE UNCHANGED repositoryVars
  BY <1>3, UnchangedRInv DEF repositoryVars
<1> QED  BY <1>1, <1>2, <1>3 DEF RepositoryNext

------------------------------------------------------------------------------
(* The answers. *)

\* h, the label of a row that was the newest, is still there or is outdated.
KeptIn(h, rows) ==
    \E r \in rows : /\ r.object = h.object
                    /\ r.version > h.version \/ (r.version = h.version /\ r.schema = h.schema)

\* AnswersAreRight for one request.
Right(call, reply, type, heads, S) ==
    LET found(h) == \E r \in reply.rows : r.object = h.object
        moved(h) == \E m \in S : /\ m.object = h.object /\ m.version > h.version
                                 /\ m.schema # h.schema
        answered == \/ reply.status = "documents"
                    \/ /\ reply.status = "missing" /\ call.op = "single"
                       /\ type = "DocumentStorage"
    IN  /\ \A r \in reply.rows : IF call.op = "schema" THEN r.schema = call.schema
                                                       ELSE r.object \in call.objects
        /\ answered =>
             \A h \in heads :
               /\ \A r \in reply.rows : r.object = h.object => r.version >= h.version
               /\ IF call.op = "schema" THEN h.schema = call.schema => found(h) \/ moved(h)
                                        ELSE h.object \in call.objects => found(h)

\* A label has the columns of its row.
LEMMA LabelsFacts ==
    ASSUME NEW rows
    PROVE  /\ \A l \in Labels(rows) : \E r \in rows :
                l.object = r.object /\ l.version = r.version /\ l.schema = r.schema
           /\ \A r \in rows : \E l \in Labels(rows) :
                l.object = r.object /\ l.version = r.version /\ l.schema = r.schema
<1> DEFINE Label(r) == [object |-> r.object, version |-> r.version, schema |-> r.schema]
<1>1. Labels(rows) = {Label(r) : r \in rows}
  BY DEF Labels
<1>2. ASSUME NEW r
      PROVE  /\ Label(r).object = r.object /\ Label(r).version = r.version
             /\ Label(r).schema = r.schema
  OBVIOUS
<1> HIDE DEF Label
<1>3. \A l \in Labels(rows) : \E r \in rows : l = Label(r)
  BY <1>1
<1>4. \A r \in rows : Label(r) \in Labels(rows)
  BY <1>1
<1> QED  BY <1>2, <1>3, <1>4

\* Rows whose columns other rows have are labelled alike.
LEMMA LabelsMono ==
    ASSUME NEW A, NEW B,
           \A r \in A : \E m \in B :
             m.object = r.object /\ m.version = r.version /\ m.schema = r.schema
    PROVE  Labels(A) \subseteq Labels(B)
BY DEF Labels

\* What is stored is from messages.
LEMMA StoredLabels ==
    ASSUME RowInv
    PROVE  Labels(table) \subseteq Labels(stored) /\ Labels(stored) \subseteq Labels(Messages)
<1>1. Labels(table) \subseteq Labels(stored)
  BY LabelsMono DEF RowInv
<1>2. Labels(stored) \subseteq Labels(Messages)
  BY LabelsMono DEF RowInv
<1> QED  BY <1>1, <1>2

\* The newest row of an object that is in the table.
LEMMA NewestOfObject ==
    ASSUME RowInv, NEW q \in table
    PROVE  LET n == Newest(table, q.object)
           IN  /\ n \in table /\ n.object = q.object
               /\ \A r \in table : r.object = q.object => r.version <= n.version
<1> DEFINE R == RowsOf(table, q.object)
<1>1. q \in R
  BY DEF RowsOf
<1>2. IntRows(R)
  BY RowsOfObject
<1>3. R \subseteq table /\ (\A r \in R : r.object = q.object)
      /\ \A r \in table : r.object = q.object => r \in R
  BY DEF RowsOf
<1>4. Newest(table, q.object) = NewestIn(R)
  BY DEF Newest
<1> HIDE DEF R
<1>5. NewestIn(R) \in R /\ \A r \in R : r.version <= NewestIn(R).version
  BY <1>1, <1>2, NewestIsThere
<1> QED  BY <1>3, <1>4, <1>5

\* What query_multiple returns.
LEMMA QueryMultipleFacts ==
    ASSUME RowInv, NEW ids
    PROVE  /\ QueryMultiple(table, ids) \subseteq table
           /\ \A n \in QueryMultiple(table, ids) :
                n.object \in ids /\ \A r \in table : r.object = n.object => r.version <= n.version
           /\ \A r \in table : r.object \in ids =>
                \E n \in QueryMultiple(table, ids) : n.object = r.object
<1>1. QueryMultiple(table, ids) = {Newest(table, r.object) : r \in {q \in table : q.object \in ids}}
  BY DEF QueryMultiple
<1>2. ASSUME NEW n \in QueryMultiple(table, ids)
      PROVE  /\ n \in table /\ n.object \in ids
             /\ \A r \in table : r.object = n.object => r.version <= n.version
  <2>1. PICK q \in table : q.object \in ids /\ n = Newest(table, q.object)
    BY <1>1
  <2> QED  BY <2>1, NewestOfObject
<1>3. ASSUME NEW r \in table, r.object \in ids
      PROVE  \E n \in QueryMultiple(table, ids) : n.object = r.object
  <2>1. Newest(table, r.object) \in QueryMultiple(table, ids)
    BY <1>1, <1>3
  <2> QED  BY <2>1, NewestOfObject
<1> QED  BY <1>2, <1>3

\* What query_by_schema returns: the newest rows that are of the schema.
LEMMA QueryBySchemaFacts ==
    ASSUME NEW s
    PROVE  \A n : n \in QueryBySchema(table, s) <=>
                    /\ n \in table /\ n.schema = s
                    /\ \A r \in table : r.object = n.object => r.version <= n.version
BY DEF QueryBySchema, RowsOf

\* An answer without rows is right when it does not claim to be complete.
LEMMA NothingIsRight ==
    ASSUME NEW call, NEW reply, NEW type, NEW heads, NEW S, reply.rows = {},
           \/ reply.status \in {"none", "failed", "refused", "wrong format", "raw result",
                                "timeseries"}
           \/ reply.status = "missing" /\ ~(call.op = "single" /\ type = "DocumentStorage")
    PROVE  Right(call, reply, type, heads, S)
BY DEF Right

\* So is one with points of the schema or of the objects.
LEMMA SeriesAreRight ==
    ASSUME NEW call, NEW reply, NEW type, NEW heads, NEW S, reply.status = "timeseries",
           \A r \in reply.rows : IF call.op = "schema" THEN r.schema = call.schema
                                                       ELSE r.object \in call.objects
    PROVE  Right(call, reply, type, heads, S)
BY DEF Right

\* More rows stored later do not make an answer wrong.
LEMMA RightMono ==
    ASSUME NEW call, NEW reply, NEW type, NEW heads, NEW S, NEW S2, S \subseteq S2,
           Right(call, reply, type, heads, S)
    PROVE  Right(call, reply, type, heads, S2)
BY DEF Right

\* A head that is kept has a row that is at least as new.
LEMMA KeptRow ==
    ASSUME RowInv, NEW h, h.version \in Int, KeptIn(h, table)
    PROVE  \E x \in table : /\ x.object = h.object /\ x.version >= h.version
                            /\ x.version = h.version => x.schema = h.schema
<1>1. PICK x \in table :
        /\ x.object = h.object
        /\ x.version > h.version \/ (x.version = h.version /\ x.schema = h.schema)
  BY DEF KeptIn
<1>2. x.version \in Int
  BY RowTypes
<1> QED  BY <1>1, <1>2

\* The newest rows of the objects are the right answer.
LEMMA ObjectsAreRight ==
    ASSUME RowInv, NEW call, NEW reply, NEW type, NEW heads, call.op # "schema",
           \A h \in heads : h.version \in Int /\ KeptIn(h, table),
           reply.rows = Labels(QueryMultiple(table, call.objects))
    PROVE  Right(call, reply, type, heads, stored)
<1> DEFINE M == QueryMultiple(table, call.objects)
<1>1. /\ M \subseteq table
      /\ \A n \in M : n.object \in call.objects
                      /\ \A r \in table : r.object = n.object => r.version <= n.version
      /\ \A r \in table : r.object \in call.objects => \E n \in M : n.object = r.object
  BY QueryMultipleFacts
<1>2. /\ \A l \in reply.rows : \E n \in M :
           l.object = n.object /\ l.version = n.version /\ l.schema = n.schema
      /\ \A n \in M : \E l \in reply.rows : l.object = n.object
  BY LabelsFacts
<1>3. \A r \in table : r.version \in Int
  BY RowTypes
<1> HIDE DEF M
<1>4. \A l \in reply.rows : l.object \in call.objects
  BY <1>1, <1>2
<1>5. ASSUME NEW h \in heads
      PROVE  /\ \A l \in reply.rows : l.object = h.object => l.version >= h.version
             /\ h.object \in call.objects => \E l \in reply.rows : l.object = h.object
  <2>1. PICK x \in table : x.object = h.object /\ x.version >= h.version
    BY KeptRow
  <2>2. ASSUME NEW l \in reply.rows, l.object = h.object PROVE l.version >= h.version
    <3>1. PICK n \in M : l.object = n.object /\ l.version = n.version
      BY <1>2
    <3>2. n \in table /\ x.version <= n.version
      BY <1>1, <2>1, <2>2, <3>1
    <3> QED  BY <1>3, <2>1, <3>1, <3>2
  <2>3. ASSUME h.object \in call.objects PROVE \E l \in reply.rows : l.object = h.object
    <3>1. PICK n \in M : n.object = h.object
      BY <1>1, <2>1, <2>3
    <3> QED  BY <1>2, <3>1
  <2> QED  BY <2>2, <2>3
<1> QED  BY <1>4, <1>5 DEF Right

\* The newest rows that are of the schema are the right answer.
LEMMA SchemaIsRight ==
    ASSUME RowInv, NEW call, NEW reply, NEW type, NEW heads, call.op = "schema",
           \A h \in heads : h.version \in Int /\ KeptIn(h, table),
           reply.rows = Labels(QueryBySchema(table, call.schema))
    PROVE  Right(call, reply, type, heads, stored)
<1> DEFINE M == QueryBySchema(table, call.schema)
<1>1. \A n : n \in M <=> /\ n \in table /\ n.schema = call.schema
                         /\ \A r \in table : r.object = n.object => r.version <= n.version
  BY QueryBySchemaFacts
<1>2. /\ \A l \in reply.rows : \E n \in M :
           l.object = n.object /\ l.version = n.version /\ l.schema = n.schema
      /\ \A n \in M : \E l \in reply.rows : l.object = n.object
  BY LabelsFacts
<1>3. \A r \in table : r.version \in Int
  BY RowTypes
<1> HIDE DEF M
<1>4. \A l \in reply.rows : l.schema = call.schema
  BY <1>1, <1>2
<1>5. ASSUME NEW h \in heads
      PROVE  /\ \A l \in reply.rows : l.object = h.object => l.version >= h.version
             /\ h.schema = call.schema =>
                  \/ \E l \in reply.rows : l.object = h.object
                  \/ \E m \in stored : /\ m.object = h.object /\ m.version > h.version
                                       /\ m.schema # h.schema
  <2>1. PICK x \in table : /\ x.object = h.object /\ x.version >= h.version
                           /\ x.version = h.version => x.schema = h.schema
    BY KeptRow
  <2>2. ASSUME NEW l \in reply.rows, l.object = h.object PROVE l.version >= h.version
    <3>1. PICK n \in M : l.object = n.object /\ l.version = n.version
      BY <1>2
    <3>2. n \in table /\ x.version <= n.version
      BY <1>1, <2>1, <2>2, <3>1
    <3> QED  BY <1>3, <2>1, <3>1, <3>2
  <2> DEFINE n == Newest(table, x.object)
  <2>3. /\ n \in table /\ n.object = x.object
        /\ \A r \in table : r.object = n.object => r.version <= n.version
    BY NewestOfObject
  <2> HIDE DEF n
  <2>4. CASE n.schema = call.schema
    <3>1. n \in M
      BY <1>1, <2>3, <2>4
    <3> QED  BY <1>2, <2>1, <2>2, <2>3, <3>1
  <2>5. CASE n.schema # call.schema
    <3>1. SUFFICES ASSUME h.schema = call.schema
                   PROVE  \E m \in stored : /\ m.object = h.object /\ m.version > h.version
                                            /\ m.schema # h.schema
      BY <2>2
    <3>2. n.version # h.version
      <4>1. SUFFICES ASSUME n.version = h.version PROVE FALSE
        OBVIOUS
      <4>2. x.version = h.version
        BY <1>3, <2>1, <2>3, <4>1
      <4>3. n = x
        BY <2>3, <4>1, <4>2 DEF RowInv
      <4> QED  BY <2>1, <2>5, <3>1, <4>2, <4>3
    <3>3. n.version > h.version
      BY <1>3, <2>1, <2>3, <3>2
    <3>4. PICK m \in stored : m.object = n.object /\ m.version = n.version /\ m.schema = n.schema
      BY <2>3 DEF RowInv
    <3> QED  BY <2>1, <2>3, <2>5, <3>1, <3>3, <3>4
  <2> QED  BY <2>4, <2>5
<1> QED  BY <1>4, <1>5 DEF Right

\* The fields of an answer.
LEMMA ReplyFields ==
    ASSUME NEW x
    PROVE  /\ Reply(x).status = x /\ Reply(x).rows = {} /\ Reply(x) = [status |-> x, rows |-> {}]
           /\ Documents(x).status = "documents" /\ Documents(x).rows = Labels(x)
           /\ Documents(x) = [status |-> "documents", rows |-> Labels(x)]
BY DEF Reply, Documents

Replies == [status : Statuses, rows : SUBSET (Labels(Messages) \cup Points)]

\* What the handlers may answer.  A refusal is from a service of the other
\* kind than the type, or of a request for several objects.
Sound(call, reply, address, type, heads) ==
    /\ reply \in Replies /\ reply.rows \subseteq Labels(stored) \cup Points
    /\ Right(call, reply, type, heads, stored)
    /\ reply.status = "refused" =>
         \/ Backend[address] # "postgres" /\ (type = "DocumentStorage" \/ call.op = "multiple")
         \/ Backend[address] = "postgres" /\ type = "Timeseries"

\* Answers without rows.
LEMMA EmptyIsSound ==
    ASSUME NEW call, NEW address, NEW type, NEW heads, NEW status \in Statuses,
           \/ status \in {"failed", "wrong format", "raw result"}
           \/ status = "missing" /\ ~(call.op = "single" /\ type = "DocumentStorage")
           \/ /\ status = "refused"
              /\ \/ /\ Backend[address] # "postgres"
                    /\ type = "DocumentStorage" \/ call.op = "multiple"
                 \/ Backend[address] = "postgres" /\ type = "Timeseries"
    PROVE  Sound(call, Reply(status), address, type, heads)
<1>1. /\ Reply(status).status = status /\ Reply(status).rows = {}
      /\ Reply(status) = [status |-> status, rows |-> {}]
  BY ReplyFields
<1>2. Reply(status) \in Replies
  BY <1>1 DEF Replies
<1>3. Right(call, Reply(status), type, heads, stored)
  BY <1>1, NothingIsRight
<1> QED  BY <1>1, <1>2, <1>3 DEF Sound

\* Answers with documents.
LEMMA DocumentsAreSound ==
    ASSUME RowInv, NEW call, NEW address, NEW type, NEW heads, NEW reply, NEW rows,
           rows \subseteq table, reply.rows = Labels(rows), reply = [status |-> reply.status, rows |-> reply.rows],
           reply.status \in {"documents", "missing"},
           Right(call, reply, type, heads, stored)
    PROVE  Sound(call, reply, address, type, heads)
<1>1. Labels(rows) \subseteq Labels(stored) /\ Labels(stored) \subseteq Labels(Messages)
  <2>1. Labels(rows) \subseteq Labels(table)
    BY LabelsMono
  <2> QED  BY <2>1, StoredLabels
<1>2. reply.status \in Statuses /\ reply.status # "refused"
  BY DEF Statuses
<1>3. reply \in Replies
  BY <1>1, <1>2 DEF Replies
<1> QED  BY <1>1, <1>2, <1>3 DEF Sound

\* Answers with points.
LEMMA SeriesAreSound ==
    ASSUME NEW call, NEW address, NEW type, NEW heads, NEW rows \in SUBSET Points,
           \A r \in rows : IF call.op = "schema" THEN r.schema = call.schema
                                                 ELSE r.object \in call.objects
    PROVE  Sound(call, [status |-> "timeseries", rows |-> rows], address, type, heads)
<1> DEFINE reply == [status |-> "timeseries", rows |-> rows]
<1>1. reply.status = "timeseries" /\ reply.rows = rows /\ reply \in Replies
  BY DEF Replies, Statuses
<1> HIDE DEF reply
<1>2. Right(call, reply, type, heads, stored)
  BY <1>1, SeriesAreRight
<1>3. Sound(call, reply, address, type, heads)
  BY <1>1, <1>2 DEF Sound
<1> QED  BY <1>3 DEF reply

\* Every handler answers soundly.
LEMMA HandleIsSound ==
    ASSUME RowInv, NEW call \in Calls, NEW address \in Addresses, NEW type \in Kinds, NEW heads,
           \A h \in heads : h.version \in Int /\ KeptIn(h, table)
    PROVE  Sound(call, Handle(call, address, type), address, type, heads)
<1> DEFINE Fine(reply) == Sound(call, reply, address, type, heads)
           M == QueryMultiple(table, call.objects)
<1>0. /\ call.op \in {"single", "multiple", "schema", "raw"} /\ call.body \in Bodies
      /\ type \in {"DocumentStorage", "Timeseries"}
      /\ M \subseteq table
      /\ {"refused", "missing", "wrong format", "raw result"} \subseteq Statuses
  BY CallsAssumption, QueryMultipleFacts DEF Kinds, Statuses
<1>1. ASSUME type = "DocumentStorage" \/ call.op = "multiple", Backend[address] # "postgres"
      PROVE  Fine(Reply("refused"))
  BY <1>0, <1>1, EmptyIsSound
<1>2. ASSUME type = "Timeseries", Backend[address] = "postgres" PROVE Fine(Reply("refused"))
  BY <1>0, <1>2, EmptyIsSound
<1>3. ASSUME ~(call.op = "single" /\ type = "DocumentStorage") PROVE Fine(Reply("missing"))
  BY <1>0, <1>3, EmptyIsSound
<1>4. Fine(Reply("wrong format")) /\ Fine(Reply("raw result"))
  BY <1>0, EmptyIsSound
<1>5. ASSUME call.op # "schema" PROVE Fine(Documents(M)) /\ Fine(NonEmpty(M))
  <2>1. /\ Documents(M).rows = Labels(M) /\ Documents(M).status = "documents"
        /\ Documents(M) = [status |-> Documents(M).status, rows |-> Documents(M).rows]
    BY ReplyFields
  <2>2. Fine(Documents(M))
    <3>1. Right(call, Documents(M), type, heads, stored)
      BY <1>5, <2>1, ObjectsAreRight
    <3> HIDE DEF M
    <3> QED  BY <1>0, <2>1, <3>1, DocumentsAreSound
  <2>3. CASE M = {}
    <3>1. NonEmpty(M) = Reply("missing")
      BY <2>3 DEF NonEmpty
    <3>2. /\ Reply("missing").rows = Labels(M) /\ Reply("missing").status = "missing"
          /\ Reply("missing") = [status |-> Reply("missing").status, rows |-> Reply("missing").rows]
      <4>1. Labels({}) = {}
        BY DEF Labels
      <4> QED  BY <2>3, <4>1, ReplyFields
    <3>3. Right(call, Reply("missing"), type, heads, stored)
      BY <1>5, <3>2, ObjectsAreRight
    <3> HIDE DEF M
    <3>4. Fine(Reply("missing"))
      BY <1>0, <3>2, <3>3, DocumentsAreSound
    <3> QED  BY <2>2, <3>1, <3>4
  <2>4. CASE M # {}
    <3>1. NonEmpty(M) = Documents(M)
      BY <2>4 DEF NonEmpty
    <3> QED  BY <2>2, <3>1
  <2> QED  BY <2>3, <2>4
<1>6. ASSUME call.op = "schema" PROVE Fine(Documents(QueryBySchema(table, call.schema)))
  <2> DEFINE B == QueryBySchema(table, call.schema)
  <2>1. /\ Documents(B).rows = Labels(B) /\ Documents(B).status = "documents"
        /\ Documents(B) = [status |-> Documents(B).status, rows |-> Documents(B).rows]
    BY ReplyFields
  <2>2. B \subseteq table
    BY QueryBySchemaFacts
  <2>3. Right(call, Documents(B), type, heads, stored)
    BY <1>6, <2>1, SchemaIsRight
  <2> HIDE DEF B
  <2>4. Fine(Documents(B))
    BY <2>1, <2>2, <2>3, DocumentsAreSound
  <2> QED  BY <2>4 DEF B
<1>7. ASSUME call.op # "schema", type = "Timeseries" PROVE Fine(SeriesByRange(call, address))
  <2> DEFINE rows == IF Backend[address] = "victoria" THEN VictoriaRange(call.objects)
                     ELSE DruidRange(call.objects, call.schema)
  <2>1. rows \in SUBSET Points /\ \A r \in rows : r.object \in call.objects
    BY DEF VictoriaRange, DruidRange
  <2>2. SeriesByRange(call, address) =
          IF Backend[address] # "postgres" THEN [status |-> "timeseries", rows |-> rows]
          ELSE Reply("refused")
    BY DEF SeriesByRange, AskSeries
  <2> HIDE DEF rows
  <2>3. Fine([status |-> "timeseries", rows |-> rows])
    BY <1>7, <2>1, SeriesAreSound
  <2> HIDE DEF Fine
  <2> QED  BY <1>2, <1>7, <2>2, <2>3
<1>8. ASSUME call.op = "schema", type = "Timeseries" PROVE Fine(SeriesBySchema(call, address))
  <2> DEFINE rows == {p \in Points : p.schema = call.schema}
  <2>1. rows \in SUBSET Points /\ \A r \in rows : r.schema = call.schema
    OBVIOUS
  <2>2. SeriesBySchema(call, address) =
          IF Backend[address] # "postgres" THEN [status |-> "timeseries", rows |-> rows]
          ELSE Reply("refused")
    BY DEF SeriesBySchema, AskSeries
  <2> HIDE DEF rows
  <2>3. Fine([status |-> "timeseries", rows |-> rows])
    BY <1>8, <2>1, SeriesAreSound
  <2> HIDE DEF Fine
  <2> QED  BY <1>2, <1>8, <2>2, <2>3
<1> HIDE DEF Fine, M
<1>9. CASE call.op = "single"
  <2>1. Handle(call, address, type) = QuerySingle(call, address, type)
    BY <1>9 DEF Handle
  <2>2. CASE type = "DocumentStorage"
    <3>1. QuerySingle(call, address, type) = AskDocuments(address, NonEmpty(M))
      BY <2>2 DEF QuerySingle, M
    <3> QED  BY <1>1, <1>5, <1>9, <2>1, <2>2, <3>1 DEF AskDocuments, Fine
  <2>3. CASE type = "Timeseries"
    <3>1. QuerySingle(call, address, type) \in
            {SeriesByRange(call, address), Reply("missing"), Reply("wrong format")}
      BY <1>0, <2>3 DEF QuerySingle, Bodies
    <3> QED  BY <1>3, <1>4, <1>7, <1>9, <2>1, <2>3, <3>1 DEF Fine
  <2> QED  BY <1>0, <2>2, <2>3
<1>10. CASE call.op = "multiple"
  <2>1. Handle(call, address, type) = AskDocuments(address, Documents(M))
    BY <1>10 DEF Handle, QueryObjects, M
  <2> QED  BY <1>1, <1>5, <1>10, <2>1 DEF AskDocuments, Fine
<1>11. CASE call.op = "schema"
  <2>1. Handle(call, address, type) = QuerySchema(call, address, type)
    BY <1>11 DEF Handle
  <2>2. CASE type = "DocumentStorage"
    BY <1>1, <1>6, <1>11, <2>1, <2>2 DEF QuerySchema, AskDocuments, Fine
  <2>3. CASE type = "Timeseries"
    BY <1>8, <1>11, <2>1, <2>3 DEF QuerySchema, Fine
  <2> QED  BY <1>0, <2>2, <2>3
<1>12. CASE call.op = "raw"
  <2>1. Handle(call, address, type) = QueryRaw(call, address, type)
    BY <1>12 DEF Handle
  <2>2. CASE call.body # "raw"
    <3>1. QueryRaw(call, address, type) \in {Reply("missing"), Reply("wrong format")}
      BY <1>0, <2>2 DEF QueryRaw, Bodies
    <3> QED  BY <1>3, <1>4, <1>12, <2>1, <3>1 DEF Fine
  <2>3. CASE call.body = "raw"
    <3>1. QueryRaw(call, address, type) = IF type = "DocumentStorage"
                                          THEN AskDocuments(address, Reply("raw result"))
                                          ELSE AskSeries(address, Reply("raw result"))
      BY <2>3 DEF QueryRaw
    <3> QED  BY <1>0, <1>1, <1>2, <1>4, <2>1, <3>1 DEF AskDocuments, AskSeries, Fine
  <2> QED  BY <2>2, <2>3
<1> QED  BY <1>0, <1>9, <1>10, <1>11, <1>12

------------------------------------------------------------------------------
(* The cache. *)

CacheEntries == [schema : RoutedSchemas, address : Addresses, type : Kinds]

\* The entries that say what the registry says of a schema nobody has changed.
Fitting(md) == {e \in CacheEntries : md[e.schema] = Metadata[e.schema] =>
                                       Metadata[e.schema] = [address |-> e.address, type |-> e.type]}

OncePerSchema(s) == \A i, j \in 1..Len(s) : s[i].schema = s[j].schema => i = j

\* An entry of another schema than those of a sequence may follow it.
LEMMA OnceAppended ==
    ASSUME NEW T, NEW s \in Seq(T), OncePerSchema(s), NEW e \in T,
           \A i \in 1..Len(s) : s[i].schema # e.schema
    PROVE  OncePerSchema(Append(s, e))
<1> DEFINE t == Append(s, e)
           n == Len(s)
<1>1. n \in Nat /\ Len(t) = n + 1 /\ t[n + 1] = e /\ \A i \in 1..n : t[i] = s[i]
  OBVIOUS
<1>2. ASSUME NEW i \in 1..(n + 1), NEW j \in 1..(n + 1), t[i].schema = t[j].schema
      PROVE  i = j
  <2>1. CASE i = n + 1 /\ j = n + 1
    BY <2>1
  <2>2. CASE i = n + 1 /\ j # n + 1
    <3>1. j \in 1..n
      BY <1>1, <2>2
    <3> QED  BY <1>1, <1>2, <2>2, <3>1
  <2>3. CASE i # n + 1 /\ j = n + 1
    <3>1. i \in 1..n
      BY <1>1, <2>3
    <3> QED  BY <1>1, <1>2, <2>3, <3>1
  <2>4. CASE i # n + 1 /\ j # n + 1
    <3>1. i \in 1..n /\ j \in 1..n
      BY <1>1, <2>4
    <3>2. s[i].schema = s[j].schema
      BY <1>1, <1>2, <3>1
    <3> QED  BY <3>1, <3>2 DEF OncePerSchema
  <2> QED  BY <2>1, <2>2, <2>3, <2>4
<1> HIDE DEF t
<1>3. OncePerSchema(t)
  BY <1>1, <1>2 DEF OncePerSchema
<1> QED  BY <1>3 DEF t

\* What is kept of a sequence has every schema once, when the sequence has.
LEMMA OnceKept ==
    ASSUME NEW T, NEW s \in Seq(T), NEW S, OncePerSchema(s)
    PROVE  OncePerSchema(OnlyIn(s, S))
<1> DEFINE n == Len(s)
<1>1. n \in Nat /\ \A i \in 1..n : s[i] \in T
  OBVIOUS
<1>2. PICK f : KeptUpTo(f, s, S, n) /\ OnlyIn(s, S) = f[n]
  BY OnlyInKept
<1> HIDE DEF n
<1> DEFINE Good(m) == /\ f[m] \in Seq(T) /\ OncePerSchema(f[m])
                      /\ \A k \in 1..Len(f[m]) : \E i \in 1..m : f[m][k] = s[i]
           Bad == {m \in 0..n : ~ Good(m)}
<1>3. Good(0)
  BY <1>1, <1>2 DEF KeptUpTo, OncePerSchema
<1>4. ASSUME NEW m \in 1..n, Good(m - 1) PROVE Good(m)
  <2>1. m \in 0..n /\ m # 0 /\ m - 1 \in Nat /\ s[m] \in T
    BY <1>1
  <2>2. f[m] = IF s[m] \in S THEN Append(f[m - 1], s[m]) ELSE f[m - 1]
    BY <1>2, <2>1 DEF KeptUpTo
  <2> DEFINE g == f[m - 1]
  <2>3. /\ g \in Seq(T) /\ Len(g) \in Nat /\ OncePerSchema(g)
        /\ \A k \in 1..Len(g) : \E i \in 1..(m - 1) : g[k] = s[i]
    BY <1>4
  <2> HIDE DEF g
  <2>4. CASE s[m] \in S
    <3> DEFINE h == Append(g, s[m])
    <3>1. /\ h \in Seq(T) /\ Len(h) = Len(g) + 1 /\ h[Len(g) + 1] = s[m]
          /\ \A k \in 1..Len(g) : h[k] = g[k]
      BY <2>1, <2>3
    <3>2. f[m] = h
      BY <2>2, <2>4 DEF g
    <3>3. ASSUME NEW k \in 1..Len(g) PROVE g[k].schema # s[m].schema
      <4>1. PICK i \in 1..(m - 1) : g[k] = s[i]
        BY <2>3
      <4>2. i \in 1..Len(s) /\ m \in 1..Len(s) /\ i # m
        BY <1>1, <2>1 DEF n
      <4> QED  BY <4>1, <4>2 DEF OncePerSchema
    <3>4. OncePerSchema(h)
      BY <2>1, <2>3, <3>3, OnceAppended
    <3> HIDE DEF h
    <3>5. ASSUME NEW k \in 1..Len(h) PROVE \E i \in 1..m : h[k] = s[i]
      <4>1. CASE k = Len(g) + 1
        BY <2>1, <3>1, <4>1
      <4>2. CASE k # Len(g) + 1
        <5>1. k \in 1..Len(g)
          BY <2>3, <3>1, <4>2
        <5>2. PICK i \in 1..(m - 1) : g[k] = s[i]
          BY <2>3, <5>1
        <5>3. i \in 1..m
          BY <2>1
        <5> QED  BY <3>1, <5>1, <5>2, <5>3
      <4> QED  BY <4>1, <4>2
    <3> QED  BY <3>1, <3>2, <3>4, <3>5
  <2>5. CASE s[m] \notin S
    <3>1. f[m] = g
      BY <2>2, <2>5 DEF g
    <3>2. \A i \in 1..(m - 1) : i \in 1..m
      BY <2>1
    <3> QED  BY <2>1, <2>3, <3>1, <3>2
  <2> QED  BY <2>4, <2>5
<1> HIDE DEF Good
<1>5. Bad = {}
  <2> SUFFICES ASSUME Bad # {} PROVE FALSE
    OBVIOUS
  <2>0. Bad \subseteq Nat
    BY <1>1
  <2>1. Min(Bad) \in Bad /\ \A y \in Bad : Min(Bad) <= y
    BY <2>0, MinOfNaturals
  <2> DEFINE m == Min(Bad)
  <2> HIDE DEF m
  <2>2. m \in 0..n /\ ~ Good(m) /\ \A y \in 0..n : ~ Good(y) => m <= y
    BY <2>1 DEF m
  <2>3. m # 0
    BY <1>3, <2>2
  <2>4. m \in 1..n /\ m - 1 \in 0..n /\ ~ (m <= m - 1)
    BY <1>1, <2>2, <2>3
  <2> QED  BY <1>4, <2>2, <2>4
<1>6. Good(n)
  BY <1>1, <1>5
<1> QED  BY <1>2, <1>6 DEF Good

\* The tail of a sequence has every schema once, when the sequence has.
LEMMA OnceTail ==
    ASSUME NEW T, NEW s \in Seq(T), s # <<>>, OncePerSchema(s)
    PROVE  Tail(s) \in Seq(T) /\ Len(Tail(s)) = Len(s) - 1 /\ OncePerSchema(Tail(s))
<1>1. /\ Len(s) \in Nat \ {0} /\ Tail(s) \in Seq(T) /\ Len(Tail(s)) = Len(s) - 1
      /\ \A i \in 1..(Len(s) - 1) : Tail(s)[i] = s[i + 1]
  OBVIOUS
<1>2. ASSUME NEW i \in 1..(Len(s) - 1), NEW j \in 1..(Len(s) - 1),
             Tail(s)[i].schema = Tail(s)[j].schema
      PROVE  i = j
  <2>1. i + 1 \in 1..Len(s) /\ j + 1 \in 1..Len(s)
    BY <1>1
  <2>2. i + 1 = j + 1
    BY <1>1, <1>2, <2>1 DEF OncePerSchema
  <2> QED  BY <2>2
<1> QED  BY <1>1, <1>2 DEF OncePerSchema

\* The cache without the entry of a schema has room for it.
LEMMA CacheWithoutFacts ==
    ASSUME NEW T, cache \in Seq(T), Len(cache) <= CacheCapacity, OncePerSchema(cache), NEW s
    PROVE  /\ CacheWithout(s) \in Seq(T) /\ Len(CacheWithout(s)) \in Nat
           /\ Len(CacheWithout(s)) <= CacheCapacity /\ OncePerSchema(CacheWithout(s))
           /\ \A i \in 1..Len(CacheWithout(s)) : CacheWithout(s)[i].schema # s
           /\ Hit(s) => Len(CacheWithout(s)) < CacheCapacity
<1> DEFINE S == {e \in ToSet(cache) : e.schema # s}
           w == OnlyIn(cache, S)
<1>0. Len(cache) \in Nat /\ DOMAIN cache = 1..Len(cache) /\ CacheCapacity \in Nat
  BY CacheAssumption
<1>1. CacheWithout(s) = w
  BY DEF CacheWithout
<1>2. \A e \in S : e.schema # s
  OBVIOUS
<1> HIDE DEF S
<1>3. /\ w \in Seq(T \cap S) /\ Len(w) <= Len(cache)
      /\ (\E i \in 1..Len(cache) : cache[i] \notin S) => Len(w) < Len(cache)
  BY OnlyInEntries
<1>4. OncePerSchema(w)
  BY OnceKept
<1> HIDE DEF w
<1>5. Len(w) \in Nat /\ w \in Seq(T) /\ \A i \in 1..Len(w) : w[i] \in S
  BY <1>3, SeqMono
<1>6. Hit(s) => Len(w) < Len(cache)
  BY <1>0, <1>2, <1>3 DEF Hit
<1> QED  BY <1>0, <1>1, <1>2, <1>3, <1>4, <1>5, <1>6

\* LruCache::insert keeps the cache within its capacity, every schema once.
LEMMA InsertEntryFacts ==
    ASSUME NEW T, cache \in Seq(T), Len(cache) <= CacheCapacity, OncePerSchema(cache),
           NEW e \in T
    PROVE  /\ InsertEntry(e) \in Seq(T) /\ Len(InsertEntry(e)) <= CacheCapacity
           /\ OncePerSchema(InsertEntry(e))
<1> DEFINE w == CacheWithout(e.schema)
           a == Append(w, e)
<1>1. /\ w \in Seq(T) /\ Len(w) \in Nat /\ Len(w) <= CacheCapacity /\ OncePerSchema(w)
      /\ \A i \in 1..Len(w) : w[i].schema # e.schema
  BY CacheWithoutFacts
<1>2. InsertEntry(e) = IF Len(a) > CacheCapacity THEN Tail(a) ELSE a
  BY DEF InsertEntry
<1> HIDE DEF w
<1>3. a \in Seq(T) /\ Len(a) = Len(w) + 1 /\ a # <<>> /\ OncePerSchema(a)
  BY <1>1, OnceAppended
<1> HIDE DEF a
<1>4. Tail(a) \in Seq(T) /\ Len(Tail(a)) = Len(a) - 1 /\ OncePerSchema(Tail(a))
  BY <1>3, OnceTail
<1> QED  BY <1>1, <1>2, <1>3, <1>4, CacheAssumption

\* get_mut moves an entry to the end.
LEMMA TouchedFacts ==
    ASSUME NEW T, cache \in Seq(T), Len(cache) <= CacheCapacity, OncePerSchema(cache),
           NEW s, Hit(s)
    PROVE  /\ Entry(s) \in T /\ Entry(s).schema = s
           /\ Append(CacheWithout(s), Entry(s)) \in Seq(T)
           /\ Len(Append(CacheWithout(s), Entry(s))) <= CacheCapacity
           /\ OncePerSchema(Append(CacheWithout(s), Entry(s)))
<1> DEFINE w == CacheWithout(s)
           e == Entry(s)
<1>1. /\ w \in Seq(T) /\ Len(w) \in Nat /\ Len(w) < CacheCapacity /\ OncePerSchema(w)
      /\ \A i \in 1..Len(w) : w[i].schema # s
  BY CacheWithoutFacts
<1>2. DOMAIN cache = 1..Len(cache) /\ \A i \in 1..Len(cache) : cache[i] \in T
  OBVIOUS
<1>3. ToSet(cache) = {cache[i] : i \in DOMAIN cache}
  BY DEF ToSet
<1>4. e \in ToSet(cache) /\ e.schema = s
  BY <1>3 DEF Hit, Entry
<1>5. e \in T
  BY <1>2, <1>3, <1>4
<1> HIDE DEF w, e
<1>6. Append(w, e) \in Seq(T) /\ Len(Append(w, e)) = Len(w) + 1 /\ OncePerSchema(Append(w, e))
  BY <1>1, <1>4, <1>5, OnceAppended
<1> QED  BY <1>1, <1>4, <1>5, <1>6, CacheAssumption DEF w, e

------------------------------------------------------------------------------
(* The router. *)

\* What a client may be.
ClientStates ==
    [pc : {"idle", "address", "type", "query"}, call : Calls \cup {None},
     address : Addresses \cup {"none"}, type : Kinds \cup {"none"}, reply : Replies,
     heads : SUBSET Labels(Messages)]

\* The metadata of the schema is what it was created with.
Unchanged(md, call) == md[call.schema] = Metadata[call.schema]

\* A request in hand: what was there when it came in is still there or is
\* outdated, and the address, then the pair, is the one of the registry unless
\* the registry was changed.
InHand(k, md, tb) ==
    /\ k.pc # "idle" => /\ k.call \in Calls /\ k.reply = Reply("none")
                        /\ \A h \in k.heads : KeptIn(h, tb)
    /\ k.pc = "type" => /\ k.address \in Addresses
                        /\ Unchanged(md, k.call) => k.address = Metadata[k.call.schema].address
    /\ k.pc = "query" =>
         /\ k.address \in Addresses /\ k.type \in Kinds
         /\ Unchanged(md, k.call) =>
              Metadata[k.call.schema] = [address |-> k.address, type |-> k.type]

\* An answer is right, is from what was stored, and is a refusal for a reason.
Answered(k, md, st) ==
    /\ Right(k.call, k.reply, k.type, k.heads, st)
    /\ k.reply.rows \subseteq Labels(st) \cup Points
    /\ k.reply.status = "refused" =>
         /\ k.call \in Calls
         /\ ~Unchanged(md, k.call) \/ (k.call.op = "multiple" /\ k.type = "Timeseries")

ClientOK(k, md, tb, st) == k \in ClientStates /\ InHand(k, md, tb) /\ Answered(k, md, st)

\* Between the two writes of an update the pair is the new address and the
\* old type.
UpdateInv ==
    /\ metadata \in [RoutedSchemas -> Pairs] /\ updating \subseteq RoutedSchemas
    /\ \A s \in updating : metadata[s] = [Metadata[s] EXCEPT !.address = NewMetadata[s].address]

CacheInv == /\ cache \in Seq(Fitting(metadata)) /\ Len(cache) <= CacheCapacity
            /\ OncePerSchema(cache)

ClientInv == /\ client \in [Clients -> ClientStates]
             /\ \A c \in Clients : ClientOK(client[c], metadata, table, stored)

\* The inductive invariant.
IInv == RInv /\ UpdateInv /\ CacheInv /\ ClientInv

\* What a request has in hand, and its answer, stay right while rows are
\* inserted and shrunk and while the metadata of schemas is changed.
LEMMA ClientMono ==
    ASSUME NEW k, NEW md, NEW md2, NEW tb, NEW tb2, NEW st, NEW st2, ClientOK(k, md, tb, st),
           \A s \in RoutedSchemas : md2[s] = Metadata[s] => md[s] = Metadata[s],
           \A r \in tb : r.version \in Int, \A r \in tb2 : r.version \in Int,
           \A r \in tb : KeptIn(r, tb2), st \subseteq st2
    PROVE  ClientOK(k, md2, tb2, st2)
<1>1. k \in ClientStates /\ InHand(k, md, tb) /\ Answered(k, md, st)
  BY DEF ClientOK
<1>2. \A h \in k.heads : h.version \in Int
  BY <1>1, LabelsFacts, MessagesAssumption DEF ClientStates
<1>3. ASSUME NEW h \in k.heads, KeptIn(h, tb) PROVE KeptIn(h, tb2)
  <2>1. PICK r \in tb :
          /\ r.object = h.object
          /\ r.version > h.version \/ (r.version = h.version /\ r.schema = h.schema)
    BY <1>3 DEF KeptIn
  <2>2. PICK q \in tb2 :
          /\ q.object = r.object
          /\ q.version > r.version \/ (q.version = r.version /\ q.schema = r.schema)
    BY DEF KeptIn
  <2>3. h.version \in Int /\ r.version \in Int /\ q.version \in Int
    BY <1>2
  <2>4. q.version > h.version \/ (q.version = h.version /\ q.schema = h.schema)
    BY <2>1, <2>2, <2>3
  <2> QED  BY <2>1, <2>2, <2>4 DEF KeptIn
<1>4. \A call \in Calls : Unchanged(md2, call) => Unchanged(md, call)
  BY CallsAssumption DEF Unchanged
<1>5. InHand(k, md2, tb2)
  BY <1>1, <1>3, <1>4 DEF InHand
<1>6. Labels(st) \subseteq Labels(st2)
  BY LabelsMono
<1>7. Right(k.call, k.reply, k.type, k.heads, st2)
  BY <1>1, RightMono DEF Answered
<1>8. Answered(k, md2, st2)
  BY <1>1, <1>4, <1>6, <1>7 DEF Answered
<1> QED  BY <1>1, <1>5, <1>8 DEF ClientOK

\* A table that keeps its rows keeps what the requests have seen of it.
LEMMA ClientsStay ==
    ASSUME IInv, RInv', TableKeeps, stored \subseteq stored', client' = client,
           \A s \in RoutedSchemas : metadata'[s] = Metadata[s] => metadata[s] = Metadata[s]
    PROVE  ClientInv'
<1>1. \A r \in table : r.version \in Int /\ KeptIn(r, table')
  <2>1. \A r \in table : r.version \in Int
    BY RowTypes DEF IInv, RInv
  <2> QED  BY <2>1 DEF TableKeeps, Keeps, KeptIn
<1>2. \A r \in table' : r.version \in Int
  <2>1. \A r \in table' : \E m \in Messages : m.version = r.version
    BY DEF RInv, RowInv
  <2> QED  BY <2>1, MessagesAssumption
<1>3. ASSUME NEW c \in Clients PROVE ClientOK(client[c], metadata', table', stored')
  <2>1. ClientOK(client[c], metadata, table, stored)
    BY DEF IInv, ClientInv
  <2> QED  BY <1>1, <1>2, <2>1, ClientMono
<1>4. client \in [Clients -> ClientStates]
  BY DEF IInv, ClientInv
<1> QED  BY <1>3, <1>4 DEF ClientInv

\* Steps of the repository.
LEMMA RepositoryIInv ==
    ASSUME IInv, RepositoryNext \/ UNCHANGED repositoryVars, UNCHANGED routerVars
    PROVE  IInv'
<1>1. RInv' /\ TableKeeps /\ stored \subseteq stored'
  BY RepositoryStep DEF IInv
<1>2. metadata' = metadata /\ updating' = updating /\ cache' = cache /\ client' = client
  BY DEF routerVars
<1>3. ClientInv'
  BY <1>1, <1>2, ClientsStay
<1>4. UpdateInv' /\ CacheInv'
  BY <1>2 DEF IInv, UpdateInv, CacheInv
<1> QED  BY <1>1, <1>3, <1>4 DEF IInv

\* Steps of the registry: no update brings the old pair of a schema back.
LEMMA UpdateIInv ==
    ASSUME IInv, NEW s \in RoutedSchemas, UpdateAddress(s) \/ UpdateType(s)
    PROVE  IInv'
<1>0. /\ metadata \in [RoutedSchemas -> Pairs] /\ updating \subseteq RoutedSchemas
      /\ Metadata[s] \in Pairs /\ NewMetadata[s] \in Pairs /\ metadata[s] \in Pairs
      /\ \A u \in updating : metadata[u] = [Metadata[u] EXCEPT !.address = NewMetadata[u].address]
  BY MetadataAssumption DEF IInv, UpdateInv
<1>1. cache' = cache /\ client' = client /\ UNCHANGED repositoryVars
  BY DEF UpdateAddress, UpdateType
<1>2. PICK p \in Pairs : metadata' = [metadata EXCEPT ![s] = p]
  <2>1. CASE UpdateAddress(s)
    <3>1. [metadata[s] EXCEPT !.address = NewMetadata[s].address] \in Pairs
      BY <1>0 DEF Pairs
    <3>2. metadata' = [metadata EXCEPT ![s] = [metadata[s] EXCEPT !.address = NewMetadata[s].address]]
      BY <2>1 DEF UpdateAddress
    <3> QED  BY <3>1, <3>2
  <2>2. CASE UpdateType(s)
    <3>1. [metadata[s] EXCEPT !.type = NewMetadata[s].type] \in Pairs
      BY <1>0 DEF Pairs
    <3>2. metadata' = [metadata EXCEPT ![s] = [metadata[s] EXCEPT !.type = NewMetadata[s].type]]
      BY <2>2 DEF UpdateType
    <3> QED  BY <3>1, <3>2
  <2> QED  BY <2>1, <2>2
<1>3. /\ metadata' \in [RoutedSchemas -> Pairs] /\ metadata'[s] = p
      /\ \A u \in RoutedSchemas \ {s} : metadata'[u] = metadata[u]
  BY <1>0, <1>2
<1>4. metadata'[s] = Metadata[s] => metadata[s] = Metadata[s]
  <2>1. CASE UpdateAddress(s)
    BY <2>1 DEF UpdateAddress
  <2>2. CASE UpdateType(s)
    <3>1. metadata[s] = [Metadata[s] EXCEPT !.address = NewMetadata[s].address]
      BY <1>0, <2>2 DEF UpdateType
    <3>2. metadata'[s] = [metadata[s] EXCEPT !.type = NewMetadata[s].type]
      BY <1>0, <2>2 DEF UpdateType
    <3>3. metadata[s].address = metadata'[s].address
      BY <1>0, <3>2 DEF Pairs
    <3>4. metadata[s].type = Metadata[s].type
      BY <1>0, <3>1 DEF Pairs
    <3> QED  BY <1>0, <3>3, <3>4 DEF Pairs
  <2> QED  BY <2>1, <2>2
<1>5. \A u \in RoutedSchemas : metadata'[u] = Metadata[u] => metadata[u] = Metadata[u]
  BY <1>3, <1>4
<1>6. UpdateInv'
  <2>1. CASE UpdateAddress(s)
    <3>1. metadata'[s] = [Metadata[s] EXCEPT !.address = NewMetadata[s].address]
      BY <1>0, <2>1 DEF UpdateAddress
    <3>2. updating' = updating \cup {s}
      BY <2>1 DEF UpdateAddress
    <3> QED  BY <1>0, <1>3, <3>1, <3>2 DEF UpdateInv
  <2>2. CASE UpdateType(s)
    <3>1. updating' = updating \ {s}
      BY <2>2 DEF UpdateType
    <3> QED  BY <1>0, <1>3, <3>1 DEF UpdateInv
  <2> QED  BY <2>1, <2>2
<1>7. CacheInv'
  <2>1. Fitting(metadata) \subseteq Fitting(metadata')
    BY <1>5 DEF Fitting, CacheEntries
  <2>2. cache \in Seq(Fitting(metadata'))
    BY <2>1, SeqMono DEF IInv, CacheInv
  <2> QED  BY <1>1, <2>2 DEF IInv, CacheInv
<1>8. RInv' /\ TableKeeps /\ stored \subseteq stored'
  BY <1>1, RepositoryStep DEF IInv
<1>9. ClientInv'
  BY <1>1, <1>5, <1>8, ClientsStay
<1> QED  BY <1>6, <1>7, <1>8, <1>9 DEF IInv

\* Steps of one request.
LEMMA RequestIInv ==
    ASSUME IInv, NEW c \in Clients, NEW k, ClientOK(k, metadata, table, stored),
           client' = [client EXCEPT ![c] = k], UNCHANGED <<metadata, updating, repositoryVars>>,
           cache' \in Seq(Fitting(metadata)), Len(cache') <= CacheCapacity, OncePerSchema(cache')
    PROVE  IInv'
<1>1. RInv'
  BY RepositoryStep DEF IInv
<1>2. UpdateInv' /\ CacheInv'
  BY DEF IInv, UpdateInv, CacheInv
<1>3. k \in ClientStates /\ client \in [Clients -> ClientStates]
      /\ \A d \in Clients : ClientOK(client[d], metadata, table, stored)
  BY DEF IInv, ClientInv, ClientOK
<1>4. /\ client' \in [Clients -> ClientStates] /\ client'[c] = k
      /\ \A d \in Clients \ {c} : client'[d] = client[d]
  BY <1>3
<1>5. metadata' = metadata /\ table' = table /\ stored' = stored
  BY DEF repositoryVars
<1>6. ClientInv'
  BY <1>3, <1>4, <1>5 DEF ClientInv
<1> QED  BY <1>1, <1>2, <1>6 DEF IInv

\* The newest rows are in the table.
LEMMA HeadsFacts ==
    ASSUME RowInv PROVE Heads \in SUBSET Labels(Messages) /\ \A h \in Heads : KeptIn(h, table)
<1> DEFINE N == {Newest(table, r.object) : r \in table}
<1>1. Heads = Labels(N)
  BY DEF Heads
<1>2. N \subseteq table
  BY NewestOfObject
<1> HIDE DEF N
<1>3. Labels(N) \subseteq Labels(table) /\ Labels(table) \subseteq Labels(Messages)
  BY <1>2, LabelsMono, StoredLabels
<1>4. \A h \in Labels(N) : KeptIn(h, table)
  BY <1>2, LabelsFacts DEF KeptIn
<1> QED  BY <1>1, <1>3, <1>4

\* A request without an answer yet.
LEMMA NoAnswerYet ==
    ASSUME NEW k, NEW md, NEW st, NEW status \in {"none", "failed"}, k.reply = Reply(status)
    PROVE  k.reply \in Replies /\ Answered(k, md, st)
<1>1. k.reply.status = status /\ k.reply.rows = {} /\ k.reply = [status |-> status, rows |-> {}]
  BY ReplyFields
<1>2. k.reply \in Replies
  BY <1>1 DEF Replies, Statuses
<1>3. Right(k.call, k.reply, k.type, k.heads, st)
  BY <1>1, NothingIsRight
<1> QED  BY <1>1, <1>2, <1>3 DEF Answered

\* A request that comes in.
LEMMA ArriveIInv == ASSUME IInv, NEW c \in Clients, Arrive(c) PROVE IInv'
<1>0. UNCHANGED <<metadata, updating, repositoryVars>> /\ cache \in Seq(Fitting(metadata))
      /\ Len(cache) <= CacheCapacity /\ OncePerSchema(cache) /\ RowInv
  BY DEF Arrive, IInv, CacheInv, RInv
<1>1. PICK call \in Calls :
        /\ client' = [client EXCEPT
             ![c] = [pc |-> IF Hit(call.schema) THEN "query" ELSE "address", call |-> call,
                     address |-> IF Hit(call.schema) THEN Entry(call.schema).address ELSE "none",
                     type |-> IF Hit(call.schema) THEN Entry(call.schema).type ELSE "none",
                     reply |-> Reply("none"), heads |-> Heads]]
        /\ cache' = IF Hit(call.schema)
                    THEN Append(CacheWithout(call.schema), Entry(call.schema)) ELSE cache
  BY DEF Arrive
<1> DEFINE s == call.schema
           k == [pc |-> IF Hit(s) THEN "query" ELSE "address", call |-> call,
                 address |-> IF Hit(s) THEN Entry(s).address ELSE "none",
                 type |-> IF Hit(s) THEN Entry(s).type ELSE "none",
                 reply |-> Reply("none"), heads |-> Heads]
<1>2. client' = [client EXCEPT ![c] = k]
      /\ cache' = IF Hit(s) THEN Append(CacheWithout(s), Entry(s)) ELSE cache
  BY <1>1
<1>3. Hit(s) => /\ Entry(s) \in Fitting(metadata) /\ Entry(s).schema = s
                /\ Append(CacheWithout(s), Entry(s)) \in Seq(Fitting(metadata))
                /\ Len(Append(CacheWithout(s), Entry(s))) <= CacheCapacity
                /\ OncePerSchema(Append(CacheWithout(s), Entry(s)))
  BY <1>0, TouchedFacts
<1>4. cache' \in Seq(Fitting(metadata)) /\ Len(cache') <= CacheCapacity /\ OncePerSchema(cache')
  BY <1>0, <1>2, <1>3
<1>5. Hit(s) => /\ Entry(s).address \in Addresses /\ Entry(s).type \in Kinds
                /\ metadata[s] = Metadata[s] =>
                     Metadata[s] = [address |-> Entry(s).address, type |-> Entry(s).type]
  BY <1>3 DEF Fitting, CacheEntries
<1>6. /\ k.call = call /\ k.reply = Reply("none") /\ k.heads = Heads
      /\ k.pc \in {"query", "address"} /\ (k.pc = "query" <=> Hit(s))
      /\ Hit(s) => k.address = Entry(s).address /\ k.type = Entry(s).type
  OBVIOUS
<1>7. Heads \in SUBSET Labels(Messages) /\ \A h \in Heads : KeptIn(h, table)
  BY <1>0, HeadsFacts
<1>8. k.reply \in Replies /\ Answered(k, metadata, stored)
  BY <1>6, NoAnswerYet
<1>9. k \in ClientStates
  BY <1>5, <1>7, <1>8 DEF ClientStates
<1> HIDE DEF k
<1>10. InHand(k, metadata, table)
  BY <1>5, <1>6, <1>7 DEF InHand, Unchanged
<1>11. ClientOK(k, metadata, table, stored)
  BY <1>8, <1>9, <1>10 DEF ClientOK
<1> QED  BY <1>0, <1>2, <1>4, <1>11, RequestIInv

\* The answer to get_schema_query_address.
LEMMA FetchAddressIInv == ASSUME IInv, NEW c \in Clients, FetchAddress(c) PROVE IInv'
<1> DEFINE j == client[c]
           a == metadata[j.call.schema].address
           k == [j EXCEPT !.pc = "type", !.address = a]
<1>0. /\ UNCHANGED <<metadata, updating, repositoryVars>> /\ cache' = cache
      /\ cache \in Seq(Fitting(metadata)) /\ Len(cache) <= CacheCapacity /\ OncePerSchema(cache)
      /\ client \in [Clients -> ClientStates] /\ metadata \in [RoutedSchemas -> Pairs]
  BY DEF FetchAddress, IInv, CacheInv, ClientInv, UpdateInv
<1>1. j \in ClientStates /\ InHand(j, metadata, table) /\ Answered(j, metadata, stored)
  BY DEF IInv, ClientInv, ClientOK
<1>2. j.pc = "address" /\ client' = [client EXCEPT ![c] = k]
  BY DEF FetchAddress
<1>3. /\ j.call \in Calls /\ j.reply = Reply("none") /\ \A h \in j.heads : KeptIn(h, table)
  BY <1>1, <1>2 DEF InHand
<1>4. j.call.schema \in RoutedSchemas
  BY <1>3, CallsAssumption
<1>5. a \in Addresses
  BY <1>0, <1>4 DEF Pairs
<1> HIDE DEF j
<1>6. k \in ClientStates
  <2> HIDE DEF a
  <2> QED  BY <1>1, <1>5 DEF ClientStates
<1>7. /\ k.pc = "type" /\ k.address = a /\ k.call = j.call /\ k.reply = j.reply
      /\ k.heads = j.heads /\ k.type = j.type
  <2> HIDE DEF a
  <2> QED  BY <1>1 DEF ClientStates
<1> HIDE DEF k
<1>8. Answered(k, metadata, stored)
  BY <1>1, <1>7 DEF Answered
<1>9. InHand(k, metadata, table)
  BY <1>3, <1>5, <1>7 DEF InHand, Unchanged
<1>10. ClientOK(k, metadata, table, stored)
  BY <1>6, <1>8, <1>9 DEF ClientOK
<1> QED  BY <1>0, <1>2, <1>10, RequestIInv

\* The answer to get_schema_type, and the pair goes into the cache.
LEMMA FetchTypeIInv == ASSUME IInv, NEW c \in Clients, FetchType(c) PROVE IInv'
<1> DEFINE j == client[c]
           s == j.call.schema
           t == metadata[s].type
           k == [j EXCEPT !.pc = "query", !.type = t]
           e == [schema |-> s, address |-> j.address, type |-> t]
<1>0. /\ UNCHANGED <<metadata, updating, repositoryVars>>
      /\ cache \in Seq(Fitting(metadata)) /\ Len(cache) <= CacheCapacity /\ OncePerSchema(cache)
      /\ client \in [Clients -> ClientStates] /\ metadata \in [RoutedSchemas -> Pairs]
  BY DEF FetchType, IInv, CacheInv, ClientInv, UpdateInv
<1>1. j \in ClientStates /\ InHand(j, metadata, table) /\ Answered(j, metadata, stored)
  BY DEF IInv, ClientInv, ClientOK
<1>2. j.pc = "type" /\ client' = [client EXCEPT ![c] = k] /\ cache' = InsertEntry(e)
  BY DEF FetchType
<1>3. /\ j.call \in Calls /\ j.reply = Reply("none") /\ (\A h \in j.heads : KeptIn(h, table))
      /\ j.address \in Addresses /\ (metadata[s] = Metadata[s] => j.address = Metadata[s].address)
  BY <1>1, <1>2 DEF InHand, Unchanged
<1>4. s \in RoutedSchemas
  BY <1>3, CallsAssumption
<1>5. t \in Kinds /\ Metadata[s] \in Pairs
  BY <1>0, <1>4, MetadataAssumption DEF Pairs
<1>6. metadata[s] = Metadata[s] => Metadata[s] = [address |-> j.address, type |-> t]
  BY <1>3, <1>5 DEF Pairs
<1> HIDE DEF j, t
<1>7. k \in ClientStates
  BY <1>1, <1>5 DEF ClientStates
<1>8. /\ k.pc = "query" /\ k.address = j.address /\ k.call = j.call /\ k.reply = j.reply
      /\ k.heads = j.heads /\ k.type = t
  BY <1>1 DEF ClientStates
<1>9. e \in Fitting(metadata)
  BY <1>3, <1>4, <1>5, <1>6 DEF Fitting, CacheEntries
<1> HIDE DEF k, e
<1>10. cache' \in Seq(Fitting(metadata)) /\ Len(cache') <= CacheCapacity /\ OncePerSchema(cache')
  BY <1>0, <1>2, <1>9, InsertEntryFacts
<1>11. k.reply = Reply("none")
  BY <1>3, <1>8
<1>12. Answered(k, metadata, stored)
  BY <1>11, NoAnswerYet
<1>13. InHand(k, metadata, table)
  BY <1>3, <1>5, <1>6, <1>8 DEF InHand, Unchanged
<1>14. ClientOK(k, metadata, table, stored)
  BY <1>7, <1>12, <1>13 DEF ClientOK
<1> QED  BY <1>0, <1>2, <1>10, <1>14, RequestIInv

\* A client without a request.
LEMMA NoCallOK ==
    ASSUME NEW status \in {"none", "failed"}, NEW md, NEW tb, NEW st
    PROVE  ClientOK([NoCall EXCEPT !.reply = Reply(status)], md, tb, st)
<1> DEFINE k == [NoCall EXCEPT !.reply = Reply(status)]
<1>1. k = [pc |-> "idle", call |-> None, address |-> "none", type |-> "none",
           reply |-> Reply(status), heads |-> {}]
  BY DEF NoCall
<1> HIDE DEF k
<1>2. k.pc = "idle" /\ k.reply = Reply(status)
  BY <1>1
<1>3. k.reply \in Replies /\ Answered(k, md, st)
  BY <1>2, NoAnswerYet
<1>4. k \in ClientStates
  BY <1>1, <1>2, <1>3 DEF ClientStates
<1>5. ClientOK(k, md, tb, st)
  BY <1>2, <1>3, <1>4 DEF ClientOK, InHand
<1> QED  BY <1>5 DEF k

\* A call that fails.
LEMMA CallFailsIInv == ASSUME IInv, NEW c \in Clients, CallFails(c) PROVE IInv'
<1> DEFINE k == [NoCall EXCEPT !.reply = Reply("failed")]
<1>1. /\ client' = [client EXCEPT ![c] = k] /\ cache' = cache
      /\ UNCHANGED <<metadata, updating, repositoryVars>>
  BY DEF CallFails
<1>2. ClientOK(k, metadata, table, stored)
  BY NoCallOK
<1>3. cache \in Seq(Fitting(metadata)) /\ Len(cache) <= CacheCapacity /\ OncePerSchema(cache)
  BY DEF IInv, CacheInv
<1> HIDE DEF k
<1> QED  BY <1>1, <1>2, <1>3, RequestIInv

\* The answer of a query service.
LEMMA AnswerIInv == ASSUME IInv, NEW c \in Clients, Answer(c) PROVE IInv'
<1> DEFINE j == client[c]
           r == Handle(j.call, j.address, j.type)
           k == [j EXCEPT !.pc = "idle", !.address = "none", !.reply = r]
<1>0. /\ UNCHANGED <<metadata, updating, repositoryVars>> /\ cache' = cache
      /\ cache \in Seq(Fitting(metadata)) /\ Len(cache) <= CacheCapacity /\ OncePerSchema(cache)
      /\ client \in [Clients -> ClientStates] /\ RowInv
  BY DEF Answer, IInv, CacheInv, ClientInv, RInv
<1>1. j \in ClientStates /\ InHand(j, metadata, table)
  BY DEF IInv, ClientInv, ClientOK
<1>2. j.pc = "query" /\ client' = [client EXCEPT ![c] = k]
  BY DEF Answer
<1>3. /\ j.call \in Calls /\ (\A h \in j.heads : KeptIn(h, table))
      /\ j.address \in Addresses /\ j.type \in Kinds
      /\ Unchanged(metadata, j.call) =>
           Metadata[j.call.schema] = [address |-> j.address, type |-> j.type]
  BY <1>1, <1>2 DEF InHand
<1> HIDE DEF j
<1>4. \A h \in j.heads : h.version \in Int
  BY <1>1, LabelsFacts, MessagesAssumption DEF ClientStates
<1>5. Sound(j.call, r, j.address, j.type, j.heads)
  BY <1>0, <1>3, <1>4, HandleIsSound
<1> HIDE DEF r
<1>6. /\ r \in Replies /\ r.rows \subseteq Labels(stored) \cup Points
      /\ Right(j.call, r, j.type, j.heads, stored)
      /\ r.status = "refused" =>
           \/ /\ Backend[j.address] # "postgres"
              /\ j.type = "DocumentStorage" \/ j.call.op = "multiple"
           \/ Backend[j.address] = "postgres" /\ j.type = "Timeseries"
  BY <1>5 DEF Sound
<1>7. k \in ClientStates
  BY <1>1, <1>6 DEF ClientStates
<1>8. /\ k.pc = "idle" /\ k.call = j.call /\ k.reply = r
      /\ k.heads = j.heads /\ k.type = j.type
  BY <1>1 DEF ClientStates
<1> HIDE DEF k
<1>9. ASSUME r.status = "refused", Unchanged(metadata, j.call)
      PROVE  j.call.op = "multiple" /\ j.type = "Timeseries"
  <2> DEFINE m == Metadata[j.call.schema]
  <2>1. m = [address |-> j.address, type |-> j.type]
    BY <1>3, <1>9
  <2>2. m.type = "DocumentStorage" <=> Backend[m.address] = "postgres"
    BY <1>3, CallsAssumption, MetadataAssumption
  <2> HIDE DEF m
  <2>3. m.type = j.type /\ m.address = j.address
    BY <2>1
  <2>4. j.type = "DocumentStorage" <=> Backend[j.address] = "postgres"
    BY <2>2, <2>3
  <2> QED  BY <1>3, <1>6, <1>9, <2>4 DEF Kinds
<1>10. Answered(k, metadata, stored)
  BY <1>3, <1>6, <1>8, <1>9 DEF Answered
<1>11. InHand(k, metadata, table)
  BY <1>8 DEF InHand
<1>12. ClientOK(k, metadata, table, stored)
  BY <1>7, <1>10, <1>11 DEF ClientOK
<1> QED  BY <1>0, <1>2, <1>12, RequestIInv

------------------------------------------------------------------------------
(* The theorems. *)

\* The invariant holds at the start.
LEMMA InitIInv == ASSUME Init PROVE IInv
<1>1. RInv
  BY InitRInv DEF Init
<1>2. UpdateInv
  BY MetadataAssumption DEF Init, UpdateInv
<1>3. CacheInv
  <2>1. cache = <<>>
    BY DEF Init
  <2>2. cache \in Seq(Fitting(metadata)) /\ Len(cache) = 0
    BY <2>1
  <2> QED  BY <2>2, CacheAssumption DEF CacheInv, OncePerSchema
<1>4. ClientInv
  <2>1. NoCall = [NoCall EXCEPT !.reply = Reply("none")]
    BY DEF NoCall
  <2>2. ClientOK(NoCall, metadata, table, stored)
    BY <2>1, NoCallOK
  <2>3. client = [c \in Clients |-> NoCall]
    BY DEF Init
  <2> QED  BY <2>2, <2>3 DEF ClientInv, ClientOK
<1> QED  BY <1>1, <1>2, <1>3, <1>4 DEF IInv

\* Every step keeps the invariant.
LEMMA NextIInv == ASSUME IInv, [Next]_vars PROVE IInv'
<1>1. CASE RepositoryNext /\ UNCHANGED routerVars
  BY <1>1, RepositoryIInv
<1>2. CASE RouterNext
  <2>1. ASSUME NEW s \in RoutedSchemas, UpdateAddress(s) \/ UpdateType(s) PROVE IInv'
    BY <2>1, UpdateIInv
  <2>2. ASSUME NEW c \in Clients,
               Arrive(c) \/ FetchAddress(c) \/ FetchType(c) \/ Answer(c) \/ CallFails(c)
        PROVE  IInv'
    BY <2>2, ArriveIInv, FetchAddressIInv, FetchTypeIInv, AnswerIInv, CallFailsIInv
  <2> QED  BY <1>2, <2>1, <2>2 DEF RouterNext
<1>3. CASE UNCHANGED vars
  BY <1>3, RepositoryIInv DEF vars
<1> QED  BY <1>1, <1>2, <1>3 DEF Next

\* The inductive invariant of the repository, the registry, the cache and the
\* requests together.
THEOREM Invariant == Spec => []IInv
<1>1. Init => IInv
  BY InitIInv
<1>2. IInv /\ [Next]_vars => IInv'
  BY NextIInv
<1> QED  BY <1>1, <1>2, PTL DEF Spec

\* Every variable has its type; the primary key of the table is unique, and
\* the cache holds at most CacheCapacity schemas, each of them once.
THEOREM TypeCorrect == Spec => []TypeOK
<1>1. ASSUME IInv PROVE TypeOK
  <2>1. /\ \A r, q \in table : Key(r) = Key(q) => r = q
        /\ {Key(r) : r \in table} \subseteq {Key(m) : m \in stored}
        /\ stored \subseteq Messages
    <3>1. \A r, q : Key(r) = Key(q) <=> r.object = q.object /\ r.version = q.version
      BY DEF Key
    <3>2. \A r \in table : \E m \in stored : Key(r) = Key(m)
      BY <1>1, <3>1 DEF IInv, RInv, RowInv
    <3> QED  BY <1>1, <3>1, <3>2 DEF IInv, RInv, RowInv
  <2>2. \A s \in Shrinkers : shrinker[s].pc \in {"idle", "next", "write"}
                             /\ shrinker[s].ids \subseteq ObjectIds
    BY <1>1 DEF IInv, RInv, ShrinkerInv
  <2>3. metadata \in [RoutedSchemas -> Pairs] /\ updating \subseteq RoutedSchemas
    BY <1>1 DEF IInv, UpdateInv
  <2>4. Len(cache) <= CacheCapacity /\ OncePerSchema(cache) /\ DOMAIN cache = 1..Len(cache)
    BY <1>1 DEF IInv, CacheInv
  <2>5. ASSUME NEW c \in Clients
        PROVE  /\ client[c].pc \in {"idle", "address", "type", "query"}
               /\ client[c].reply.status \in Statuses
               /\ client[c].reply.rows \subseteq Labels(stored) \cup Points
    BY <1>1 DEF IInv, ClientInv, ClientOK, ClientStates, Replies, Answered
  <2> QED  BY <2>1, <2>2, <2>3, <2>4, <2>5 DEF TypeOK, OncePerSchema
<1> QED  BY <1>1, Invariant, PTL

\* What is left of an object merges to the same as all it was ever given.
SameMerge ==
    \A o \in ObjectIds \ late :
      RowsOf(table, o) # {} =>
        MinimizeDocument(GetAllWithId(o)) = MinimizeDocument(RowsOf(stored, o))

\* Whatever merge computes, shrinking does not change what comes out: the rows
\* that overlapping shrinkers leave of an object fold to what all the rows ever
\* inserted would, as long as none came below a version that was already read.
THEOREM SameMergeHolds == Spec => []SameMerge
<1>1. ASSUME IInv PROVE SameMerge
  <2>1. ASSUME NEW o \in ObjectIds \ late, RowsOf(table, o) # {}
        PROVE  MinimizeDocument(GetAllWithId(o)) = MinimizeDocument(RowsOf(stored, o))
    <3>1. Represents(RowsOf(table, o), RowsOf(stored, o))
      BY <1>1 DEF IInv, RInv, MergeInv
    <3> QED  BY <2>1, <3>1, SameDocument DEF GetAllWithId
  <2> QED  BY <2>1 DEF SameMerge
<1> QED  BY <1>1, Invariant, PTL

\* Shrinking loses nothing: those rows merge to what all the versions ever
\* stored say together, at every path the newest version that speaks of it.
THEOREM MergedIsCompleteHolds == Spec => []MergedIsComplete
<1>1. ASSUME IInv, SameMerge PROVE MergedIsComplete
  <2>1. ASSUME NEW o \in ObjectIds \ late, RowsOf(table, o) # {}
        PROVE  MergeOf(MinimizeDocument(GetAllWithId(o)), Documented(RowsOf(stored, o)))
    <3> DEFINE T == RowsOf(table, o)
               S == RowsOf(stored, o)
    <3>1. Represents(T, S)
      BY <1>1 DEF IInv, RInv, MergeInv
    <3>2. S \in SUBSET Messages /\ \A m \in S : m.object = o
      BY <1>1 DEF IInv, RInv, RowInv, RowsOf
    <3>3. MinimizeDocument(GetAllWithId(o)) = MinimizeDocument(S) /\ T # {}
      BY <1>1, <2>1 DEF SameMerge
    <3> HIDE DEF T, S
    <3>4. S # {} /\ IsFiniteSet(S) /\ \A r, q \in S : r.version = q.version => r = q
      BY <3>1, <3>3 DEF Represents, IntRows, DistinctVersions
    <3>5. MergeOf(MinimizeDocument(S), Documented(S))
      BY <3>2, <3>4, MergeAssumption
    <3> QED  BY <3>3, <3>5 DEF S
  <2> QED  BY <2>1 DEF MergedIsComplete
<1> QED  BY <1>1, Invariant, SameMergeHolds, PTL

\* A version that was the newest of its object is deleted only in favour of a
\* newer one, whatever the shrinkers that overlap have read.
THEOREM NewestStaysHolds == Spec => NewestStays
<1>1. ASSUME IInv, [Next]_vars
      PROVE  \A r \in table : \E q \in table' :
               q.object = r.object /\ (r = Newest(table, r.object) => q.version >= r.version)
  <2>1. RepositoryNext \/ UNCHANGED repositoryVars
    BY <1>1 DEF Next, RouterNext, UpdateAddress, UpdateType, Arrive, FetchAddress, FetchType,
                Answer, CallFails, vars
  <2>2. RInv' /\ TableKeeps
    BY <1>1, <2>1, RepositoryStep DEF IInv
  <2>3. \A r \in table : r.version \in Int
    BY <1>1, RowTypes DEF IInv, RInv
  <2>4. \A r \in table' : r.version \in Int
    <3>1. \A r \in table' : \E m \in Messages : m.version = r.version
      BY <2>2 DEF RInv, RowInv
    <3> QED  BY <3>1, MessagesAssumption
  <2>5. ASSUME NEW r \in table
        PROVE  \E q \in table' : q.object = r.object /\ q.version >= r.version
    BY <2>2, <2>3, <2>4 DEF TableKeeps, Keeps
  <2> QED  BY <2>5
<1> QED  BY <1>1, Invariant, PTL DEF Spec, NewestStays

\* An answer holds what was asked for, nothing outdated by what was there when
\* the request came in, and no object is missing from it.
THEOREM AnswersAreRightHolds == Spec => []AnswersAreRight
<1>1. ASSUME IInv PROVE AnswersAreRight
  <2>1. \A c \in Clients :
          Right(client[c].call, client[c].reply, client[c].type, client[c].heads, stored)
    BY <1>1 DEF IInv, ClientInv, ClientOK, Answered
  <2> QED  BY <2>1 DEF AnswersAreRight, Right
<1> QED  BY <1>1, Invariant, PTL

\* A service of the wrong kind is asked only when the metadata of the schema
\* was changed or several objects of a time series schema are asked for: the
\* cached pair, whenever its two halves were fetched, is the registry's until
\* then.
THEOREM RefusedForAReasonHolds == Spec => []RefusedForAReason
<1>1. ASSUME IInv PROVE RefusedForAReason
  <2>1. ASSUME NEW c \in Clients, client[c].reply.status = "refused"
        PROVE  \/ metadata[client[c].call.schema] # Metadata[client[c].call.schema]
               \/ client[c].call.op = "multiple" /\ client[c].type = "Timeseries"
    BY <1>1, <2>1 DEF IInv, ClientInv, ClientOK, Answered, Unchanged
  <2> QED  BY <2>1 DEF RefusedForAReason
<1> QED  BY <1>1, Invariant, PTL
==============================================================================
