--------------------------- MODULE SequenceLemmas ----------------------------
(***************************************************************************)
(* Facts about the sequence operators and the ack queue the modules are    *)
(* built from, cited by the proofs.                                        *)
(***************************************************************************)
EXTENDS KafkaAckQueue, SequenceFilter, SequenceTheorems, FiniteSetTheorems,
        WellFoundedInduction, TLAPS

\* A non-empty set of naturals has a least element, which Min returns.
LEMMA MinOfNaturals ==
    ASSUME NEW I, I \subseteq Nat, I # {}
    PROVE  /\ Min(I) \in I
           /\ \A y \in I : Min(I) <= y
<1>1. PICK x \in I : \A y \in I : ~ (<<y, x>> \in OpToRel(<, Nat))
  BY NatLessThanWellFounded, WFMin
<1>2. \A y \in I : <<y, x>> \in OpToRel(<, Nat) <=> y < x
  BY Zenon DEF OpToRel
<1>3. \A y \in I : x <= y
  <2>1. \A y \in I : ~ (y < x)
    BY <1>1, <1>2, Zenon
  <2> QED  BY <2>1
<1> QED
  BY <1>3 DEF Min

\* The tail of a sequence of one entry is empty; that of a longer one starts
\* with the second entry.
LEMMA TailCases ==
    ASSUME NEW S, NEW s \in Seq(S), s # <<>>
    PROVE  /\ Len(s) \in Nat \ {0}
           /\ Head(s) = s[1]
           /\ Len(s) = 1 => Tail(s) = <<>>
           /\ Len(s) > 1 => Tail(s) # <<>> /\ Head(Tail(s)) = s[2]
<1>1. /\ Tail(s) \in Seq(S)
      /\ Len(Tail(s)) = Len(s) - 1
      /\ \A i \in 1..Len(Tail(s)) : Tail(s)[i] = s[i + 1]
  BY HeadTailProperties
<1>2. Len(s) \in Nat \ {0}
  OBVIOUS
<1> DEFINE t == Tail(s)
           n == Len(s)
<1> HIDE DEF t, n
<1>e. t \in Seq(S) /\ (t = <<>> <=> Len(t) = 0)
  BY <1>1, EmptySeq DEF t
<1>3. n = 1 => t = <<>>
  BY <1>1, <1>e DEF t, n
<1>4. ASSUME n > 1 PROVE t # <<>> /\ Head(t) = s[2]
  <2>1. n \in Nat /\ Len(t) = n - 1
    BY <1>1, <1>2 DEF t, n
  <2>2. t # <<>>
    BY <1>e, <1>4, <2>1
  <2>3. t[1] = s[2]
    BY <1>1, <1>4, <2>1 DEF t
  <2>4. Head(t) = t[1]
    BY <1>e, <2>2
  <2> QED  BY <2>2, <2>3, <2>4
<1> QED  BY <1>2, <1>3, <1>4 DEF t, n

\* Removing one entry keeps the others in their order.
LEMMA RemoveAtProperties ==
    ASSUME NEW S, NEW s \in Seq(S), NEW k \in 1..Len(s)
    PROVE  /\ RemoveAt(s, k) \in Seq(S)
           /\ Len(RemoveAt(s, k)) = Len(s) - 1
           /\ \A j \in 1..(Len(s) - 1) :
                RemoveAt(s, k)[j] = IF j < k THEN s[j] ELSE s[j + 1]
<1> DEFINE a == SubSeq(s, 1, k - 1)
           b == SubSeq(s, k + 1, Len(s))
<1>1. /\ a \in Seq(S)
      /\ Len(a) = k - 1
      /\ \A i \in 1..(k - 1) : a[i] = s[i]
  <2>1. \A i \in 1..(k - 1) : s[i] \in S
    OBVIOUS
  <2> QED  BY <2>1, SubSeqProperties
<1>2. /\ b \in Seq(S)
      /\ Len(b) = Len(s) - k
      /\ \A i \in 1..(Len(s) - k) : b[i] = s[k + i]
  <2>1. \A i \in (k + 1)..Len(s) : s[i] \in S
    OBVIOUS
  <2>2. /\ b \in Seq(S)
        /\ Len(b) = IF k + 1 <= Len(s) THEN Len(s) - (k + 1) + 1 ELSE 0
        /\ \A i \in 1..(Len(s) - (k + 1) + 1) : b[i] = s[(k + 1) + i - 1]
    <3> HIDE DEF b
    <3>1. k + 1 \in Int /\ Len(s) \in Int
      OBVIOUS
    <3> QED  BY <2>1, <3>1, SubSeqProperties DEF b
  <2>3. \A i \in Int : (k + 1) + i - 1 = k + i
    OBVIOUS
  <2> HIDE DEF b
  <2> QED  BY <2>2, <2>3
<1>3. RemoveAt(s, k) = a \o b
  BY DEF RemoveAt
<1> HIDE DEF a, b
<1>4. /\ a \o b \in Seq(S)
      /\ Len(a \o b) = Len(s) - 1
      /\ \A i \in 1..(Len(s) - 1) :
           (a \o b)[i] = IF i <= k - 1 THEN a[i] ELSE b[i - (k - 1)]
  <2>1. /\ a \o b \in Seq(S)
        /\ Len(a \o b) = Len(a) + Len(b)
        /\ \A i \in 1..(Len(a) + Len(b)) :
             (a \o b)[i] = IF i <= Len(a) THEN a[i] ELSE b[i - Len(a)]
    BY <1>1, <1>2, ConcatProperties
  <2>2. Len(a) + Len(b) = Len(s) - 1
    BY <1>1, <1>2
  <2> QED  BY <1>1, <2>1, <2>2
<1>5. ASSUME NEW j \in 1..(Len(s) - 1)
      PROVE  (a \o b)[j] = IF j < k THEN s[j] ELSE s[j + 1]
  <2>1. CASE j < k
    BY <1>1, <1>4, <2>1
  <2>2. CASE j >= k
    <3>1. (a \o b)[j] = b[j - (k - 1)]
      BY <1>4, <2>2
    <3>2. b[j - (k - 1)] = s[k + (j - (k - 1))]
      BY <1>2, <2>2
    <3>3. k + (j - (k - 1)) = j + 1
      OBVIOUS
    <3> QED  BY <3>1, <3>2, <3>3, <2>2
  <2>3. j < k \/ j >= k
    OBVIOUS
  <2> QED  BY <2>1, <2>2, <2>3
<1> QED
  BY <1>3, <1>4, <1>5

\* Removing the first occurrence of e takes one entry out, which held e.
LEMMA RemoveFirstEntry ==
    ASSUME NEW S, NEW s \in Seq(S), NEW e,
           \E i \in 1..Len(s) : s[i] = e
    PROVE  \E k \in 1..Len(s) :
             /\ s[k] = e
             /\ \A i \in 1..(k - 1) : s[i] # e
             /\ RemoveFirst(s, e) = RemoveAt(s, k)
<1> DEFINE I == {i \in 1..Len(s) : s[i] = e}
<1>1. I \subseteq Nat /\ I # {}
  OBVIOUS
<1>2. Min(I) \in I /\ \A y \in I : Min(I) <= y
  BY <1>1, MinOfNaturals
<1>3. SelectInSeq(s, LAMBDA v : v = e) = Min(I)
  BY <1>1 DEF SelectInSeq
<1>4. RemoveFirst(s, e) = RemoveAt(s, Min(I))
  BY <1>3 DEF RemoveFirst
<1>5. \A i \in 1..(Min(I) - 1) : s[i] # e
  BY <1>2
<1> QED
  BY <1>2, <1>4, <1>5

\* An entry behind a concatenation is one behind its second part.
LEMMA ConcatAppend ==
    ASSUME NEW T, NEW s \in Seq(T), NEW t \in Seq(T), NEW x \in T
    PROVE  s \o Append(t, x) = Append(s \o t, x)
<1> DEFINE a == s \o Append(t, x)
           b == Append(s \o t, x)
           n == Len(s)
           m == Len(t)
<1>0. n \in Nat /\ m \in Nat
  OBVIOUS
<1>1. /\ Append(t, x) \in Seq(T) /\ Len(Append(t, x)) = m + 1
      /\ \A i \in 1..m : Append(t, x)[i] = t[i]
      /\ Append(t, x)[m + 1] = x
  OBVIOUS
<1>2. /\ s \o t \in Seq(T) /\ Len(s \o t) = n + m
      /\ \A i \in 1..(n + m) : (s \o t)[i] = IF i <= n THEN s[i] ELSE t[i - n]
  BY ConcatProperties
<1>3. /\ a \in Seq(T) /\ Len(a) = n + (m + 1)
      /\ \A i \in 1..(n + (m + 1)) : a[i] = IF i <= n THEN s[i] ELSE Append(t, x)[i - n]
  BY <1>1, ConcatProperties
<1>4. /\ b \in Seq(T) /\ Len(b) = n + m + 1
      /\ \A i \in 1..(n + m) : b[i] = (s \o t)[i]
      /\ b[n + m + 1] = x
  BY <1>2
<1> HIDE DEF a, b, n, m
<1>5. ASSUME NEW i \in 1..Len(a) PROVE a[i] = b[i]
  <2>1. CASE i <= n + m
    <3>1. i \in 1..(n + m) /\ i \in 1..(n + (m + 1)) /\ (~ (i <= n) => i - n \in 1..m)
      BY <1>0, <1>3, <2>1
    <3> QED  BY <1>1, <1>2, <1>3, <1>4, <3>1
  <2>2. CASE i = n + m + 1
    <3>1. ~ (i <= n) /\ i - n = m + 1 /\ i \in 1..(n + (m + 1))
      BY <1>0, <2>2
    <3> QED  BY <1>1, <1>3, <1>4, <2>2, <3>1
  <2> QED  BY <1>0, <1>3, <2>1, <2>2
<1>6. a = b
  <2>1. Len(a) = Len(b)
    BY <1>0, <1>3, <1>4
  <2> QED  BY <1>3, <1>4, <1>5, <2>1, SeqEqual
<1> QED  BY <1>6 DEF a, b

\* A sequence behind one entry.
LEMMA OneInFront ==
    ASSUME NEW T, NEW e \in T, NEW s \in Seq(T)
    PROVE  /\ <<e>> \o s # <<>> /\ <<e>> \o s \in Seq(T)
           /\ Head(<<e>> \o s) = e /\ Tail(<<e>> \o s) = s
<1> DEFINE v == <<e>> \o s
           n == Len(s)
<1>1. <<e>> \in Seq(T) /\ Len(<<e>>) = 1 /\ <<e>>[1] = e /\ n \in Nat
  OBVIOUS
<1>2. /\ v \in Seq(T) /\ Len(v) = 1 + n
      /\ \A i \in 1..(1 + n) : v[i] = IF i <= 1 THEN <<e>>[i] ELSE s[i - 1]
  <2>1. /\ v \in Seq(T) /\ Len(v) = Len(<<e>>) + Len(s)
        /\ \A i \in 1..(Len(<<e>>) + Len(s)) :
             v[i] = IF i <= Len(<<e>>) THEN <<e>>[i] ELSE s[i - Len(<<e>>)]
    BY <1>1, ConcatProperties
  <2> HIDE DEF v
  <2> QED  BY <1>1, <2>1
<1> HIDE DEF v, n
<1>3. v[1] = e /\ v # <<>>
  <2>1. 1 \in 1..(1 + n) /\ 1 + n # 0
    BY <1>1
  <2>2. Len(v) # 0
    BY <1>2, <2>1
  <2> QED  BY <1>1, <1>2, <2>1, <2>2
<1>4. /\ Tail(v) \in Seq(T) /\ Len(Tail(v)) = Len(v) - 1
      /\ \A i \in 1..Len(Tail(v)) : Tail(v)[i] = v[i + 1]
  BY <1>2, <1>3, HeadTailProperties
<1> DEFINE w == Tail(v)
<1> HIDE DEF w
<1>5. Len(w) = n
  BY <1>1, <1>2, <1>4 DEF w
<1>6. ASSUME NEW i \in 1..n PROVE w[i] = s[i]
  <2>1. i + 1 \in 1..(1 + n) /\ ~ (i + 1 <= 1) /\ (i + 1) - 1 = i
    BY <1>1
  <2> QED  BY <1>2, <1>4, <1>5, <2>1 DEF w
<1>7. w = s
  BY <1>4, <1>5, <1>6, SeqEqual DEF n, w
<1>8. Head(v) = e
  BY <1>2, <1>3
<1> QED  BY <1>2, <1>3, <1>7, <1>8 DEF v, w

\* Concatenation as an operator the provers do not look into, a sequence around
\* an entry, and one in which there is no e.
Cat(a, b) == a \o b
Around(a, e, b) == a \o (<<e>> \o b)
Lacks(s, e) == \A i \in 1..Len(s) : s[i] # e

\* Every sequence is one around each of its entries.
LEMMA SplitAt ==
    ASSUME NEW T, NEW s \in Seq(T), NEW k \in 1..Len(s)
    PROVE  /\ SubSeq(s, 1, k - 1) \in Seq(T) /\ SubSeq(s, k + 1, Len(s)) \in Seq(T)
           /\ Len(SubSeq(s, 1, k - 1)) = k - 1
           /\ \A i \in 1..(k - 1) : SubSeq(s, 1, k - 1)[i] = s[i]
           /\ s = Around(SubSeq(s, 1, k - 1), s[k], SubSeq(s, k + 1, Len(s)))
<1> DEFINE a == SubSeq(s, 1, k - 1)
           b == SubSeq(s, k + 1, Len(s))
           n == Len(s)
<1>0. n \in Nat /\ k \in 1..n /\ s[k] \in T
  OBVIOUS
<1>1. /\ a \in Seq(T)
      /\ Len(a) = k - 1
      /\ \A i \in 1..(k - 1) : a[i] = s[i]
  <2>1. \A i \in 1..(k - 1) : s[i] \in T
    OBVIOUS
  <2> QED  BY <2>1, SubSeqProperties
<1>2. /\ b \in Seq(T)
      /\ Len(b) = n - k
      /\ \A i \in 1..(n - k) : b[i] = s[k + i]
  <2>1. \A i \in (k + 1)..Len(s) : s[i] \in T
    OBVIOUS
  <2>2. /\ b \in Seq(T)
        /\ Len(b) = IF k + 1 <= n THEN n - (k + 1) + 1 ELSE 0
        /\ \A i \in 1..(n - (k + 1) + 1) : b[i] = s[(k + 1) + i - 1]
    <3> HIDE DEF b
    <3>1. k + 1 \in Int /\ n \in Int
      OBVIOUS
    <3> QED  BY <2>1, <3>1, SubSeqProperties DEF b
  <2>3. \A i \in Int : (k + 1) + i - 1 = k + i
    OBVIOUS
  <2> HIDE DEF b
  <2> QED  BY <2>2, <2>3
<1> DEFINE c == <<s[k]>> \o b
           d == a \o c
<1> HIDE DEF a, b, n
<1>3. /\ c \in Seq(T) /\ Len(c) = n - k + 1
      /\ c[1] = s[k] /\ \A i \in 2..(n - k + 1) : c[i] = s[k + i - 1]
  <2>1. <<s[k]>> \in Seq(T) /\ Len(<<s[k]>>) = 1 /\ <<s[k]>>[1] = s[k]
    BY <1>0
  <2>2. /\ c \in Seq(T) /\ Len(c) = 1 + (n - k)
        /\ \A i \in 1..(1 + (n - k)) : c[i] = IF i <= 1 THEN <<s[k]>>[i] ELSE b[i - 1]
    <3>1. /\ c \in Seq(T) /\ Len(c) = Len(<<s[k]>>) + Len(b)
          /\ \A i \in 1..(Len(<<s[k]>>) + Len(b)) :
               c[i] = IF i <= Len(<<s[k]>>) THEN <<s[k]>>[i] ELSE b[i - Len(<<s[k]>>)]
      BY <1>2, <2>1, ConcatProperties
    <3> QED  BY <1>2, <2>1, <3>1
  <2> HIDE DEF c
  <2>3. 1 \in 1..(1 + (n - k))
    BY <1>0
  <2>4. ASSUME NEW i \in 2..(n - k + 1) PROVE c[i] = s[k + i - 1]
    <3>1. i \in 1..(1 + (n - k)) /\ ~ (i <= 1) /\ i - 1 \in 1..(n - k) /\ k + (i - 1) = k + i - 1
      BY <1>0
    <3> QED  BY <1>2, <2>2, <3>1
  <2> QED  BY <1>0, <2>1, <2>2, <2>3, <2>4
<1> HIDE DEF c
<1>4. /\ d \in Seq(T) /\ Len(d) = (k - 1) + (n - k + 1)
      /\ \A i \in 1..((k - 1) + (n - k + 1)) : d[i] = IF i <= k - 1 THEN a[i] ELSE c[i - (k - 1)]
  <2>1. /\ d \in Seq(T) /\ Len(d) = Len(a) + Len(c)
        /\ \A i \in 1..(Len(a) + Len(c)) : d[i] = IF i <= Len(a) THEN a[i] ELSE c[i - Len(a)]
    BY <1>1, <1>3, ConcatProperties
  <2> HIDE DEF d
  <2> QED  BY <1>1, <1>3, <2>1
<1> HIDE DEF d
<1>5. Len(d) = n
  BY <1>0, <1>4
<1>6. ASSUME NEW i \in 1..n PROVE d[i] = s[i]
  <2>1. i \in 1..((k - 1) + (n - k + 1))
    BY <1>0
  <2>2. CASE i < k
    BY <1>0, <1>1, <1>4, <2>1, <2>2
  <2>3. CASE i = k
    BY <1>0, <1>3, <1>4, <2>1, <2>3
  <2>4. CASE i > k
    <3>1. i - (k - 1) \in 2..(n - k + 1) /\ k + (i - (k - 1)) - 1 = i /\ ~ (i <= k - 1)
      BY <1>0, <2>4
    <3>2. d[i] = c[i - (k - 1)]
      BY <1>4, <2>1, <3>1
    <3>3. c[i - (k - 1)] = s[k + (i - (k - 1)) - 1]
      BY <1>3, <3>1
    <3> QED  BY <3>1, <3>2, <3>3
  <2> QED  BY <1>0, <2>2, <2>3, <2>4
<1>7. d = s
  BY <1>4, <1>5, <1>6, SeqEqual DEF n
<1> QED  BY <1>1, <1>2, <1>7 DEF a, b, c, d, n, Around

\* Taking out an entry that does not occur before.
LEMMA RemoveFirstBetween ==
    ASSUME NEW T, NEW a \in Seq(T), NEW b \in Seq(T), NEW e \in T, Lacks(a, e)
    PROVE  /\ RemoveFirst(Around(a, e, b), e) = Cat(a, b)
           /\ \E i \in 1..Len(Around(a, e, b)) : Around(a, e, b)[i] = e
<1> DEFINE c == <<e>> \o b
           s == a \o c
           n == Len(a)
           m == Len(b)
<1>0. n \in Nat /\ m \in Nat
  OBVIOUS
<1>1. /\ c \in Seq(T) /\ Len(c) = 1 + m
      /\ c[1] = e /\ \A i \in 1..m : c[i + 1] = b[i]
  <2>1. <<e>> \in Seq(T) /\ Len(<<e>>) = 1 /\ <<e>>[1] = e
    OBVIOUS
  <2>2. /\ c \in Seq(T) /\ Len(c) = Len(<<e>>) + Len(b)
        /\ \A i \in 1..(Len(<<e>>) + Len(b)) :
             c[i] = IF i <= Len(<<e>>) THEN <<e>>[i] ELSE b[i - Len(<<e>>)]
    BY <2>1, ConcatProperties
  <2> HIDE DEF c, m
  <2>3. /\ Len(c) = 1 + m
        /\ \A i \in 1..(1 + m) : c[i] = IF i <= 1 THEN e ELSE b[i - 1]
    BY <2>1, <2>2 DEF m
  <2>4. ASSUME NEW i \in 1..m PROVE c[i + 1] = b[i]
    <3>1. i + 1 \in 1..(1 + m) /\ ~ (i + 1 <= 1) /\ (i + 1) - 1 = i
      BY <1>0
    <3> QED  BY <2>3, <3>1
  <2>5. 1 \in 1..(1 + m)
    BY <1>0
  <2> QED  BY <2>2, <2>3, <2>4, <2>5
<1> HIDE DEF c
<1>2. /\ s \in Seq(T) /\ Len(s) = n + (1 + m)
      /\ \A i \in 1..(n + (1 + m)) : s[i] = IF i <= n THEN a[i] ELSE c[i - n]
  <2>0. a \in Seq(T) /\ c \in Seq(T)
    BY <1>1
  <2>1. /\ s \in Seq(T) /\ Len(s) = Len(a) + Len(c)
        /\ \A i \in 1..(Len(a) + Len(c)) : s[i] = IF i <= Len(a) THEN a[i] ELSE c[i - Len(a)]
    BY <2>0, ConcatProperties
  <2>2. Len(a) = n
    OBVIOUS
  <2> HIDE DEF s, n, m
  <2>3. Len(c) = 1 + m
    BY <1>1
  <2> QED  BY <2>1, <2>2, <2>3
<1>3. /\ a \o b \in Seq(T) /\ Len(a \o b) = n + m
      /\ \A i \in 1..(n + m) : (a \o b)[i] = IF i <= n THEN a[i] ELSE b[i - n]
  BY ConcatProperties
<1>a. \A i \in 1..n : a[i] # e
  BY DEF Lacks
<1> HIDE DEF s, n, m
<1>4. n + 1 \in 1..Len(s) /\ s[n + 1] = e /\ \A i \in 1..n : s[i] # e
  <2>1. n + 1 \in 1..(n + (1 + m)) /\ ~ (n + 1 <= n) /\ (n + 1) - n = 1
        /\ \A i \in 1..n : i \in 1..(n + (1 + m)) /\ i <= n
    BY <1>0
  <2> QED  BY <1>1, <1>2, <1>a, <2>1
<1>5. RemoveFirst(s, e) = RemoveAt(s, n + 1)
  <2>1. PICK k \in 1..Len(s) : /\ s[k] = e
                               /\ \A i \in 1..(k - 1) : s[i] # e
                               /\ RemoveFirst(s, e) = RemoveAt(s, k)
    <3>1. s \in Seq(T) /\ \E i \in 1..Len(s) : s[i] = e
      BY <1>2, <1>4
    <3> QED  BY <3>1, RemoveFirstEntry
  <2>2. k \in Nat /\ k >= 1 /\ ~ (k \in 1..n) /\ ~ (n + 1 \in 1..(k - 1))
    BY <1>2, <1>4, <2>1
  <2>3. k = n + 1
    BY <1>0, <2>2
  <2> QED  BY <2>1, <2>3
<1> DEFINE r == RemoveAt(s, n + 1)
<1>6. /\ r \in Seq(T) /\ Len(r) = n + m
      /\ \A j \in 1..(n + m) : r[j] = IF j < n + 1 THEN s[j] ELSE s[j + 1]
  <2>1. /\ r \in Seq(T) /\ Len(r) = Len(s) - 1
        /\ \A j \in 1..(Len(s) - 1) : r[j] = IF j < n + 1 THEN s[j] ELSE s[j + 1]
    BY <1>2, <1>4, RemoveAtProperties
  <2>2. Len(s) - 1 = n + m
    BY <1>0, <1>2
  <2> QED  BY <2>1, <2>2
<1> HIDE DEF r
<1>7. ASSUME NEW j \in 1..(n + m) PROVE r[j] = (a \o b)[j]
  <2>1. CASE j <= n
    <3>1. j < n + 1 /\ j \in 1..(n + (1 + m))
      BY <1>0, <2>1
    <3> QED  BY <1>2, <1>3, <1>6, <2>1, <3>1
  <2>2. CASE ~ (j <= n)
    <3>1. /\ ~ (j < n + 1) /\ j + 1 \in 1..(n + (1 + m)) /\ ~ (j + 1 <= n)
          /\ j - n \in 1..m /\ (j + 1) - n = (j - n) + 1
      BY <1>0, <2>2
    <3>2. r[j] = c[(j - n) + 1]
      BY <1>2, <1>6, <3>1
    <3> QED  BY <1>1, <1>3, <2>2, <3>1, <3>2
  <2> QED  BY <2>1, <2>2
<1>8. r = a \o b
  BY <1>3, <1>6, <1>7, SeqEqual
<1>9. s = Around(a, e, b)
  BY DEF s, c, Around
<1> QED  BY <1>4, <1>5, <1>8, <1>9 DEF r, Cat

\* Concatenation is associative.
LEMMA CatAssociative ==
    ASSUME NEW T, NEW s \in Seq(T), NEW t \in Seq(T), NEW u \in Seq(T)
    PROVE  Cat(Cat(s, t), u) = Cat(s, Cat(t, u))
<1>1. (s \o t) \o u = s \o (t \o u)
  BY ConcatAssociative
<1> QED  BY <1>1 DEF Cat

\* A sequence in front, and what the parts lack.
LEMMA AroundFacts ==
    ASSUME NEW T, NEW f \in Seq(T), NEW a \in Seq(T), NEW b \in Seq(T), NEW e \in T
    PROVE  /\ Cat(f, Around(a, e, b)) = Around(Cat(f, a), e, b)
           /\ Cat(f, a) \in Seq(T) /\ Cat(f, Cat(a, b)) = Cat(Cat(f, a), b)
           /\ Lacks(f, e) /\ Lacks(a, e) => Lacks(Cat(f, a), e)
<1> DEFINE h == <<e>> \o b
<1>1. h \in Seq(T)
  <2>1. <<e>> \in Seq(T)
    OBVIOUS
  <2> QED  BY <2>1, ConcatProperties
<1> HIDE DEF h
<1>2. Cat(Cat(f, a), h) = Cat(f, Cat(a, h))
  BY <1>1, CatAssociative
<1>3. Cat(Cat(f, a), b) = Cat(f, Cat(a, b))
  BY CatAssociative
<1>4. /\ f \o a \in Seq(T) /\ Len(f \o a) = Len(f) + Len(a)
      /\ \A i \in 1..(Len(f) + Len(a)) : (f \o a)[i] = IF i <= Len(f) THEN f[i] ELSE a[i - Len(f)]
  BY ConcatProperties
<1>5. ASSUME Lacks(f, e), Lacks(a, e) PROVE Lacks(f \o a, e)
  <2> DEFINE g == f \o a
  <2>1. Len(f) \in Nat /\ Len(a) \in Nat
    OBVIOUS
  <2>2. \A i \in 1..(Len(f) + Len(a)) :
          IF i <= Len(f) THEN i \in 1..Len(f) ELSE i - Len(f) \in 1..Len(a)
    BY <2>1
  <2>3. /\ Len(g) = Len(f) + Len(a)
        /\ \A i \in 1..(Len(f) + Len(a)) : g[i] = IF i <= Len(f) THEN f[i] ELSE a[i - Len(f)]
    BY <1>4
  <2> HIDE DEF g
  <2>4. \A i \in 1..Len(g) : g[i] # e
    BY <1>5, <2>2, <2>3 DEF Lacks
  <2> QED  BY <2>4 DEF Lacks, g
<1>6. Around(a, e, b) = Cat(a, h) /\ Around(Cat(f, a), e, b) = Cat(Cat(f, a), h)
  BY DEF Around, Cat, h
<1>7. Cat(f, a) = f \o a
  BY DEF Cat
<1> QED  BY <1>2, <1>3, <1>4, <1>5, <1>6, <1>7

\* Taking the first e out of a sequence that follows one without it.
LEMMA RemoveFirstBehind ==
    ASSUME NEW T, NEW f \in Seq(T), NEW x \in Seq(T), NEW y \in Seq(T), NEW e \in T,
           Lacks(f, e), Lacks(x, e)
    PROVE  /\ RemoveFirst(Cat(f, Around(x, e, y)), e) = Cat(f, Cat(x, y))
           /\ \E i \in 1..Len(Cat(f, Around(x, e, y))) : Cat(f, Around(x, e, y))[i] = e
<1> DEFINE g == Cat(f, x)
<1>1. /\ Cat(f, Around(x, e, y)) = Around(g, e, y) /\ Cat(f, Cat(x, y)) = Cat(g, y)
      /\ g \in Seq(T) /\ Lacks(g, e)
  BY AroundFacts
<1> HIDE DEF g
<1>2. /\ RemoveFirst(Around(g, e, y), e) = Cat(g, y)
      /\ \E i \in 1..Len(Around(g, e, y)) : Around(g, e, y)[i] = e
  BY <1>1, RemoveFirstBetween
<1> QED  BY <1>1, <1>2

\* Sequences that differ in one place are the same before and behind it.
LEMMA SplitBoth ==
    ASSUME NEW T, NEW s \in Seq(T), NEW r \in Seq(T), Len(r) = Len(s),
           NEW k \in 1..Len(s), \A i \in 1..Len(s) : i # k => r[i] = s[i]
    PROVE  \E a, b \in Seq(T) : /\ s = Around(a, s[k], b) /\ r = Around(a, r[k], b)
                                /\ Len(a) = k - 1 /\ \A i \in 1..(k - 1) : a[i] = s[i]
<1> DEFINE n == Len(s)
           a == SubSeq(s, 1, k - 1)
           b == SubSeq(s, k + 1, n)
           c == SubSeq(r, 1, k - 1)
           d == SubSeq(r, k + 1, n)
<1>0. n \in Nat /\ k \in 1..n /\ \A i \in 1..n : s[i] \in T /\ r[i] \in T
  OBVIOUS
<1>1. /\ a \in Seq(T) /\ b \in Seq(T) /\ Len(a) = k - 1
      /\ \A i \in 1..(k - 1) : a[i] = s[i]
      /\ s = Around(a, s[k], b)
  BY SplitAt
<1>2. /\ c \in Seq(T) /\ Len(c) = k - 1
      /\ \A i \in 1..(k - 1) : c[i] = r[i]
      /\ r = Around(c, r[k], d)
  <2>1. k \in 1..Len(r) /\ n = Len(r)
    OBVIOUS
  <2>2. /\ SubSeq(r, 1, k - 1) \in Seq(T) /\ Len(SubSeq(r, 1, k - 1)) = k - 1
        /\ \A i \in 1..(k - 1) : SubSeq(r, 1, k - 1)[i] = r[i]
        /\ r = Around(SubSeq(r, 1, k - 1), r[k], SubSeq(r, k + 1, Len(r)))
    BY <2>1, SplitAt
  <2> HIDE DEF n
  <2> QED  BY <2>1, <2>2
<1>3. \A i \in 1..n : i # k => r[i] = s[i]
  OBVIOUS
<1> HIDE DEF n
<1>4. b = d
  <2>1. \A i \in (k + 1)..n : i \in 1..n /\ i # k
    BY <1>0
  <2>2. \A i \in (k + 1)..n : s[i] \in T /\ r[i] \in T /\ r[i] = s[i]
    BY <1>0, <1>3, <2>1
  <2>3. k + 1 \in Int /\ n \in Int
    BY <1>0
  <2> HIDE DEF b, d
  <2>4. /\ b \in Seq(T) /\ Len(b) = IF k + 1 <= n THEN n - (k + 1) + 1 ELSE 0
        /\ \A i \in 1..(n - (k + 1) + 1) : b[i] = s[(k + 1) + i - 1]
    BY <2>2, <2>3, SubSeqProperties DEF b
  <2>5. /\ d \in Seq(T) /\ Len(d) = IF k + 1 <= n THEN n - (k + 1) + 1 ELSE 0
        /\ \A i \in 1..(n - (k + 1) + 1) : d[i] = r[(k + 1) + i - 1]
    BY <2>2, <2>3, SubSeqProperties DEF d
  <2>6. ASSUME NEW i \in 1..Len(b) PROVE b[i] = d[i]
    <3>1. i \in 1..(n - (k + 1) + 1) /\ (k + 1) + i - 1 \in (k + 1)..n
      BY <1>0, <2>4
    <3> QED  BY <2>2, <2>4, <2>5, <3>1
  <2>7. b \in Seq(T) /\ d \in Seq(T) /\ Len(b) = Len(d)
    BY <2>4, <2>5
  <2> QED  BY <2>6, <2>7, SeqEqual
<1> HIDE DEF a, b, c, d
<1>5. a = c
  <2>1. \A i \in 1..(k - 1) : i \in 1..n /\ i # k
    BY <1>0
  <2>2. \A i \in 1..Len(a) : a[i] = c[i]
    BY <1>1, <1>2, <1>3, <2>1
  <2>3. a \in Seq(T) /\ c \in Seq(T) /\ Len(a) = Len(c)
    BY <1>1, <1>2
  <2> QED  BY <2>2, <2>3, SeqEqual
<1>6. /\ a \in Seq(T) /\ b \in Seq(T)
      /\ s = Around(a, s[k], b) /\ r = Around(a, r[k], b)
      /\ Len(a) = k - 1 /\ \A i \in 1..(k - 1) : a[i] = s[i]
  BY <1>1, <1>2, <1>4, <1>5
<1> QED  BY <1>6

------------------------------------------------------------------------------
(* What is in a sequence, and what is in it before a place. *)

Members(s) == {s[k] : k \in 1..Len(s)}
Before(s, k) == {s[j] : j \in 1..(k - 1)}

\* A sequence over a set is one over a larger set.
LEMMA SeqMono ==
    ASSUME NEW A, NEW B, A \subseteq B, NEW s \in Seq(A)
    PROVE  s \in Seq(B)
<1>1. Len(s) \in Nat /\ s \in [1..Len(s) -> A]
  BY LenProperties
<1>2. s \in [1..Len(s) -> B]
  BY <1>1
<1> QED  BY <1>1, <1>2, SeqDef

\* A sequence over a set is one over its entries.
LEMMA SeqOfEntries ==
    ASSUME NEW S, NEW s \in Seq(S)
    PROVE  s \in Seq(Members(s)) /\ Members(s) \subseteq S
<1>1. Len(s) \in Nat /\ s \in [1..Len(s) -> S]
  BY LenProperties
<1>2. s \in [1..Len(s) -> Members(s)]
  BY <1>1 DEF Members
<1>3. s \in Seq(Members(s))
  BY <1>1, <1>2, SeqDef
<1> QED  BY <1>1, <1>3 DEF Members

\* Of two sequences, all of the first is before any of the second.
LEMMA ConcatEntries ==
    ASSUME NEW s, NEW t, s \in Seq(Members(s)), t \in Seq(Members(t))
    PROVE  /\ s \o t \in Seq(Members(s \o t))
           /\ Members(s \o t) = Members(s) \cup Members(t)
           /\ Len(s) \in Nat /\ Len(t) \in Nat /\ Len(s \o t) = Len(s) + Len(t)
           /\ \A k \in 1..Len(s) : /\ (s \o t)[k] = s[k]
                                   /\ Before(s \o t, k) = Before(s, k)
           /\ \A k \in 1..Len(t) : /\ (s \o t)[Len(s) + k] = t[k]
                                   /\ Before(s \o t, Len(s) + k) = Members(s) \cup Before(t, k)
<1> DEFINE u == s \o t
           m == Len(s)
           n == Len(t)
           S == Members(s) \cup Members(t)
<1>1. s \in Seq(S) /\ t \in Seq(S)
  BY SeqMono
<1> HIDE DEF S
<1>2. /\ u \in Seq(S) /\ m \in Nat /\ n \in Nat /\ Len(u) = m + n
      /\ \A i \in 1..(m + n) : u[i] = IF i <= m THEN s[i] ELSE t[i - m]
  BY <1>1, ConcatProperties
<1>3. u \in Seq(Members(u))
  BY <1>2, SeqOfEntries
<1> HIDE DEF u, m, n
<1>4. \A k \in 1..m : k \in 1..(m + n) /\ u[k] = s[k]
  BY <1>2
<1>5. \A k \in 1..n : m + k \in 1..(m + n) /\ u[m + k] = t[k]
  <2> TAKE k \in 1..n
  <2>1. m + k \in 1..(m + n) /\ ~ (m + k <= m) /\ (m + k) - m = k
    BY <1>2
  <2> QED  BY <1>2, <2>1
<1>6. \A i \in 1..(m + n) : i \in 1..m \/ \E k \in 1..n : i = m + k
  <2> TAKE i \in 1..(m + n)
  <2>1. CASE i <= m
    BY <1>2, <2>1
  <2>2. CASE i > m
    <3>1. i - m \in 1..n /\ i = m + (i - m)
      BY <1>2, <2>2
    <3> QED  BY <3>1
  <2> QED  BY <1>2, <2>1, <2>2
<1>7. Members(u) = Members(s) \cup Members(t)
  <2>1. /\ Members(u) = {u[i] : i \in 1..(m + n)}
        /\ Members(s) = {s[i] : i \in 1..m} /\ Members(t) = {t[i] : i \in 1..n}
    BY <1>2 DEF Members, m, n
  <2>2. \A i \in 1..(m + n) : \/ \E k \in 1..m : u[i] = s[k]
                              \/ \E k \in 1..n : u[i] = t[k]
    BY <1>4, <1>5, <1>6
  <2>3. \A k \in 1..m : \E i \in 1..(m + n) : u[i] = s[k]
    BY <1>4
  <2>4. \A k \in 1..n : \E i \in 1..(m + n) : u[i] = t[k]
    BY <1>5
  <2> QED  BY <2>1, <2>2, <2>3, <2>4
<1>8. ASSUME NEW k \in 1..m PROVE Before(u, k) = Before(s, k)
  <2>1. \A j \in 1..(k - 1) : j \in 1..m
    BY <1>2
  <2> QED  BY <1>4, <2>1 DEF Before
<1>9. ASSUME NEW k \in 1..n PROVE Before(u, m + k) = Members(s) \cup Before(t, k)
  <2>1. \A j \in 1..(k - 1) : j \in 1..n /\ m + j \in 1..(m + k - 1)
    BY <1>2
  <2>2. \A j \in 1..m : j \in 1..(m + k - 1)
    BY <1>2
  <2>3. \A i \in 1..(m + k - 1) : i \in 1..m \/ \E j \in 1..(k - 1) : i = m + j
    <3> TAKE i \in 1..(m + k - 1)
    <3>1. CASE i <= m
      BY <1>2, <3>1
    <3>2. CASE i > m
      <4>1. i - m \in 1..(k - 1) /\ i = m + (i - m)
        BY <1>2, <3>2
      <4> QED  BY <4>1
    <3> QED  BY <1>2, <3>1, <3>2
  <2>4. \A x : x \in Before(u, m + k) <=> x \in Members(s) \cup Before(t, k)
    <3> TAKE x
    <3>1. ASSUME x \in Before(u, m + k) PROVE x \in Members(s) \cup Before(t, k)
      <4>1. PICK i \in 1..(m + k - 1) : x = u[i]
        BY <1>2, <3>1 DEF Before
      <4>2. CASE i \in 1..m
        BY <1>4, <4>1, <4>2 DEF Members, m
      <4>3. ASSUME NEW j \in 1..(k - 1), i = m + j PROVE x \in Before(t, k)
        <5>1. x = t[j]
          BY <1>5, <2>1, <4>1, <4>3
        <5> QED  BY <5>1 DEF Before
      <4> QED  BY <2>3, <4>2, <4>3
    <3>2. ASSUME x \in Members(s) PROVE x \in Before(u, m + k)
      <4>1. PICK i \in 1..m : x = s[i]
        BY <3>2 DEF Members, m
      <4> QED  BY <1>2, <1>4, <2>2, <4>1 DEF Before
    <3>3. ASSUME x \in Before(t, k) PROVE x \in Before(u, m + k)
      <4>1. PICK j \in 1..(k - 1) : x = t[j]
        BY <3>3 DEF Before
      <4>2. x = u[m + j] /\ m + j \in 1..(m + k - 1)
        BY <1>5, <2>1, <4>1
      <4> QED  BY <1>2, <4>2 DEF Before
    <3> QED  BY <3>1, <3>2, <3>3
  <2> QED  BY <2>4
<1> QED  BY <1>2, <1>3, <1>4, <1>5, <1>7, <1>8, <1>9 DEF u, m, n

\* The function behind FlattenSeq, cut off at n.
FlatUpTo(f, ss, n) ==
    f = [i \in 1..n |-> IF i = 1 THEN ss[i] ELSE f[i - 1] \o ss[i]]

\* There is one for every n: the least n without one has a predecessor.
LEMMA FlatExists ==
    ASSUME NEW ss, NEW n \in Nat
    PROVE  \E f : FlatUpTo(f, ss, n)
<1> DEFINE Bad == {m \in Nat : ~ \E f : FlatUpTo(f, ss, m)}
<1> SUFFICES ASSUME Bad # {} PROVE FALSE
  OBVIOUS
<1>1. PICK m \in Bad : \A y \in Bad : m <= y
  <2>1. Min(Bad) \in Bad /\ \A y \in Bad : Min(Bad) <= y
    BY MinOfNaturals
  <2> QED  BY <2>1
<1>2. CASE m = 0
  <2>1. FlatUpTo([i \in 1..0 |-> 0], ss, 0)
    BY DEF FlatUpTo
  <2> QED  BY <1>2, <2>1, <1>1
<1>3. CASE m # 0
  <2>1. m - 1 \in Nat /\ m - 1 \notin Bad
    BY <1>1, <1>3
  <2>2. PICK f : FlatUpTo(f, ss, m - 1)
    BY <2>1
  <2> DEFINE last == IF m = 1 THEN ss[m] ELSE f[m - 1] \o ss[m]
  <2> HIDE DEF last
  <2> DEFINE g == [i \in 1..m |-> IF i = m THEN last ELSE f[i]]
  <2>3. FlatUpTo(g, ss, m)
    <3>1. ASSUME NEW i \in 1..m
          PROVE  g[i] = IF i = 1 THEN ss[i] ELSE g[i - 1] \o ss[i]
      <4>0. i \in Nat /\ m \in Nat
        BY <1>1
      <4>1. CASE i = m
        <5>1. m # 1 => m - 1 \in 1..m /\ m - 1 # m
          BY <4>0, <1>3
        <5>2. m # 1 => g[m - 1] = f[m - 1]
          BY <5>1
        <5>3. g[m] = last
          BY <3>1, <4>1
        <5> HIDE DEF g
        <5> QED  BY <4>1, <5>2, <5>3 DEF last
      <4>2. CASE i # m
        <5>1. i \in 1..(m - 1) /\ (i # 1 => i - 1 \in 1..m /\ i - 1 # m)
          BY <4>0, <4>2, <1>1
        <5>2. f[i] = IF i = 1 THEN ss[i] ELSE f[i - 1] \o ss[i]
          BY <5>1, <2>2 DEF FlatUpTo
        <5>3. g[i] = f[i] /\ (i # 1 => g[i - 1] = f[i - 1])
          BY <4>2, <5>1
        <5> HIDE DEF g
        <5> QED  BY <5>2, <5>3
      <4> QED  BY <4>1, <4>2
    <3> HIDE DEF g
    <3>2. g = [i \in 1..m |-> g[i]]
      BY DEF g
    <3> QED  BY <3>1, <3>2 DEF FlatUpTo
  <2> QED  BY <2>3, <1>1
<1> QED  BY <1>2, <1>3

\* A sequence of sequences over S is flattened to a sequence over S.
LEMMA FlattenType ==
    ASSUME NEW S, NEW ss \in Seq(Seq(S))
    PROVE  FlattenSeq(ss) \in Seq(S)
<1> DEFINE n == Len(ss)
<1>1. n \in Nat /\ \A i \in 1..n : ss[i] \in Seq(S)
  OBVIOUS
<1>2. CASE n = 0
  <2>1. FlattenSeq(ss) = ss /\ ss = <<>>
    BY <1>2, EmptySeq DEF FlattenSeq
  <2> QED  BY <2>1
<1>3. CASE n # 0
  <2>1. FlattenSeq(ss) = (CHOOSE f : FlatUpTo(f, ss, n))[n]
    BY <1>3 DEF FlattenSeq, FlatUpTo
  <2> HIDE DEF n
  <2>2. PICK f : FlatUpTo(f, ss, n) /\ FlattenSeq(ss) = f[n]
    BY <1>1, <2>1, FlatExists
  <2> DEFINE Bad == {i \in 1..n : f[i] \notin Seq(S)}
  <2>3. Bad = {}
    <3> SUFFICES ASSUME Bad # {} PROVE FALSE
      OBVIOUS
    <3>1. PICK i \in Bad : \A y \in Bad : i <= y
      <4>1. Bad \subseteq Nat
        BY <1>1
      <4>2. Min(Bad) \in Bad /\ \A y \in Bad : Min(Bad) <= y
        BY <4>1, MinOfNaturals
      <4> QED  BY <4>2
    <3>2. f[i] = IF i = 1 THEN ss[i] ELSE f[i - 1] \o ss[i]
      BY <2>2, <3>1 DEF FlatUpTo
    <3>3. CASE i = 1
      BY <1>1, <3>1, <3>2, <3>3
    <3>4. CASE i # 1
      <4>1. i - 1 \in 1..n /\ i - 1 \notin Bad
        BY <1>1, <3>1, <3>4
      <4>2. f[i - 1] \in Seq(S) /\ ss[i] \in Seq(S)
        BY <1>1, <3>1, <4>1
      <4>3. f[i - 1] \o ss[i] \in Seq(S)
        BY <4>2, ConcatProperties
      <4> QED  BY <3>1, <3>2, <3>4, <4>3
    <3> QED  BY <3>3, <3>4
  <2>4. n \in 1..n
    BY <1>1, <1>3
  <2> QED  BY <2>2, <2>3, <2>4
<1> QED  BY <1>2, <1>3

------------------------------------------------------------------------------
(* SequenceFilter *)

\* The function behind OnlyIn, cut off at n.
KeptUpTo(f, s, S, n) ==
    f = [i \in 0..n |-> IF i = 0 THEN <<>>
                        ELSE IF s[i] \in S THEN Append(f[i - 1], s[i]) ELSE f[i - 1]]

\* There is one for every n: the least n without one has a predecessor.
LEMMA KeptExists ==
    ASSUME NEW s, NEW S, NEW n \in Nat
    PROVE  \E f : KeptUpTo(f, s, S, n)
<1> DEFINE Bad == {m \in Nat : ~ \E f : KeptUpTo(f, s, S, m)}
<1> SUFFICES Bad = {}
  OBVIOUS
<1> SUFFICES ASSUME Bad # {} PROVE FALSE
  OBVIOUS
<1>1. PICK m \in Bad : \A y \in Bad : m <= y
  <2>1. Min(Bad) \in Bad /\ \A y \in Bad : Min(Bad) <= y
    BY MinOfNaturals
  <2> QED  BY <2>1
<1>2. CASE m = 0
  <2>1. KeptUpTo([i \in 0..0 |-> <<>>], s, S, 0)
    BY DEF KeptUpTo
  <2> QED  BY <1>2, <2>1, <1>1
<1>3. CASE m # 0
  <2>1. m - 1 \in Nat /\ m - 1 \notin Bad
    BY <1>1, <1>3
  <2>2. PICK f : KeptUpTo(f, s, S, m - 1)
    BY <2>1
  <2> DEFINE g == [i \in 0..m |->
                     IF i = m THEN IF s[m] \in S THEN Append(f[m - 1], s[m]) ELSE f[m - 1]
                              ELSE f[i]]
  <2>3. KeptUpTo(g, s, S, m)
    <3>1. ASSUME NEW i \in 0..m
          PROVE  g[i] = IF i = 0 THEN <<>>
                        ELSE IF s[i] \in S THEN Append(g[i - 1], s[i]) ELSE g[i - 1]
      <4>1. CASE i = m
        BY <4>1, <1>3, <1>1
      <4>2. CASE i # m
        <5>1. i \in 0..(m-1) /\ (i # 0 => i - 1 \in 0..m /\ i - 1 # m)
          BY <4>2, <1>1
        <5>2. f[i] = IF i = 0 THEN <<>>
                        ELSE IF s[i] \in S THEN Append(f[i - 1], s[i]) ELSE f[i - 1]
          BY <5>1, <2>2 DEF KeptUpTo
        <5> QED  BY <5>1, <5>2, <4>2
      <4> QED  BY <4>1, <4>2
    <3> HIDE DEF g
    <3>2. g = [i \in 0..m |-> g[i]]
      BY DEF g
    <3> QED  BY <3>1, <3>2 DEF KeptUpTo
  <2> QED  BY <2>3, <1>1
<1> QED  BY <1>2, <1>3

\* Two of them agree as far as their sequences do.
LEMMA KeptUnique ==
    ASSUME NEW s, NEW t, NEW S, NEW n \in Nat, NEW f, NEW g,
           KeptUpTo(f, s, S, n), KeptUpTo(g, t, S, n + 1),
           \A i \in 1..n : s[i] = t[i]
    PROVE  \A i \in 0..n : f[i] = g[i]
<1> DEFINE Bad == {i \in 0..n : f[i] # g[i]}
<1> SUFFICES ASSUME Bad # {} PROVE FALSE
  OBVIOUS
<1>1. PICK i \in Bad : \A y \in Bad : i <= y
  <2>1. Min(Bad) \in Bad /\ \A y \in Bad : Min(Bad) <= y
    BY MinOfNaturals
  <2> QED  BY <2>1
<1>2. i \in 0..n /\ i \in 0..(n + 1)
  BY <1>1
<1>3. /\ f[i] = IF i = 0 THEN <<>> ELSE IF s[i] \in S THEN Append(f[i - 1], s[i]) ELSE f[i - 1]
      /\ g[i] = IF i = 0 THEN <<>> ELSE IF t[i] \in S THEN Append(g[i - 1], t[i]) ELSE g[i - 1]
  BY <1>2 DEF KeptUpTo
<1>4. CASE i = 0
  BY <1>1, <1>3, <1>4
<1>5. CASE i # 0
  <2>1. i - 1 \in 0..n /\ i - 1 \notin Bad
    BY <1>1, <1>2, <1>5
  <2>2. f[i-1] = g[i-1] /\ s[i] = t[i]
    BY <2>1, <1>2, <1>5
  <2> QED  BY <1>1, <1>3, <2>2, <1>5
<1> QED  BY <1>4, <1>5

\* OnlyIn returns the last value of such a function.
LEMMA OnlyInKept ==
    ASSUME NEW T, NEW s \in Seq(T), NEW S
    PROVE  \E f : KeptUpTo(f, s, S, Len(s)) /\ OnlyIn(s, S) = f[Len(s)]
<1>0. Len(s) \in Nat
  OBVIOUS
<1>1. \E f : KeptUpTo(f, s, S, Len(s))
  BY <1>0, KeptExists
<1>2. OnlyIn(s, S) = (CHOOSE f : KeptUpTo(f, s, S, Len(s)))[Len(s)]
  BY DEF OnlyIn, KeptUpTo
<1>3. KeptUpTo((CHOOSE f : KeptUpTo(f, s, S, Len(s))), s, S, Len(s))
  BY <1>1
<1> QED  BY <1>2, <1>3

\* Of an empty sequence nothing is kept.
LEMMA OnlyInEmpty == ASSUME NEW S PROVE OnlyIn(<<>>, S) = <<>>
<1>1. <<>> \in Seq({})
  OBVIOUS
<1>2. PICK f : KeptUpTo(f, <<>>, S, Len(<<>>)) /\ OnlyIn(<<>>, S) = f[Len(<<>>)]
  BY <1>1, OnlyInKept
<1>3. Len(<<>>) = 0
  OBVIOUS
<1> QED  BY <1>2, <1>3 DEF KeptUpTo

\* An entry behind the others is kept or not, and changes nothing before it.
LEMMA OnlyInAppend ==
    ASSUME NEW T, NEW s \in Seq(T), NEW x \in T, NEW S
    PROVE  OnlyIn(Append(s, x), S) = IF x \in S THEN Append(OnlyIn(s, S), x) ELSE OnlyIn(s, S)
<1> DEFINE n == Len(s)
           t == Append(s, x)
<1>1. /\ n \in Nat /\ t \in Seq(T) /\ Len(t) = n + 1
      /\ t[n + 1] = x /\ \A i \in 1..n : s[i] = t[i]
  OBVIOUS
<1>2. PICK f : KeptUpTo(f, s, S, Len(s)) /\ OnlyIn(s, S) = f[Len(s)]
  BY OnlyInKept
<1> HIDE DEF n, t
<1>3. PICK g : KeptUpTo(g, t, S, n + 1) /\ OnlyIn(t, S) = g[n + 1]
  BY <1>1, OnlyInKept
<1>4. KeptUpTo(f, s, S, n) /\ OnlyIn(s, S) = f[n]
  BY <1>2 DEF n
<1>5. f[n] = g[n]
  <2>1. n + 1 \in Nat /\ n <= n + 1 /\ n \in 0..n
    BY <1>1
  <2>2. \A i \in 0..n : f[i] = g[i]
    <3>1. n \in Nat
      BY <1>1
    <3>2. \A i \in 1..n : s[i] = t[i]
      BY <1>1
    <3>3. KeptUpTo(f, s, S, n)
      BY <1>4
    <3>4. KeptUpTo(g, t, S, n + 1)
      BY <1>3
    <3> HIDE DEF KeptUpTo
    <3> QED  BY <3>1, <3>2, <3>3, <3>4, KeptUnique
  <2> QED  BY <2>1, <2>2
<1>6. g[n + 1] = IF x \in S THEN Append(g[n], x) ELSE g[n]
  <2>1. n + 1 \in 0..(n+1) /\ n + 1 # 0 /\ (n + 1) - 1 = n
    BY <1>1
  <2> QED  BY <1>1, <1>3, <2>1 DEF KeptUpTo
<1> QED  BY <1>3, <1>4, <1>5, <1>6 DEF t

\* What is kept are entries of the sequence and of the set, and fewer than
\* before when one is left out.
LEMMA OnlyInEntries ==
    ASSUME NEW T, NEW s \in Seq(T), NEW S
    PROVE  /\ OnlyIn(s, S) \in Seq(T \cap S)
           /\ Len(OnlyIn(s, S)) <= Len(s)
           /\ (\E i \in 1..Len(s) : s[i] \notin S) => Len(OnlyIn(s, S)) < Len(s)
<1> DEFINE n == Len(s)
<1>1. n \in Nat /\ \A i \in 1..n : s[i] \in T
  OBVIOUS
<1>2. PICK f : KeptUpTo(f, s, S, n) /\ OnlyIn(s, S) = f[n]
  BY OnlyInKept
<1> HIDE DEF n
<1> DEFINE Good(m) == /\ f[m] \in Seq(T \cap S)
                      /\ Len(f[m]) <= m
                      /\ (\E i \in 1..m : s[i] \notin S) => Len(f[m]) < m
           Bad == {m \in 0..n : ~ Good(m)}
<1>3. Good(0)
  BY <1>1, <1>2 DEF KeptUpTo
<1>4. ASSUME NEW m \in 1..n, Good(m - 1) PROVE Good(m)
  <2>1. /\ m \in 0..n /\ m # 0 /\ m - 1 \in Nat
        /\ s[m] \in T
    BY <1>1
  <2>2. f[m] = IF s[m] \in S THEN Append(f[m - 1], s[m]) ELSE f[m - 1]
    BY <1>2, <2>1 DEF KeptUpTo
  <2> DEFINE g == f[m - 1]
  <2>3. /\ g \in Seq(T \cap S) /\ Len(g) \in Nat /\ Len(g) <= m - 1
        /\ (\E i \in 1..(m - 1) : s[i] \notin S) => Len(g) < m - 1
    BY <1>4
  <2> HIDE DEF g
  <2>4. CASE s[m] \in S
    <3>1. Append(g, s[m]) \in Seq(T \cap S) /\ Len(Append(g, s[m])) = Len(g) + 1
      BY <2>1, <2>3, <2>4
    <3>2. f[m] = Append(g, s[m])
      BY <2>2, <2>4 DEF g
    <3>3. ASSUME NEW i \in 1..m, s[i] \notin S PROVE Len(g) < m - 1
      BY <2>3, <2>4, <3>3
    <3> QED  BY <2>1, <2>3, <3>1, <3>2, <3>3
  <2>5. CASE s[m] \notin S
    <3>1. f[m] = g
      BY <2>2, <2>5 DEF g
    <3> QED  BY <2>1, <2>3, <3>1
  <2> QED  BY <2>4, <2>5
<1> HIDE DEF Good
<1>5. Bad = {}
  <2> SUFFICES ASSUME Bad # {} PROVE FALSE
    OBVIOUS
  <2>0. Bad \subseteq Nat
    BY <1>1
  <2>1. Min(Bad) \in Bad /\ \A y \in Bad : Min(Bad) <= y
    BY <2>0, MinOfNaturals
  <2> DEFINE m == Min(Bad)
  <2> HIDE DEF m
  <2>2. m \in 0..n /\ ~ Good(m) /\ \A y \in 0..n : ~ Good(y) => m <= y
    BY <2>1 DEF m
  <2>3. m # 0
    BY <1>3, <2>2
  <2>4. m \in 1..n /\ m - 1 \in 0..n /\ ~ (m <= m - 1)
    BY <1>1, <2>2, <2>3
  <2> QED  BY <1>4, <2>2, <2>4
<1>6. Good(n)
  BY <1>1, <1>5
<1> QED  BY <1>2, <1>6 DEF Good, n

\* What is kept of a concatenation is kept of its parts.
LEMMA OnlyInConcat ==
    ASSUME NEW T, NEW s \in Seq(T), NEW t \in Seq(T), NEW S
    PROVE  OnlyIn(s \o t, S) = OnlyIn(s, S) \o OnlyIn(t, S)
<1> DEFINE u(m) == SubSeq(t, 1, m)
           Good(m) == OnlyIn(s \o u(m), S) = OnlyIn(s, S) \o OnlyIn(u(m), S)
           n == Len(t)
           Bad == {m \in 0..n : ~ Good(m)}
<1>0. n \in Nat /\ OnlyIn(s, S) \in Seq(T \cap S)
  BY OnlyInEntries
<1>1. ASSUME NEW m \in 0..n
      PROVE  /\ u(m) \in Seq(T) /\ Len(u(m)) = m
             /\ \A i \in 1..m : u(m)[i] = t[i]
  <2>1. \A i \in 1..m : t[i] \in T
    BY <1>0
  <2>2. m \in Nat
    BY <1>0
  <2> QED  BY <1>0, <2>1, <2>2, SubSeqProperties
<1> HIDE DEF u, n
<1>2. Good(0)
  <2>1. u(0) = <<>>
    BY <1>0, <1>1, EmptySeq
  <2>2. s \o <<>> = s /\ OnlyIn(s, S) \o <<>> = OnlyIn(s, S)
    BY <1>0, ConcatEmptySeq
  <2> QED  BY <2>1, <2>2, OnlyInEmpty
<1>3. ASSUME NEW m \in 1..n, Good(m - 1) PROVE Good(m)
  <2> DEFINE v == u(m - 1)
             x == t[m]
             k == OnlyIn(s, S)
             l == OnlyIn(v, S)
  <2>1. m \in 0..n /\ m - 1 \in 0..n /\ x \in T
    BY <1>0 DEF n
  <2>2. v \in Seq(T) /\ Len(v) = m - 1 /\ \A i \in 1..(m - 1) : v[i] = t[i]
    BY <1>1, <2>1
  <2>3. u(m) = Append(v, x)
    <3> DEFINE w == Append(v, x)
    <3> HIDE DEF v, x
    <3>1. /\ w \in Seq(T) /\ Len(w) = (m - 1) + 1
          /\ \A i \in 1..(m - 1) : w[i] = v[i]
          /\ w[(m - 1) + 1] = x
      BY <2>1, <2>2
    <3>2. u(m) \in Seq(T) /\ Len(u(m)) = m /\ \A i \in 1..m : u(m)[i] = t[i]
      BY <1>1, <2>1
    <3>c. (m - 1) + 1 = m
      BY <2>1
    <3> HIDE DEF w
    <3>a. /\ w \in Seq(T) /\ Len(w) = m
          /\ \A i \in 1..(m - 1) : w[i] = t[i]
          /\ w[m] = t[m]
      BY <2>2, <3>1, <3>c DEF x
    <3>b. \A i \in 1..m : i \in 1..(m - 1) \/ i = m
      BY <2>1
    <3>3. w \in Seq(T) /\ Len(w) = m /\ \A i \in 1..m : w[i] = t[i]
      BY <3>a, <3>b
    <3>4. u(m) = w
      BY <3>2, <3>3, SeqEqual
    <3> QED  BY <3>4 DEF w
  <2> HIDE DEF v, x
  <2>4. s \o u(m) = Append(s \o v, x)
    BY <2>1, <2>2, <2>3, ConcatAppend
  <2>5. s \o v \in Seq(T)
    BY <2>2, ConcatProperties
  <2>6. OnlyIn(s \o u(m), S) = IF x \in S THEN Append(OnlyIn(s \o v, S), x) ELSE OnlyIn(s \o v, S)
    BY <2>1, <2>4, <2>5, OnlyInAppend
  <2>7. OnlyIn(u(m), S) = IF x \in S THEN Append(l, x) ELSE l
    BY <2>1, <2>2, <2>3, OnlyInAppend
  <2>8. OnlyIn(s \o v, S) = k \o l
    BY <1>3 DEF v
  <2>9. k \in Seq(T \cap S) /\ l \in Seq(T \cap S)
    BY <1>0, <2>2, OnlyInEntries
  <2> HIDE DEF k, l
  <2>10. x \in S => k \o Append(l, x) = Append(k \o l, x)
    <3> SUFFICES ASSUME x \in T \cap S PROVE k \o Append(l, x) = Append(k \o l, x)
      BY <2>1
    <3> QED  BY <2>9, ConcatAppend
  <2> QED  BY <2>6, <2>7, <2>8, <2>10 DEF k
<1> HIDE DEF Good
<1>4. Bad = {}
  <2> SUFFICES ASSUME Bad # {} PROVE FALSE
    OBVIOUS
  <2>0. Bad \subseteq Nat
    BY <1>0
  <2>1. PICK m \in Bad : \A y \in Bad : m <= y
    <3>1. Min(Bad) \in Bad /\ \A y \in Bad : Min(Bad) <= y
      BY <2>0, MinOfNaturals
    <3> QED  BY <3>1
  <2>2. m # 0
    BY <1>2, <2>1
  <2>3. m \in 1..n /\ m - 1 \in 0..n /\ ~ (m <= m - 1)
    BY <1>0, <2>1, <2>2
  <2> QED  BY <1>3, <2>1, <2>3
<1>5. u(n) = t
  <2>1. n \in 0..n
    BY <1>0
  <2>2. u(n) \in Seq(T) /\ Len(u(n)) = n /\ \A i \in 1..n : u(n)[i] = t[i]
    BY <1>1, <2>1
  <2> QED  BY <2>2, SeqEqual DEF n
<1>6. Good(n)
  BY <1>0, <1>4
<1> QED  BY <1>5, <1>6 DEF Good

\* Of one entry it or nothing is kept.
LEMMA OnlyInOne ==
    ASSUME NEW x, NEW S
    PROVE  OnlyIn(<<x>>, S) = IF x \in S THEN <<x>> ELSE <<>>
<1>1. <<>> \in Seq({x}) /\ x \in {x} /\ Append(<<>>, x) = <<x>>
  OBVIOUS
<1>2. OnlyIn(Append(<<>>, x), S)
        = IF x \in S THEN Append(OnlyIn(<<>>, S), x) ELSE OnlyIn(<<>>, S)
  BY <1>1, OnlyInAppend
<1> QED  BY <1>1, <1>2, OnlyInEmpty

\* What is kept around an entry.
LEMMA OnlyInAround ==
    ASSUME NEW T, NEW a \in Seq(T), NEW b \in Seq(T), NEW e \in T, NEW S
    PROVE  OnlyIn(Around(a, e, b), S)
             = IF e \in S THEN Around(OnlyIn(a, S), e, OnlyIn(b, S))
                          ELSE Cat(OnlyIn(a, S), OnlyIn(b, S))
<1> DEFINE v == <<e>>
           c == v \o b
<1>1. v \in Seq(T)
  OBVIOUS
<1>2. OnlyIn(v, S) = IF e \in S THEN v ELSE <<>>
  BY OnlyInOne
<1> HIDE DEF v
<1>3. c \in Seq(T)
  BY <1>1, ConcatProperties
<1>4. OnlyIn(c, S) = OnlyIn(v, S) \o OnlyIn(b, S)
  BY <1>1, OnlyInConcat
<1> HIDE DEF c
<1>5. OnlyIn(a \o c, S) = OnlyIn(a, S) \o OnlyIn(c, S)
  BY <1>3, OnlyInConcat
<1>6. OnlyIn(b, S) \in Seq(T \cap S)
  BY OnlyInEntries
<1>7. <<>> \o OnlyIn(b, S) = OnlyIn(b, S)
  BY <1>6, ConcatEmptySeq
<1>8. OnlyIn(a \o c, S) = IF e \in S THEN OnlyIn(a, S) \o (v \o OnlyIn(b, S))
                                     ELSE OnlyIn(a, S) \o OnlyIn(b, S)
  BY <1>2, <1>4, <1>5, <1>7
<1> QED  BY <1>8 DEF c, v, Around, Cat

\* Behind entries that are not kept comes the first that is.
LEMMA OnlyInPop ==
    ASSUME NEW T, NEW s \in Seq(T), NEW S, NEW k \in 1..Len(s), s[k] \in S,
           \A i \in 1..(k - 1) : s[i] \notin S
    PROVE  OnlyIn(s, S) = <<s[k]>> \o OnlyIn(SubSeq(s, k + 1, Len(s)), S)
<1> DEFINE a == SubSeq(s, 1, k - 1)
           b == SubSeq(s, k + 1, Len(s))
           e == s[k]
<1>1. /\ a \in Seq(T) /\ b \in Seq(T) /\ Len(a) = k - 1
      /\ \A i \in 1..(k - 1) : a[i] = s[i]
      /\ s = Around(a, e, b)
  BY SplitAt
<1>e. e \in T /\ e \in S
  OBVIOUS
<1> HIDE DEF a, b, e
<1>2. OnlyIn(a, S) = <<>>
  <2>1. \A i \in 1..Len(a) : a[i] \in T \ S
    BY <1>1
  <2>2. a \in Seq(T \ S)
    BY <1>1, <2>1
  <2>3. OnlyIn(a, S) \in Seq((T \ S) \cap S)
    BY <2>2, OnlyInEntries
  <2>4. (T \ S) \cap S = {}
    OBVIOUS
  <2> QED  BY <2>3, <2>4
<1>3. a \in Seq(T) /\ b \in Seq(T) /\ e \in T
  BY <1>1, <1>e
<1>4. OnlyIn(Around(a, e, b), S) = Around(<<>>, e, OnlyIn(b, S))
  BY <1>2, <1>3, <1>e, OnlyInAround
<1> DEFINE v == <<e>>
           w == v \o OnlyIn(b, S)
<1>5. v \in Seq(T \cap S) /\ OnlyIn(b, S) \in Seq(T \cap S)
  BY <1>3, <1>e, OnlyInEntries
<1> HIDE DEF v
<1>6. w \in Seq(T \cap S)
  BY <1>5, ConcatProperties
<1> HIDE DEF w
<1>7. <<>> \o w = w
  BY <1>6, ConcatEmptySeq
<1>8. Around(<<>>, e, OnlyIn(b, S)) = <<>> \o w
  BY DEF Around, w, v
<1>9. OnlyIn(s, S) = w
  BY <1>1, <1>4, <1>7, <1>8
<1> QED  BY <1>9 DEF w, v, b, e

\* The k-th entry of s, kept by S and the only one of its value, is replaced in r
\* by one that is not kept.
Replaces(s, r, k, T, S) ==
    /\ s \in Seq(T) /\ r \in Seq(T) /\ Len(r) = Len(s)
    /\ k \in 1..Len(s) /\ s[k] \in S /\ r[k] \notin S
    /\ \A i \in 1..Len(s) : i # k => r[i] = s[i] /\ s[i] # s[k]

\* When the only e is replaced by something that is not kept, what is kept of
\* the sequence lacks it.
LEMMA OnlyInReplaced ==
    ASSUME NEW T, NEW s \in Seq(T), NEW r \in Seq(T), Len(r) = Len(s), NEW S,
           NEW k \in 1..Len(s), s[k] \in S, r[k] \notin S,
           \A i \in 1..Len(s) : i # k => r[i] = s[i] /\ s[i] # s[k]
    PROVE  \E x, y \in Seq(T \cap S) : /\ OnlyIn(s, S) = Around(x, s[k], y)
                                       /\ OnlyIn(r, S) = Cat(x, y)
                                       /\ Lacks(x, s[k])
<1> DEFINE e == s[k]
           d == r[k]
           n == Len(s)
<1>0. /\ e \in T /\ d \in T /\ e \in S /\ d \notin S /\ n \in Nat /\ k \in 1..n
      /\ \A i \in 1..n : i # k => s[i] # e
  OBVIOUS
<1>1. PICK a \in Seq(T), b \in Seq(T) :
         /\ s = Around(a, e, b) /\ r = Around(a, d, b)
         /\ Len(a) = k - 1 /\ \A i \in 1..(k - 1) : a[i] = s[i]
  <2>1. \A i \in 1..Len(s) : i # k => r[i] = s[i]
    OBVIOUS
  <2> QED  BY <2>1, SplitBoth
<1> HIDE DEF e, d, n
<1> DEFINE x == OnlyIn(a, S)
           y == OnlyIn(b, S)
<1>c. e \in T /\ d \in T /\ e \in S /\ d \notin S
  BY <1>0
<1>2. OnlyIn(Around(a, e, b), S) = Around(x, e, y)
  BY <1>c, OnlyInAround
<1>3. OnlyIn(Around(a, d, b), S) = Cat(x, y)
  BY <1>c, OnlyInAround
<1>4. x \in Seq(T \cap S) /\ y \in Seq(T \cap S)
  BY OnlyInEntries
<1>5. Lacks(x, e)
  <2>1. \A i \in 1..Len(a) : a[i] \in T \ {e}
    <3>1. ASSUME NEW i \in 1..Len(a) PROVE i \in 1..(k - 1) /\ i \in 1..n /\ i # k
      BY <1>0, <1>1
    <3> QED  BY <1>0, <1>1, <3>1
  <2>2. a \in Seq(T \ {e})
    BY <2>1
  <2>3. x \in Seq((T \ {e}) \cap S)
    BY <2>2, OnlyInEntries
  <2> HIDE DEF x
  <2>4. \A i \in 1..Len(x) : x[i] \in (T \ {e}) \cap S
    BY <2>3
  <2> QED  BY <2>4 DEF Lacks
<1> HIDE DEF x, y
<1>6. OnlyIn(s, S) = Around(x, e, y) /\ OnlyIn(r, S) = Cat(x, y)
  BY <1>1, <1>2, <1>3
<1> QED  BY <1>4, <1>5, <1>6 DEF e

\* Replacing the only e by something that is not kept takes e out of what is kept,
\* also behind a sequence that lacks e.
LEMMA OnlyInTakesOut ==
    ASSUME NEW T, NEW S, NEW s, NEW r, NEW k, Replaces(s, r, k, T, S),
           NEW f \in Seq(T \cap S), Lacks(f, s[k])
    PROVE  /\ RemoveFirst(Cat(f, OnlyIn(s, S)), s[k]) = Cat(f, OnlyIn(r, S))
           /\ \E i \in 1..Len(Cat(f, OnlyIn(s, S))) : Cat(f, OnlyIn(s, S))[i] = s[k]
<1>0. s[k] \in T \cap S
  BY DEF Replaces
<1>1. PICK x \in Seq(T \cap S), y \in Seq(T \cap S) :
         /\ OnlyIn(s, S) = Around(x, s[k], y)
         /\ OnlyIn(r, S) = Cat(x, y)
         /\ Lacks(x, s[k])
  BY OnlyInReplaced DEF Replaces
<1> DEFINE e == s[k]
           U == T \cap S
<1>2. e \in U /\ f \in Seq(U) /\ x \in Seq(U) /\ y \in Seq(U) /\ Lacks(f, e) /\ Lacks(x, e)
  BY <1>0, <1>1
<1>3. OnlyIn(s, S) = Around(x, e, y) /\ OnlyIn(r, S) = Cat(x, y)
  BY <1>1
<1> HIDE DEF e, U
<1>4. /\ RemoveFirst(Cat(f, Around(x, e, y)), e) = Cat(f, Cat(x, y))
      /\ \E i \in 1..Len(Cat(f, Around(x, e, y))) : Cat(f, Around(x, e, y))[i] = e
  BY <1>2, RemoveFirstBehind
<1> QED  BY <1>3, <1>4 DEF e

------------------------------------------------------------------------------
(* KafkaAckQueue: one partition, one step of its queue.  w is the waiting   *)
(* list, O the offsets of the partition and A the acknowledged ones.        *)

\* Every offset below b is acknowledged or is one of the first n entries of w.
CoveredBelow(O, b, w, n, A) ==
    \A o \in O : o < b => o \in A \/ \E j \in 1..n : w[j] = o

\* Everything before an entry of the queue is acknowledged or waits in front of
\* it.  Sortedness would not do: a rebalance appends offsets smaller than those
\* that still wait.
EntriesCovered(O, w, A) == \A i \in 1..Len(w) : CoveredBelow(O, w[i], w, i - 1, A)

\* The inductive invariant of one partition: the entries, what the stream has
\* passed, what last_offset stands for while something waits, and the two
\* offsets a restart may resume from.
PartitionInv(O, w, last, A, pos, sto, com) ==
    /\ EntriesCovered(O, w, A)
    /\ CoveredBelow(O, pos, w, Len(w), A)
    /\ w # <<>> => CoveredBelow(O, last + 1, w, Len(w), A)
    /\ CoveredBelow(O, sto + 1, w, 0, A)
    /\ CoveredBelow(O, com, w, 0, A)

\* add() appends the offset at the position of the stream.
LEMMA AddPreserves ==
    ASSUME NEW O \in SUBSET Int, NEW w \in Seq(O), NEW last \in Int, NEW A,
           NEW pos \in O, NEW sto \in Int, NEW com \in Int,
           PartitionInv(O, w, last, A, pos, sto, com)
    PROVE  PartitionInv(O, Append(w, pos), pos, A, pos + 1, sto, com)
<1> DEFINE v == Append(w, pos)
           n == Len(w)
<1>1. /\ v \in Seq(O)
      /\ Len(v) = n + 1
      /\ v[n + 1] = pos
      /\ \A i \in 1..n : v[i] = w[i]
      /\ n \in Nat
  OBVIOUS
<1> HIDE DEF v, n
<1>2. /\ \A i \in 1..n : CoveredBelow(O, w[i], w, i - 1, A)
      /\ CoveredBelow(O, pos, w, n, A)
      /\ CoveredBelow(O, sto + 1, w, 0, A)
      /\ CoveredBelow(O, com, w, 0, A)
  BY DEF PartitionInv, EntriesCovered, n
<1>3. ASSUME NEW i \in 1..(n + 1)
      PROVE  CoveredBelow(O, v[i], v, i - 1, A)
  <2>1. CASE i <= n
    BY <1>1, <1>2, <2>1 DEF CoveredBelow
  <2>2. CASE i = n + 1
    BY <1>1, <1>2, <2>2 DEF CoveredBelow
  <2> QED  BY <1>1, <2>1, <2>2
<1>4. CoveredBelow(O, pos + 1, v, n + 1, A)
  <2> SUFFICES ASSUME NEW o \in O, o < pos + 1
               PROVE  o \in A \/ \E j \in 1..(n + 1) : v[j] = o
    BY DEF CoveredBelow
  <2>1. CASE o = pos
    BY <1>1, <2>1
  <2>2. CASE o < pos
    BY <1>1, <1>2, <2>2 DEF CoveredBelow
  <2> QED  BY <2>1, <2>2
<1>5. CoveredBelow(O, sto + 1, v, 0, A) /\ CoveredBelow(O, com, v, 0, A)
  BY <1>2 DEF CoveredBelow
<1> QED
  BY <1>1, <1>3, <1>4, <1>5 DEF PartitionInv, EntriesCovered, v

\* What ack() stores covers acknowledged offsets only.
LEMMA StoredIsCovered ==
    ASSUME NEW O \in SUBSET Int, NEW w \in Seq(O), NEW last \in Int, NEW A,
           NEW pos \in Int, NEW sto \in Int, NEW com \in Int,
           PartitionInv(O, w, last, A, pos, sto, com),
           w # <<>>,
           NEW q, q = [waiting_list |-> w, last_offset |-> last]
    PROVE  /\ OffsetToStore(q, w[1]) \in Int
           /\ CoveredBelow(O, OffsetToStore(q, w[1]) + 1, w, 0, A \cup {w[1]})
<1>1. Len(w) \in Nat \ {0} /\ w[1] \in O
  BY TailCases
<1>2. CASE Len(w) = 1
  <2>1. OffsetToStore(q, w[1]) = IF last > w[1] THEN last ELSE w[1]
    BY <1>2, TailCases DEF OffsetToStore
  <2>2. CoveredBelow(O, last + 1, w, 1, A) /\ CoveredBelow(O, w[1], w, 0, A)
    BY <1>1, <1>2 DEF PartitionInv, EntriesCovered
  <2>3. ASSUME NEW o \in O, o <= last \/ o <= w[1] PROVE o \in A \cup {w[1]}
    <3>0. o \in Int /\ w[1] \in Int
      BY <1>1
    <3>1. o < last + 1 \/ o < w[1] \/ o = w[1]
      BY <3>0, <2>3
    <3> QED  BY <2>2, <3>1 DEF CoveredBelow
  <2>4. w[1] \in Int
    BY <1>1
  <2>5. CASE last > w[1]
    <3>1. \A o \in O : o < last + 1 => o <= last
      OBVIOUS
    <3> QED  BY <2>1, <2>3, <2>5, <3>1 DEF CoveredBelow
  <2>6. CASE ~ (last > w[1])
    <3>1. \A o \in O : o < w[1] + 1 => o <= w[1]
      BY <2>4
    <3> QED  BY <2>1, <2>3, <2>4, <2>6, <3>1 DEF CoveredBelow
  <2> QED  BY <2>5, <2>6
<1>3. CASE Len(w) > 1
  <2>1. OffsetToStore(q, w[1]) = w[2] - 1 /\ w[2] \in O
    BY <1>3, TailCases DEF OffsetToStore
  <2>2. CoveredBelow(O, w[2], w, 1, A)
    BY <1>3 DEF PartitionInv, EntriesCovered
  <2>3. \A o \in O : o < w[2] => o \in A \cup {w[1]}
    BY <2>2 DEF CoveredBelow
  <2>4. \A x \in O : x - 1 \in Int /\ (x - 1) + 1 = x
    OBVIOUS
  <2>5. CoveredBelow(O, w[2], w, 0, A \cup {w[1]})
    BY <2>3 DEF CoveredBelow
  <2> QED
    BY <2>1, <2>4, <2>5
<1>4. \A n \in Nat \ {0} : n = 1 \/ n > 1
  OBVIOUS
<1> QED
  BY <1>1, <1>2, <1>3, <1>4

\* ack() takes one entry out and acknowledges its offset.
LEMMA AckPreserves ==
    ASSUME NEW O \in SUBSET Int, NEW w \in Seq(O), NEW last \in Int, NEW A,
           NEW pos \in Int, NEW sto \in Int, NEW com \in Int, NEW s2 \in Int,
           PartitionInv(O, w, last, A, pos, sto, com),
           NEW e \in O, \E i \in 1..Len(w) : w[i] = e,
           CoveredBelow(O, s2 + 1, w, 0, A \cup {e})
    PROVE  /\ RemoveFirst(w, e) \in Seq(O)
           /\ PartitionInv(O, RemoveFirst(w, e), last, A \cup {e}, pos, s2, com)
<1> DEFINE v == RemoveFirst(w, e)
           n == Len(w)
           B == A \cup {e}
<1>1. PICK k \in 1..n : w[k] = e /\ v = RemoveAt(w, k)
  BY RemoveFirstEntry
<1>2. /\ v \in Seq(O)
      /\ Len(v) = n - 1
      /\ \A j \in 1..(n - 1) : v[j] = IF j < k THEN w[j] ELSE w[j + 1]
  <2> HIDE DEF v
  <2> QED  BY <1>1, RemoveAtProperties
<1> HIDE DEF v, B
<1>n. n \in Nat
  OBVIOUS
<1> HIDE DEF n
<1>3. /\ \A i \in 1..n : CoveredBelow(O, w[i], w, i - 1, A)
      /\ CoveredBelow(O, pos, w, n, A)
      /\ w # <<>> /\ CoveredBelow(O, last + 1, w, n, A)
      /\ CoveredBelow(O, com, w, 0, A)
  BY <1>1 DEF PartitionInv, EntriesCovered, n
<1>4. ASSUME NEW b, NEW m \in 0..n, CoveredBelow(O, b, w, m, A)
      PROVE  CoveredBelow(O, b, v, IF m < k THEN m ELSE m - 1, B)
  <2> SUFFICES ASSUME NEW o \in O, o < b, o \notin B
               PROVE  \E j \in 1..(IF m < k THEN m ELSE m - 1) : v[j] = o
    BY DEF CoveredBelow
  <2>1. PICK j \in 1..m : w[j] = o
    BY <1>4 DEF CoveredBelow, B
  <2>2. j # k
    BY <1>1, <2>1 DEF B
  <2>3. CASE j < k
    <3>1. v[j] = w[j] /\ j \in 1..(IF m < k THEN m ELSE m - 1)
      <4>1. /\ k \in 1..n /\ n \in Nat /\ j \in 1..m /\ m \in 0..n /\ j < k
        BY <1>1, <1>n, <2>1, <2>3
      <4>2. j \in 1..(n - 1) /\ j \in 1..(IF m < k THEN m ELSE m - 1)
        BY <4>1
      <4> QED  BY <1>2, <4>1, <4>2
    <3> QED  BY <2>1, <3>1
  <2>4. CASE j > k
    <3>1. v[j - 1] = w[j]
      BY <1>1, <1>n, <1>2, <2>4
    <3> QED  BY <1>1, <1>n, <1>2, <2>1, <2>4, <3>1
  <2> QED  BY <1>n, <1>2, <2>2, <2>3, <2>4
<1>5. ASSUME NEW i \in 1..(n - 1)
      PROVE  CoveredBelow(O, v[i], v, i - 1, B)
  <2>1. CASE i < k
    <3>1. CoveredBelow(O, w[i], w, i - 1, A)
      BY <1>n, <1>2, <1>3
    <3>2. i - 1 \in 0..n /\ i - 1 < k
      BY <1>n, <1>2, <2>1
    <3>3. CoveredBelow(O, w[i], v, i - 1, B)
      BY <1>4, <3>1, <3>2
    <3> QED  BY <1>n, <1>2, <2>1, <3>3
  <2>2. CASE i >= k
    <3>1. CoveredBelow(O, w[i + 1], w, i, A)
      <4>1. i + 1 \in 1..n /\ (i + 1) - 1 = i
        BY <1>n, <1>2
      <4> QED  BY <1>3, <4>1
    <3>2. i \in 0..n /\ ~ (i < k)
      BY <1>1, <1>n, <1>2, <2>2
    <3>3. CoveredBelow(O, w[i + 1], v, i - 1, B)
      BY <1>4, <3>1, <3>2
    <3> QED  BY <1>n, <1>2, <2>2, <3>2, <3>3
  <2> QED  BY <1>1, <1>n, <1>2, <2>1, <2>2
<1>6. CoveredBelow(O, pos, v, n - 1, B) /\ CoveredBelow(O, last + 1, v, n - 1, B)
  <2>1. n \in 0..n /\ ~ (n < k)
    BY <1>1, <1>n
  <2> QED  BY <1>3, <1>4, <2>1
<1>7. CoveredBelow(O, com, v, 0, B) /\ CoveredBelow(O, s2 + 1, v, 0, B)
  BY <1>3 DEF CoveredBelow, B
<1> QED
  BY <1>2, <1>5, <1>6, <1>7 DEF PartitionInv, EntriesCovered, v, B

\* The offset ack() stores is one below an entry, an entry, or last_offset.
LEMMA StoredBounds ==
    ASSUME NEW lo \in Int, NEW hi \in Int, NEW w \in Seq(lo..hi), NEW last \in Int, NEW q,
           w # <<>>, last <= hi, q = [waiting_list |-> w, last_offset |-> last]
    PROVE  /\ OffsetToStore(q, w[1]) \in (lo - 1)..hi
           /\ Len(w) = 1 => OffsetToStore(q, w[1]) = IF last > w[1] THEN last ELSE w[1]
           /\ Len(w) > 1 => OffsetToStore(q, w[1]) = w[2] - 1
<1>1. Len(w) \in Nat \ {0} /\ w[1] \in lo..hi
  BY TailCases
<1>t. /\ Len(w) = 1 => Tail(w) = <<>>
      /\ Len(w) > 1 => Tail(w) # <<>> /\ Head(Tail(w)) = w[2]
  BY TailCases
<1>q. q.waiting_list = w /\ q.last_offset = last
  OBVIOUS
<1>2. Len(w) = 1 => OffsetToStore(q, w[1]) = IF last > w[1] THEN last ELSE w[1]
  BY <1>t, <1>q, Zenon DEF OffsetToStore
<1>3. Len(w) > 1 => OffsetToStore(q, w[1]) = w[2] - 1 /\ w[2] \in lo..hi
  <2>1. Len(w) > 1 => OffsetToStore(q, w[1]) = w[2] - 1
    BY <1>t, <1>q, Zenon DEF OffsetToStore
  <2>2. Len(w) > 1 => 2 \in 1..Len(w)
    BY <1>1
  <2>3. \A i \in 1..Len(w) : w[i] \in lo..hi
    OBVIOUS
  <2> QED  BY <2>1, <2>2, <2>3
<1>4. Len(w) = 1 \/ Len(w) > 1
  <2>1. \A n \in Nat \ {0} : n = 1 \/ n > 1
    OBVIOUS
  <2> QED  BY <1>1, <2>1
<1>5. OffsetToStore(q, w[1]) \in (lo - 1)..hi
  <2> DEFINE f == w[1]
             g == w[2]
  <2>1. CASE Len(w) = 1
    <3> HIDE DEF f
    <3>1. f \in lo..hi /\ OffsetToStore(q, f) = IF last > f THEN last ELSE f
      BY <1>1, <1>2, <2>1 DEF f
    <3>2. OffsetToStore(q, f) \in (lo - 1)..hi
      BY <3>1
    <3> QED  BY <3>2 DEF f
  <2>2. CASE Len(w) > 1
    <3> HIDE DEF g
    <3>1. g \in lo..hi /\ OffsetToStore(q, w[1]) = g - 1
      BY <1>3, <2>2 DEF g
    <3> QED  BY <3>1
  <2> QED  BY <1>4, <2>1, <2>2
<1> QED  BY <1>2, <1>3, <1>5

\* What is stored after ack().
StoredAfter(q, e, sto) == IF AckStores(q, e) THEN OffsetToStore(q, e) ELSE sto

\* The offsets of a partition: from 0 to some last one.
IsLog(O) == \E N \in Int : O = 0..N

AckQueues(O) == [waiting_list : Seq(O), last_offset : O]

\* The invariant of a queue, and what it says of the offsets below b.
QueueInv(O, q, A, pos, sto, com) ==
    PartitionInv(O, q.waiting_list, q.last_offset, A, pos, sto, com)
AllBelow(O, b, A) == \A o \in O : o < b => o \in A

\* ack() of an offset that waits: the queue it leaves, and the offset that is
\* stored after it.
LEMMA QueueAckTypes ==
    ASSUME NEW O, NEW q \in AckQueues(O), NEW e, IsLog(O), AckReturns(q, e)
    PROVE  /\ e \in O
           /\ \E i \in 1..Len(q.waiting_list) : q.waiting_list[i] = e
           /\ QueueAck(q, e) \in AckQueues(O)
           /\ QueueAck(q, e).waiting_list = RemoveFirst(q.waiting_list, e)
           /\ QueueAck(q, e).last_offset = q.last_offset
           /\ AckStores(q, e) => OffsetToStore(q, e) \in O \cup {-1}
<1>i. PICK N \in Int : O = 0..N
  BY DEF IsLog
<1> DEFINE w == q.waiting_list
           last == q.last_offset
<1>0. w \in Seq(O) /\ last \in O /\ q = [waiting_list |-> w, last_offset |-> last]
  BY DEF AckQueues
<1>1. \E i \in 1..Len(w) : w[i] = e
  BY DEF AckReturns
<1> HIDE DEF w, last
<1>2. e \in O /\ w # <<>>
  BY <1>0, <1>1
<1>3. QueueAck(q, e) = [waiting_list |-> RemoveFirst(w, e), last_offset |-> last]
  BY <1>0 DEF QueueAck
<1>4. RemoveFirst(w, e) \in Seq(O)
  <2>1. PICK k \in 1..Len(w) : RemoveFirst(w, e) = RemoveAt(w, k)
    BY <1>0, <1>1, RemoveFirstEntry
  <2> QED  BY <1>0, <2>1, RemoveAtProperties
<1>5. ASSUME AckStores(q, e) PROVE OffsetToStore(q, e) \in O \cup {-1}
  <2>1. w[1] = e
    BY <1>0, <1>2, <1>5, TailCases DEF AckStores
  <2>2. OffsetToStore(q, w[1]) \in (0 - 1)..N
    <3>1. 0 \in Int /\ last \in Int /\ last <= N /\ w \in Seq(0..N)
      BY <1>i, <1>0
    <3> QED  BY <3>1, <1>0, <1>2, StoredBounds
  <2> QED  BY <1>i, <2>1, <2>2
<1>6. QueueAck(q, e) \in AckQueues(O)
  BY <1>0, <1>3, <1>4 DEF AckQueues
<1> QED  BY <1>1, <1>2, <1>3, <1>5, <1>6 DEF w, last

\* ... which is last_offset at least when nothing waits any more.
LEMMA QueueAckLast ==
    ASSUME NEW O, NEW q \in AckQueues(O), NEW sto, NEW e, IsLog(O), AckReturns(q, e),
           QueueAck(q, e).waiting_list = <<>>
    PROVE  StoredAfter(q, e, sto) >= q.last_offset
<1> DEFINE w == q.waiting_list
<1>0. w \in Seq(O) /\ q.last_offset \in Int /\ e \in Int
      /\ \E i \in 1..Len(w) : w[i] = e
      /\ RemoveFirst(w, e) = <<>>
  BY QueueAckTypes DEF AckQueues, IsLog
<1> HIDE DEF w
<1>1. Len(w) = 1
  <2>1. PICK k \in 1..Len(w) : RemoveFirst(w, e) = RemoveAt(w, k)
    BY <1>0, RemoveFirstEntry
  <2>2. Len(RemoveAt(w, k)) = Len(w) - 1
    BY <1>0, RemoveAtProperties
  <2> QED  BY <1>0, <2>1, <2>2
<1>2. Head(w) = e /\ Tail(w) = <<>>
  <2>1. w # <<>>
    BY <1>1
  <2>2. w[1] = e
    <3>1. PICK i \in 1..Len(w) : w[i] = e
      BY <1>0
    <3>2. i = 1
      BY <1>1
    <3> QED  BY <3>1, <3>2
  <2>3. Head(w) = w[1] /\ Tail(w) = <<>>
    BY <1>0, <1>1, <2>1, TailCases
  <2> QED  BY <2>2, <2>3
<1>3. AckStores(q, e)
  BY <1>2 DEF AckStores, w
<1>4. OffsetToStore(q, e) = IF q.last_offset > e THEN q.last_offset ELSE e
  BY <1>2 DEF OffsetToStore, w
<1> QED  BY <1>0, <1>3, <1>4 DEF StoredAfter

\* ... and the invariant it keeps.
LEMMA QueueAckInv ==
    ASSUME NEW O, NEW q \in AckQueues(O), NEW A, NEW pos \in Int, NEW sto \in Int,
           NEW com \in Int, NEW e,
           IsLog(O), QueueInv(O, q, A, pos, sto, com), AckReturns(q, e)
    PROVE  QueueInv(O, QueueAck(q, e), A \cup {e}, pos, StoredAfter(q, e, sto), com)
<1> DEFINE w == q.waiting_list
           last == q.last_offset
           s2 == StoredAfter(q, e, sto)
<1>i. O \in SUBSET Int /\ -1 \in Int
  BY DEF IsLog
<1>0. /\ w \in Seq(O) /\ last \in Int
      /\ q = [waiting_list |-> w, last_offset |-> last]
      /\ PartitionInv(O, w, last, A, pos, sto, com)
  BY <1>i DEF AckQueues, QueueInv
<1>1. /\ \E i \in 1..Len(w) : w[i] = e
      /\ e \in O
      /\ QueueAck(q, e).waiting_list = RemoveFirst(w, e)
      /\ QueueAck(q, e).last_offset = last
      /\ AckStores(q, e) => OffsetToStore(q, e) \in O \cup {-1}
  BY QueueAckTypes
<1>t. s2 \in Int
  BY <1>i, <1>1 DEF StoredAfter
<1> HIDE DEF w, last, s2
<1>2. w # <<>>
  BY <1>0, <1>1
<1>3. CoveredBelow(O, s2 + 1, w, 0, A \cup {e})
  <2>1. CASE AckStores(q, e)
    <3>1. w[1] = e
      BY <1>0, <1>2, <2>1, TailCases DEF AckStores
    <3>2. s2 = OffsetToStore(q, w[1])
      BY <2>1, <3>1 DEF StoredAfter, s2
    <3>3. CoveredBelow(O, OffsetToStore(q, w[1]) + 1, w, 0, A \cup {w[1]})
      BY <1>i, <1>0, <1>2, StoredIsCovered
    <3> QED  BY <3>1, <3>2, <3>3
  <2>2. CASE ~ AckStores(q, e)
    <3>1. s2 = sto
      BY <2>2 DEF StoredAfter, s2
    <3> QED  BY <3>1, <1>0 DEF PartitionInv, CoveredBelow
  <2> QED  BY <2>1, <2>2
<1>4. PartitionInv(O, RemoveFirst(w, e), last, A \cup {e}, pos, s2, com)
  BY <1>i, <1>0, <1>1, <1>t, <1>3, AckPreserves
<1> QED  BY <1>1, <1>4 DEF QueueInv, s2

\* add() of the next offset.
LEMMA QueueAddInv ==
    ASSUME NEW O \in SUBSET Int, NEW q \in AckQueues(O), NEW A, NEW pos \in O,
           NEW sto \in Int, NEW com \in Int, QueueInv(O, q, A, pos, sto, com)
    PROVE  /\ QueueAdd(q, pos) \in AckQueues(O)
           /\ QueueInv(O, QueueAdd(q, pos), A, pos + 1, sto, com)
<1>1. q.waiting_list \in Seq(O) /\ q.last_offset \in Int
  BY DEF AckQueues
<1>2. Append(q.waiting_list, pos) \in Seq(O)
  BY <1>1
<1>3. PartitionInv(O, Append(q.waiting_list, pos), pos, A, pos + 1, sto, com)
  BY <1>1, AddPreserves DEF QueueInv
<1>4. /\ QueueAdd(q, pos) \in AckQueues(O)
      /\ QueueAdd(q, pos).waiting_list = Append(q.waiting_list, pos)
      /\ QueueAdd(q, pos).last_offset = pos
  BY <1>2 DEF QueueAdd, AckQueues
<1> QED  BY <1>3, <1>4 DEF QueueInv

\* An empty queue asks nothing: what is below the committed offset suffices.
LEMMA NewQueueInv ==
    ASSUME NEW O \in SUBSET Nat, NEW A, NEW com \in Int, AllBelow(O, com, A)
    PROVE  QueueInv(O, NewQueue, A, com, -1, com)
BY DEF QueueInv, PartitionInv, EntriesCovered, CoveredBelow, AllBelow, NewQueue

\* What the invariant says of the two offsets a restart may resume from.
LEMMA QueueInvBelow ==
    ASSUME NEW O, NEW q, NEW A, NEW pos, NEW sto, NEW com,
           QueueInv(O, q, A, pos, sto, com)
    PROVE  AllBelow(O, sto + 1, A) /\ AllBelow(O, com, A)
BY DEF QueueInv, PartitionInv, CoveredBelow, AllBelow

\* A commit: the committed offset may be any whose predecessors are covered, and
\* the stream may be moved back to one.
LEMMA QueueInvMoves ==
    ASSUME NEW O, NEW q, NEW A, NEW pos, NEW sto, NEW com,
           NEW p2, NEW s2, NEW c2,
           QueueInv(O, q, A, pos, sto, com),
           p2 = pos \/ AllBelow(O, p2, A), AllBelow(O, s2 + 1, A), AllBelow(O, c2, A)
    PROVE  QueueInv(O, q, A, p2, s2, c2)
BY DEF QueueInv, PartitionInv, CoveredBelow, AllBelow

\* More acknowledgements than the invariant asks for do no harm.
LEMMA QueueInvMono ==
    ASSUME NEW O, NEW q, NEW A, NEW B, NEW pos, NEW sto, NEW com,
           QueueInv(O, q, A, pos, sto, com), A \subseteq B
    PROVE  QueueInv(O, q, B, pos, sto, com)
BY DEF QueueInv, PartitionInv, EntriesCovered, CoveredBelow

\* A queue whose offsets were read once, in their order: the entries increase,
\* lie above what was stored, and the stream is past all of them.
Ordered(w, last, sto, pos) ==
    /\ \A i, j \in 1..Len(w) : i < j => w[i] < w[j]
    /\ \A i \in 1..Len(w) : sto < w[i] /\ w[i] < pos
    /\ sto < pos
    /\ w # <<>> => last < pos

\* add() keeps the order, the stream being past all entries.
LEMMA OrderedAdd ==
    ASSUME NEW w \in Seq(Int), NEW last \in Int, NEW sto \in Int, NEW pos \in Int,
           Ordered(w, last, sto, pos)
    PROVE  Ordered(Append(w, pos), pos, sto, pos + 1)
<1> DEFINE v == Append(w, pos)
           n == Len(w)
<1>1. /\ Len(v) = n + 1 /\ n \in Nat
      /\ v[n + 1] = pos
      /\ \A i \in 1..n : v[i] = w[i] /\ w[i] \in Int
  OBVIOUS
<1> HIDE DEF v, n
<1>2. /\ \A i, j \in 1..n : i < j => w[i] < w[j]
      /\ \A i \in 1..n : sto < w[i] /\ w[i] < pos
      /\ sto < pos
  BY DEF Ordered, n
<1>3. \A i \in 1..(n + 1) : i \in 1..n \/ i = n + 1
  BY <1>1
<1>4. \A i \in 1..(n + 1) : sto < v[i] /\ v[i] < pos + 1
  <2> TAKE i \in 1..(n + 1)
  <2>1. CASE i \in 1..n
    BY <1>1, <1>2, <2>1
  <2>2. CASE i = n + 1
    BY <1>1, <1>2, <2>2
  <2> QED  BY <1>3, <2>1, <2>2
<1>5. ASSUME NEW i \in 1..(n + 1), NEW j \in 1..(n + 1), i < j PROVE v[i] < v[j]
  <2>1. i \in 1..n
    BY <1>1, <1>5
  <2> QED  BY <1>1, <1>2, <1>3, <1>5, <2>1
<1>6. sto < pos + 1 /\ pos < pos + 1
  BY <1>2
<1> QED  BY <1>1, <1>4, <1>5, <1>6 DEF Ordered, v

\* ack() keeps the order and never stores less than before.
LEMMA OrderedAck ==
    ASSUME NEW w \in Seq(Int), NEW last \in Int, NEW sto \in Int, NEW pos \in Int,
           NEW q, NEW e,
           Ordered(w, last, sto, pos),
           q = [waiting_list |-> w, last_offset |-> last],
           AckReturns(q, e)
    PROVE  /\ StoredAfter(q, e, sto) \in Int /\ StoredAfter(q, e, sto) >= sto
           /\ AckStores(q, e) => StoredAfter(q, e, sto) > sto
           /\ Ordered(RemoveFirst(w, e), last, StoredAfter(q, e, sto), pos)
<1> DEFINE v == RemoveFirst(w, e)
           n == Len(w)
           s2 == StoredAfter(q, e, sto)
<1>s. s2 = IF AckStores(q, e) THEN OffsetToStore(q, e) ELSE sto
  BY DEF StoredAfter
<1> HIDE DEF s2
<1>1. PICK k \in 1..n : /\ w[k] = e /\ \A i \in 1..(k - 1) : w[i] # e
                        /\ v = RemoveAt(w, k)
  <2>1. \E i \in 1..Len(w) : w[i] = e
    BY DEF AckReturns
  <2> QED  BY <2>1, RemoveFirstEntry
<1>2. /\ v \in Seq(Int) /\ Len(v) = n - 1
      /\ \A j \in 1..(n - 1) : v[j] = IF j < k THEN w[j] ELSE w[j + 1]
  <2> HIDE DEF v
  <2> QED  BY <1>1, RemoveAtProperties
<1>3. n \in Nat /\ w # <<>> /\ \A i \in 1..n : w[i] \in Int
  BY <1>1
<1> HIDE DEF v, n
<1>4. /\ \A i, j \in 1..n : i < j => w[i] < w[j]
      /\ \A i \in 1..n : sto < w[i] /\ w[i] < pos
      /\ sto < pos /\ last < pos
  BY <1>3 DEF Ordered, n
<1>5. AckStores(q, e) <=> k = 1
  <2>1. AckStores(q, e) <=> w[1] = e
    BY <1>3, TailCases DEF AckStores
  <2>2. w[1] = e => k = 1
    BY <1>1
  <2> QED  BY <1>1, <2>1, <2>2
<1>6. /\ s2 \in Int /\ s2 >= sto /\ s2 < pos
      /\ AckStores(q, e) => s2 > sto
      /\ \A i \in 1..n : i # k => s2 < w[i]
  <2>1. CASE ~ AckStores(q, e)
    BY <1>s, <1>3, <1>4, <2>1
  <2>2. CASE AckStores(q, e)
    <3>0. s2 = OffsetToStore(q, w[1]) /\ k = 1 /\ w[1] = e
      BY <1>s, <1>1, <1>5, <2>2
    <3>1. CASE n = 1
      <4>1. s2 = IF last > w[1] THEN last ELSE w[1]
        BY <1>3, <3>0, <3>1, TailCases DEF OffsetToStore, n
      <4>2. w[1] \in Int /\ sto < w[1] /\ w[1] < pos
        BY <1>3, <1>4, <3>1
      <4>3. s2 \in Int /\ s2 > sto /\ s2 < pos
        BY <4>1, <4>2, <1>4
      <4> QED  BY <3>0, <3>1, <4>3
    <3>2. CASE n > 1
      <4>1. s2 = w[2] - 1
        BY <1>3, <3>0, <3>2, TailCases DEF OffsetToStore, n
      <4>2. w[1] \in Int /\ w[2] \in Int /\ sto < w[1] /\ w[1] < w[2] /\ w[2] < pos
        BY <1>3, <1>4, <3>2
      <4>3. \A i \in 1..n : i # 1 => i = 2 \/ 2 < i
        BY <1>3
      <4>4. \A i \in 1..n : i # 1 => w[i] \in Int /\ (i = 2 \/ w[2] < w[i])
        BY <1>3, <1>4, <3>2, <4>3
      <4>5. \A i \in 1..n : i # 1 => s2 < w[i]
        BY <4>1, <4>2, <4>4
      <4> QED  BY <3>0, <4>1, <4>2, <4>5
    <3> QED  BY <1>1, <1>3, <3>1, <3>2
  <2> QED  BY <2>1, <2>2
<1>7. \A j \in 1..(n - 1) : s2 < v[j] /\ v[j] < pos
  <2> TAKE j \in 1..(n - 1)
  <2>1. j \in 1..n /\ j + 1 \in 1..n /\ (j < k => j # k) /\ (~ (j < k) => j + 1 # k)
    BY <1>1, <1>3
  <2> QED  BY <1>2, <1>4, <1>6, <2>1
<1>8. ASSUME NEW i \in 1..(n - 1), NEW j \in 1..(n - 1), i < j PROVE v[i] < v[j]
  <2> DEFINE a == IF i < k THEN i ELSE i + 1
             b == IF j < k THEN j ELSE j + 1
  <2>1. v[i] = w[a] /\ v[j] = w[b]
    BY <1>2
  <2>2. a \in 1..n /\ b \in 1..n /\ a < b
    BY <1>1, <1>3, <1>8
  <2> HIDE DEF a, b
  <2> QED  BY <1>4, <2>1, <2>2
<1> QED  BY <1>2, <1>4, <1>6, <1>7, <1>8 DEF Ordered, v, s2

\* The same for a queue as a whole.
QueueOrdered(q, sto, pos) == Ordered(q.waiting_list, q.last_offset, sto, pos)

\* Offsets are integers.
LEMMA QueueOfInts ==
    ASSUME NEW O \in SUBSET Int, NEW q \in AckQueues(O)
    PROVE  q.waiting_list \in Seq(Int) /\ q.last_offset \in Int
<1>1. q.waiting_list \in Seq(O) /\ q.last_offset \in O
  BY DEF AckQueues
<1> DEFINE w == q.waiting_list
<1> HIDE DEF w
<1>2. w \in Seq(O)
  BY <1>1 DEF w
<1>3. w \in Seq(Int)
  <2>1. Len(w) \in Nat /\ w \in [1..Len(w) -> O]
    BY <1>2, LenProperties
  <2>2. w \in [1..Len(w) -> Int]
    BY <2>1
  <2> QED  BY <2>1, <2>2, SeqDef
<1> QED  BY <1>1, <1>3 DEF w

\* A queue of one log is a queue of integers.
LEMMA AckQueuesMono ==
    ASSUME NEW O \in SUBSET Int, NEW q \in AckQueues(O)
    PROVE  q \in AckQueues(Int)
<1>1. q.waiting_list \in Seq(Int) /\ q.last_offset \in Int
  BY QueueOfInts
<1>2. q = [waiting_list |-> q.waiting_list, last_offset |-> q.last_offset]
  BY DEF AckQueues
<1> QED  BY <1>1, <1>2 DEF AckQueues

\* add() and ack() of a queue that is in order.
LEMMA QueueOrderedAdd ==
    ASSUME NEW O \in SUBSET Int, NEW q \in AckQueues(O), NEW sto \in Int, NEW pos \in Int,
           QueueOrdered(q, sto, pos)
    PROVE  QueueOrdered(QueueAdd(q, pos), sto, pos + 1)
<1>1. q.waiting_list \in Seq(Int) /\ q.last_offset \in Int
  BY QueueOfInts
<1>2. Ordered(Append(q.waiting_list, pos), pos, sto, pos + 1)
  BY <1>1, OrderedAdd DEF QueueOrdered
<1> QED  BY <1>2 DEF QueueOrdered, QueueAdd

\* The stored offset never goes back.
LEMMA QueueOrderedAck ==
    ASSUME NEW O, NEW q \in AckQueues(O), NEW sto \in Int, NEW pos \in Int, NEW e,
           IsLog(O), QueueOrdered(q, sto, pos), AckReturns(q, e)
    PROVE  /\ StoredAfter(q, e, sto) \in Int /\ StoredAfter(q, e, sto) >= sto
           /\ AckStores(q, e) => StoredAfter(q, e, sto) > sto
           /\ QueueOrdered(QueueAck(q, e), StoredAfter(q, e, sto), pos)
<1> DEFINE w == q.waiting_list
           last == q.last_offset
<1>0. O \in SUBSET Int
  BY DEF IsLog
<1>1. w \in Seq(Int) /\ last \in Int /\ q = [waiting_list |-> w, last_offset |-> last]
  BY <1>0, QueueOfInts DEF AckQueues
<1>2. Ordered(w, last, sto, pos)
  BY DEF QueueOrdered
<1>3. /\ QueueAck(q, e).waiting_list = RemoveFirst(w, e)
      /\ QueueAck(q, e).last_offset = last
  BY QueueAckTypes
<1> HIDE DEF w, last
<1>4. /\ StoredAfter(q, e, sto) \in Int /\ StoredAfter(q, e, sto) >= sto
      /\ AckStores(q, e) => StoredAfter(q, e, sto) > sto
      /\ Ordered(RemoveFirst(w, e), last, StoredAfter(q, e, sto), pos)
  BY <1>1, <1>2, OrderedAck
<1> QED  BY <1>3, <1>4 DEF QueueOrdered

\* What waits after ack() waited before it, and is not what was acknowledged.
LEMMA QueueAckEntries ==
    ASSUME NEW O, NEW q \in AckQueues(O), NEW sto, NEW pos, NEW e,
           IsLog(O), QueueOrdered(q, sto, pos), AckReturns(q, e),
           NEW i \in 1..Len(QueueAck(q, e).waiting_list)
    PROVE  \E j \in 1..Len(q.waiting_list) :
              /\ QueueAck(q, e).waiting_list[i] = q.waiting_list[j]
              /\ q.waiting_list[j] # e
<1> DEFINE w == q.waiting_list
           v == QueueAck(q, e).waiting_list
           n == Len(w)
<1>0. O \in SUBSET Int
  BY DEF IsLog
<1>1. w \in Seq(Int) /\ v = RemoveFirst(w, e)
  BY <1>0, QueueOfInts, QueueAckTypes
<1>2. \A a, b \in 1..n : a < b => w[a] < w[b]
  BY DEF QueueOrdered, Ordered
<1>3. \E a \in 1..Len(w) : w[a] = e
  BY DEF AckReturns
<1>i. i \in 1..Len(v)
  OBVIOUS
<1> HIDE DEF w, v
<1>4. PICK k \in 1..n : w[k] = e /\ v = RemoveAt(w, k)
  BY <1>1, <1>3, RemoveFirstEntry
<1>5. n \in Nat /\ \A a \in 1..n : w[a] \in Int
  BY <1>1
<1>6. /\ Len(v) = n - 1
      /\ \A a \in 1..(n - 1) : v[a] = IF a < k THEN w[a] ELSE w[a + 1]
  BY <1>1, <1>4, RemoveAtProperties
<1> HIDE DEF n
<1> DEFINE j == IF i < k THEN i ELSE i + 1
<1>7. v[i] = w[j]
  BY <1>i, <1>6
<1>8. j \in 1..n /\ (j < k \/ k < j)
  BY <1>i, <1>4, <1>5, <1>6
<1> HIDE DEF j
<1>9. w[j] # e
  BY <1>2, <1>4, <1>5, <1>8
<1> QED  BY <1>7, <1>8, <1>9 DEF w, v, n

\* The lower bound of an ordered queue may be lowered.
LEMMA QueueOrderedLower ==
    ASSUME NEW O \in SUBSET Int, NEW q \in AckQueues(O), NEW sto \in Int, NEW low \in Int,
           NEW pos \in Int, low <= sto, QueueOrdered(q, sto, pos)
    PROVE  QueueOrdered(q, low, pos)
<1>1. q.waiting_list \in Seq(Int)
  BY QueueOfInts
<1>2. \A i \in 1..Len(q.waiting_list) : q.waiting_list[i] \in Int
  BY <1>1
<1> QED  BY <1>2 DEF QueueOrdered, Ordered

\* The places at which o waits.
Places(w, o) == {i \in 1..Len(w) : w[i] = o}

\* There are finitely many of them.
LEMMA PlacesFinite ==
    ASSUME NEW T, NEW w \in Seq(T), NEW o
    PROVE  IsFiniteSet(Places(w, o)) /\ Cardinality(Places(w, o)) \in Nat
<1>1. IsFiniteSet(1..Len(w))
  BY FS_Interval
<1>2. Places(w, o) \in SUBSET (1..Len(w))
  BY DEF Places
<1>3. IsFiniteSet(Places(w, o))
  BY <1>1, <1>2, FS_Subset
<1> QED  BY <1>3, FS_CardinalityType

\* add() gives the offset one more place.
LEMMA PlacesAdd ==
    ASSUME NEW T, NEW w \in Seq(T), NEW x \in T, NEW o
    PROVE  Cardinality(Places(Append(w, x), o))
             = Cardinality(Places(w, o)) + (IF o = x THEN 1 ELSE 0)
<1> DEFINE n == Len(w)
           v == Append(w, x)
<1>1. n \in Nat /\ Len(v) = n + 1 /\ v[n + 1] = x /\ \A i \in 1..n : v[i] = w[i]
  OBVIOUS
<1>2. IsFiniteSet(Places(w, o)) /\ Cardinality(Places(w, o)) \in Nat
  BY PlacesFinite
<1> HIDE DEF v, n
<1>3. n + 1 \notin Places(w, o)
  BY <1>1 DEF Places, n
<1>4. \A i : i \in 1..(n + 1) <=> (i \in 1..n \/ i = n + 1)
  BY <1>1
<1>5. CASE o = x
  <2>1. Places(v, o) = Places(w, o) \cup {n + 1}
    BY <1>1, <1>4, <1>5 DEF Places, n
  <2> QED  BY <1>2, <1>3, <1>5, <2>1, FS_AddElement DEF v
<1>6. CASE o # x
  <2>1. Places(v, o) = Places(w, o)
    BY <1>1, <1>4, <1>6 DEF Places, n
  <2> QED  BY <1>2, <1>6, <2>1 DEF v
<1> QED  BY <1>5, <1>6

\* ack() takes one place of its offset away, and none of another.
LEMMA PlacesRemove ==
    ASSUME NEW T, NEW w \in Seq(T), NEW e, NEW o, \E i \in 1..Len(w) : w[i] = e
    PROVE  Cardinality(Places(RemoveFirst(w, e), o))
             >= Cardinality(Places(w, o)) - (IF o = e THEN 1 ELSE 0)
<1> DEFINE n == Len(w)
           v == RemoveFirst(w, e)
<1>1. PICK k \in 1..n : w[k] = e /\ v = RemoveAt(w, k)
  BY RemoveFirstEntry
<1>n. n \in Nat
  OBVIOUS
<1>2. /\ v \in Seq(T) /\ Len(v) = n - 1
      /\ \A j \in 1..(n - 1) : v[j] = IF j < k THEN w[j] ELSE w[j + 1]
  <2> HIDE DEF v
  <2> QED  BY <1>1, RemoveAtProperties
<1> HIDE DEF v, n
<1> DEFINE P == Places(w, o)
           R == P \ {k}
           Q == Places(v, o)
           f == [i \in R |-> IF i < k THEN i ELSE i - 1]
<1>3. /\ IsFiniteSet(P) /\ Cardinality(P) \in Nat
      /\ IsFiniteSet(Q) /\ Cardinality(Q) \in Nat
  BY <1>2, PlacesFinite
<1>4. k \in P <=> o = e
  BY <1>1 DEF Places, n
<1>5. f \in Injection(R, Q)
  <2>1. \A i \in R : i \in 1..n /\ i # k /\ w[i] = o
    BY DEF Places, n
  <2>2. ASSUME NEW i \in R PROVE f[i] \in Q
    <3>0. i \in 1..n /\ i # k /\ w[i] = o
      BY <2>1
    <3>1. CASE i < k
      <4>1. i \in 1..(n - 1) /\ f[i] = i
        BY <1>1, <1>n, <3>0, <3>1
      <4>2. v[i] = w[i]
        BY <1>2, <3>1, <4>1
      <4> QED  BY <1>2, <3>0, <4>1, <4>2 DEF Places
    <3>2. CASE i > k
      <4>1. i - 1 \in 1..(n - 1) /\ ~ (i - 1 < k) /\ (i - 1) + 1 = i /\ f[i] = i - 1
        BY <1>1, <1>n, <3>0, <3>2
      <4>2. v[i - 1] = w[i]
        BY <1>2, <4>1
      <4> QED  BY <1>2, <3>0, <4>1, <4>2 DEF Places
    <3> QED  BY <3>0, <3>1, <3>2
  <2>3. ASSUME NEW i \in R, NEW j \in R, f[i] = f[j] PROVE i = j
    <3>1. i \in Int /\ j \in Int /\ i # k /\ j # k /\ k \in Int
      BY <2>1
    <3>2. (IF i < k THEN i ELSE i - 1) = (IF j < k THEN j ELSE j - 1)
      BY <2>3
    <3> QED  BY <3>1, <3>2
  <2>4. f \in [R -> Q] /\ DOMAIN f = R
    BY <2>2
  <2> HIDE DEF f, R, Q
  <2> QED  BY <2>3, <2>4 DEF Injection, IsInjective
<1>6. /\ IsFiniteSet(R)
      /\ Cardinality(R) = IF k \in P THEN Cardinality(P) - 1 ELSE Cardinality(P)
  BY <1>3, FS_RemoveElement
<1>7. Cardinality(R) <= Cardinality(Q)
  <2> HIDE DEF f, R, Q
  <2> QED  BY <1>3, <1>5, FS_Injection
<1> HIDE DEF P, Q, R
<1>8. Cardinality(Q) >= Cardinality(P) - (IF o = e THEN 1 ELSE 0)
  BY <1>3, <1>4, <1>6, <1>7
<1> QED  BY <1>8 DEF P, Q, v
==============================================================================
