------------------------------ MODULE DataLemmas ------------------------------
(* Facts about numbers, sequences and functions that the proofs of several components
   need. *)
EXTENDS Integers, SequencesExt, SequenceTheorems, FiniteSetTheorems, WellFoundedInduction, TLAPS

\* A nonempty set of natural numbers has a least element: what an induction rests on,
\* the least counterexample of the claim being looked at.
LEMMA LeastNumber ==
  ASSUME NEW S \in SUBSET Nat, S # {}
  PROVE  \E n \in S : \A m \in S : n <= m
<1> DEFINE R == {p \in Nat \X Nat : p[1] < p[2]}
<1>1. IsWellFoundedOn(R, Nat)
  BY NatLessThanWellFounded DEF OpToRel
<1>2. PICK n \in S : \A m \in S : <<m, n>> \notin R
  BY <1>1, WFMin
<1>3. \A m \in S : m < n => <<m, n>> \in R
  OBVIOUS
<1>4. \A m \in S : ~(m < n)
  BY <1>2, <1>3
<1>5. \A m \in S : m \in Nat /\ n \in Nat
  OBVIOUS
<1>6. \A m \in S : n <= m
  BY ONLY <1>4, <1>5
<1> QED
  BY <1>6

LEMMA FunctionIsSeq ==
  ASSUME NEW S, NEW n \in Nat, NEW f \in [1..n -> S]
  PROVE  f \in Seq(S) /\ Len(f) = n
<1>1. f \in Seq(S)
  BY SeqDef
<1>2. Len(f) \in Nat /\ DOMAIN f = 1..Len(f)
  BY <1>1, LenProperties
<1> QED
  BY <1>1, <1>2

\* A part of a sequence, from one position to another.
LEMMA Slice ==
  ASSUME NEW S, NEW s \in Seq(S), NEW m \in Nat \ {0}, NEW n \in Nat, m <= n + 1, n <= Len(s)
  PROVE  /\ SubSeq(s, m, n) \in Seq(S) /\ Len(SubSeq(s, m, n)) = n + 1 - m
         /\ \A i \in 1..n + 1 - m : SubSeq(s, m, n)[i] = s[m + i - 1]
<1>1. m \in Int /\ n \in Int /\ n - m + 1 = n + 1 - m
  OBVIOUS
<1>2. \A i \in m..n : s[i] \in S
  OBVIOUS
<1>3. /\ SubSeq(s, m, n) \in Seq(S)
      /\ Len(SubSeq(s, m, n)) = IF m <= n THEN n - m + 1 ELSE 0
      /\ \A i \in 1..n - m + 1 : SubSeq(s, m, n)[i] = s[m + i - 1]
  BY <1>1, <1>2, SubSeqProperties
<1> QED
  BY <1>1, <1>3

LEMMA Concatenated ==
  ASSUME NEW S, NEW s \in Seq(S), NEW t \in Seq(S)
  PROVE  /\ s \o t \in Seq(S) /\ Len(s \o t) = Len(s) + Len(t)
         /\ \A i \in 1..Len(s) : (s \o t)[i] = s[i]
         /\ \A i \in 1..Len(t) : (s \o t)[Len(s) + i] = t[i]
         /\ \A i \in Len(s) + 1..Len(s) + Len(t) : (s \o t)[i] = t[i - Len(s)]
<1>1. Len(s) \in Nat /\ Len(t) \in Nat
  OBVIOUS
<1> QED
  BY <1>1, ConcatProperties
\* A sequence without its element i.
LEMMA TakenOut ==
  ASSUME NEW S, NEW s \in Seq(S), NEW i \in 1..Len(s)
  PROVE  /\ RemoveAt(s, i) \in Seq(S) /\ Len(RemoveAt(s, i)) = Len(s) - 1
         /\ \A j \in 1..Len(s) - 1 : RemoveAt(s, i)[j] = IF j < i THEN s[j] ELSE s[j + 1]
<1> DEFINE a == SubSeq(s, 1, i - 1)
           b == SubSeq(s, i + 1, Len(s))
<1>1. a \in Seq(S) /\ Len(a) = i - 1 /\ \A j \in 1..i - 1 : a[j] = s[j]
  BY SubSeqProperties
<1>2. b \in Seq(S) /\ Len(b) = Len(s) - i /\ \A j \in 1..Len(s) - i : b[j] = s[i + j]
  BY SubSeqProperties
<1> HIDE DEF a, b
<1>3. a \o b \in Seq(S) /\ Len(a \o b) = Len(s) - 1
  <2>1. a \o b \in Seq(S) /\ Len(a \o b) = Len(a) + Len(b)
    BY <1>1, <1>2, Concatenated
  <2> QED
    BY <2>1, <1>1, <1>2
<1>4. \A j \in 1..Len(s) - 1 : (a \o b)[j] = IF j < i THEN s[j] ELSE s[j + 1]
  BY <1>1, <1>2, Concatenated
<1> QED
  BY <1>3, <1>4 DEF RemoveAt, a, b

\* RemoveFirst takes an element away that is there.
LEMMA FirstAt ==
  ASSUME NEW S, NEW s \in Seq(S), NEW e, \E i \in 1..Len(s) : s[i] = e
  PROVE  \E k \in 1..Len(s) : s[k] = e /\ RemoveFirst(s, e) = RemoveAt(s, k)
<1> DEFINE I == {i \in 1..Len(s) : s[i] = e}
           k == Min(I)
<1>1. RemoveFirst(s, e) = RemoveAt(s, k)
  BY DEF RemoveFirst, SelectInSeq
<1>2. I \in SUBSET Nat /\ I # {}
  OBVIOUS
<1>3. \E n \in I : \A m \in I : n <= m
  BY <1>2, LeastNumber
<1>4. k \in I
  BY <1>3 DEF Min
<1> HIDE DEF k
<1> QED
  BY <1>1, <1>4

\* RemoveFirst takes one element e away and leaves the others.
LEMMA FirstRemoved ==
  ASSUME NEW S, NEW s \in Seq(S), NEW e
  PROVE  /\ RemoveFirst(s, e) \in Seq(S)
         /\ \A x \in ToSet(s) : x # e => x \in ToSet(RemoveFirst(s, e))
         /\ ToSet(RemoveFirst(s, e)) \subseteq ToSet(s)
         /\ e \notin ToSet(s) => RemoveFirst(s, e) = s
         /\ (\A i, j \in DOMAIN s : s[i] = e /\ s[j] = e => i = j) => e \notin ToSet(RemoveFirst(s, e))
<1>0. DOMAIN s = 1..Len(s) /\ Len(s) \in Nat
  OBVIOUS
<1>1. CASE ~\E i \in 1..Len(s) : s[i] = e
  <2>1. RemoveFirst(s, e) = s /\ e \notin ToSet(s)
    BY <1>0, <1>1 DEF RemoveFirst, ToSet
  <2> QED
    BY <2>1
<1>2. CASE \E i \in 1..Len(s) : s[i] = e
  <2>1. PICK k \in 1..Len(s) : s[k] = e /\ RemoveFirst(s, e) = RemoveAt(s, k)
    BY <1>2, FirstAt
  <2> DEFINE r == RemoveAt(s, k)
  <2>4. /\ r \in Seq(S) /\ Len(r) = Len(s) - 1
        /\ \A j \in 1..Len(s) - 1 : r[j] = IF j < k THEN s[j] ELSE s[j + 1]
    BY <2>1, TakenOut
  <2> HIDE DEF r
  <2>5. DOMAIN r = 1..Len(s) - 1
    BY <2>4
  <2>6. ASSUME NEW j \in DOMAIN r PROVE \E i \in DOMAIN s : i # k /\ r[j] = s[i]
    <3>1. r[j] = IF j < k THEN s[j] ELSE s[j + 1]
      BY <2>4, <2>5
    <3>2. j \in DOMAIN s /\ j + 1 \in DOMAIN s
      BY <1>0, <2>5
    <3>3. CASE j < k
      BY <3>1, <3>2, <3>3
    <3>4. CASE ~(j < k)
      <4>1. j + 1 # k
        BY <2>1, <2>5, <3>4
      <4> QED
        BY <3>1, <3>2, <3>4, <4>1
    <3> QED
      BY <3>3, <3>4
  <2>7. \A i \in DOMAIN s : i # k => \E j \in DOMAIN r : r[j] = s[i]
    <3> SUFFICES ASSUME NEW i \in DOMAIN s, i # k PROVE \E j \in DOMAIN r : r[j] = s[i]
      OBVIOUS
    <3>1. CASE i < k
      <4>1. i \in DOMAIN r /\ r[i] = s[i]
        BY <3>1, <2>1, <2>4, <2>5, <1>0
      <4> QED
        BY <4>1
    <3>2. CASE i > k
      <4>1. i - 1 \in DOMAIN r /\ r[i - 1] = s[i]
        BY <3>2, <2>1, <2>4, <2>5, <1>0
      <4> QED
        BY <4>1
    <3> QED
      BY <3>1, <3>2, <2>1, <1>0
  <2>8. \A x \in ToSet(s) : x # e => x \in ToSet(r)
    BY <2>1, <2>7 DEF ToSet
  <2>9. ToSet(r) \subseteq ToSet(s)
    BY <2>6 DEF ToSet
  <2>10. (\A i, j \in DOMAIN s : s[i] = e /\ s[j] = e => i = j) => e \notin ToSet(r)
    BY <2>1, <2>6, <1>0 DEF ToSet
  <2>11. e \in ToSet(s)
    BY <2>1, <1>0 DEF ToSet
  <2> QED
    BY <2>1, <2>4, <2>8, <2>9, <2>10, <2>11 DEF r
<1> QED
  BY <1>1, <1>2

\* An upper bound that is in the set is its maximum.
LEMMA GreatestIsMax ==
  ASSUME NEW S \in SUBSET Int, NEW n \in S, \A m \in S : m <= n
  PROVE  Max(S) = n
<1>1. Max(S) \in S /\ \A m \in S : Max(S) >= m
  BY DEF Max
<1>2. Max(S) \in Int /\ n \in Int /\ Max(S) >= n /\ Max(S) <= n
  BY <1>1
<1> QED
  BY ONLY <1>2

\* A sequence with one more element.
LEMMA Appended ==
  ASSUME NEW S, NEW s \in Seq(S), NEW e \in S
  PROVE  /\ Append(s, e) \in Seq(S) /\ ToSet(Append(s, e)) = ToSet(s) \union {e}
         /\ Len(Append(s, e)) = Len(s) + 1 /\ Append(s, e)[Len(s) + 1] = e
         /\ \A i \in 1..Len(s) : Append(s, e)[i] = s[i]
<1> DEFINE r == Append(s, e)
<1>1. /\ r \in Seq(S) /\ Len(r) = Len(s) + 1 /\ r[Len(s) + 1] = e /\ Len(s) \in Nat
      /\ \A i \in 1..Len(s) : r[i] = s[i]
  OBVIOUS
<1> HIDE DEF r
<1>2. DOMAIN r = 1..Len(s) + 1 /\ DOMAIN s = 1..Len(s)
  BY <1>1
<1>3. ToSet(r) = ToSet(s) \union {e}
  BY <1>1, <1>2 DEF ToSet
<1> QED
  BY <1>1, <1>3 DEF r

LEMMA AppendInside ==
  ASSUME NEW S, NEW s \in Seq(S), NEW t \in Seq(S), NEW e \in S
  PROVE  s \o Append(t, e) = Append(s \o t, e)
<1>1. Append(t, e) = t \o <<e>> /\ <<e>> \in Seq(S) /\ s \o t \in Seq(S)
  BY AppendIsConcat, ConcatProperties
<1>2. s \o (t \o <<e>>) = (s \o t) \o <<e>>
  BY <1>1, ConcatAssociative
<1>3. Append(s \o t, e) = (s \o t) \o <<e>>
  BY <1>1, AppendIsConcat
<1> QED
  BY <1>1, <1>2, <1>3

\* The elements of a finite set, put in some order.
LEMMA SetInOrder ==
  ASSUME NEW S, IsFiniteSet(S)
  PROVE  SetToSeq(S) \in Seq(S) /\ ToSet(SetToSeq(S)) = S
<1> DEFINE n == Cardinality(S)
           f == SetToSeq(S)
<1>1. n \in Nat /\ ExistsBijection(1..n, S)
  BY FS_CardinalityType
<1>2. \E g \in [1..n -> S] : IsInjective(g)
  BY <1>1 DEF ExistsBijection, Bijection, Injection
<1>3. f \in [1..n -> S] /\ IsInjective(f)
  BY <1>2 DEF SetToSeq
<1> HIDE DEF f
<1>4. Cardinality(1..n) = n
  BY <1>1, FS_Interval
<1>5. f \in Surjection(1..n, S)
  BY <1>3, <1>4, FS_Injection DEF Injection
<1>6. f \in Seq(S) /\ DOMAIN f = 1..n
  BY <1>1, <1>3, FunctionIsSeq
<1>7. \A x \in S : \E i \in 1..n : f[i] = x
  BY <1>5 DEF Surjection
<1>8. ToSet(f) = S
  BY <1>3, <1>6, <1>7 DEF ToSet
<1> QED
  BY <1>6, <1>8 DEF f

\* Function g is b at 0 and at k what F[k] makes of the value before ...
Along(g, S, n, b, F) ==
  g \in [0..n -> S] /\ g[0] = b /\ \A k \in 1..n : g[k] = F[k][g[k - 1]]

\* ... and there always is one.
LEMMA Recursion ==
  ASSUME NEW S, NEW b, NEW n, NEW F, b \in S, n \in Nat, F \in [1..n -> [S -> S]]
  PROVE  \E g : Along(g, S, n, b, F)
<1> DEFINE Has(m) == \E g \in [0..m -> S] : g[0] = b /\ \A k \in 1..m : g[k] = F[k][g[k - 1]]
           Bad == {m \in 0..n : ~Has(m)}
<1>1. Has(0)
  <2> DEFINE g == [k \in 0..0 |-> b]
  <2>1. g \in [0..0 -> S] /\ g[0] = b
    OBVIOUS
  <2>2. 1..0 = {}
    OBVIOUS
  <2> HIDE DEF g
  <2> QED
    BY <2>1, <2>2
<1>2. ASSUME NEW m \in 1..n, Has(m - 1) PROVE Has(m)
  <2>1. PICK g \in [0..m - 1 -> S] : g[0] = b /\ \A k \in 1..m - 1 : g[k] = F[k][g[k - 1]]
    BY <1>2
  <2> DEFINE h == [k \in 0..m |-> IF k = m THEN F[m][g[m - 1]] ELSE g[k]]
  <2>2. g[m - 1] \in S /\ F[m][g[m - 1]] \in S
    BY <2>1
  <2>3. h \in [0..m -> S]
    BY <2>1, <2>2
  <2>4. h[0] = b
    BY <2>1
  <2>5. ASSUME NEW k \in 1..m PROVE h[k] = F[k][h[k - 1]]
    <3>1. k - 1 \in 0..m /\ k - 1 # m /\ h[k - 1] = g[k - 1]
      OBVIOUS
    <3>2. CASE k = m
      BY <3>1, <3>2
    <3>3. CASE k # m
      BY <2>1, <3>1, <3>3
    <3> QED
      BY <3>2, <3>3
  <2> HIDE DEF h
  <2> QED
    BY <2>3, <2>4, <2>5
<1> HIDE DEF Has
<1>3. Bad = {}
  <2> SUFFICES ASSUME Bad # {} PROVE FALSE
    OBVIOUS
  <2>1. Bad \in SUBSET Nat
    OBVIOUS
  <2>2. PICK m \in Bad : \A l \in Bad : m <= l
    BY <2>1, LeastNumber
  <2>3. m \in 1..n /\ m - 1 \in 0..n /\ m - 1 \notin Bad
    BY <1>1, <2>2
  <2> QED
    BY <1>2, <2>2, <2>3
<1>4. Has(n)
  BY <1>3
<1> QED
  BY <1>4 DEF Has, Along

\* What is in S at 0, and stays in it from each number to the next, is in it along 0..n.
LEMMA StaysIn ==
  ASSUME NEW S, NEW n \in Nat, NEW g, g[0] \in S, \A k \in 1..n : g[k - 1] \in S => g[k] \in S
  PROVE  \A k \in 0..n : g[k] \in S
<1> DEFINE Bad == {k \in 0..n : g[k] \notin S}
<1>1. Bad = {}
  <2> SUFFICES ASSUME Bad # {} PROVE FALSE
    OBVIOUS
  <2>1. Bad \in SUBSET Nat
    OBVIOUS
  <2>2. PICK m \in Bad : \A l \in Bad : m <= l
    BY <2>1, LeastNumber
  <2>3. m \in 1..n /\ m - 1 \in 0..n /\ m - 1 \notin Bad
    BY <2>2
  <2> QED
    BY <2>2, <2>3
<1> QED
  BY <1>1

\* Induction over sequences: a set that has the empty one, and with each its longer
\* ones, has them all.
LEMMA ByAppending ==
  ASSUME NEW S, NEW T, <<>> \in T,
         \A f \in Seq(S), e \in S : f \in T => Append(f, e) \in T
  PROVE  Seq(S) \subseteq T
<1> DEFINE Bad == {n \in Nat : \E s \in Seq(S) : Len(s) = n /\ s \notin T}
<1>1. Bad = {}
  <2> SUFFICES ASSUME Bad # {} PROVE FALSE
    OBVIOUS
  <2>1. Bad \in SUBSET Nat
    OBVIOUS
  <2>2. PICK n \in Bad : \A m \in Bad : n <= m
    BY <2>1, LeastNumber
  <2>3. PICK s \in Seq(S) : Len(s) = n /\ s \notin T
    BY <2>2
  <2>4. s # <<>>
    BY <2>3
  <2>5. PICK f \in Seq(S), e \in S : s = Append(f, e)
    BY <2>4, SequenceEmptyOrAppend
  <2>6. f \notin T
    BY <2>3, <2>5
  <2>7. Len(f) \in Nat /\ n = Len(f) + 1
    BY <2>3, <2>5, AppendProperties
  <2>8. Len(f) \in Bad
    BY <2>6, <2>7
  <2>9. n <= Len(f)
    BY <2>2, <2>8
  <2> QED
    BY <2>7, <2>9
<1> QED
  BY <1>1

\* Counting up: a set that holds 0, and with each number the next one, holds all up to n.
LEMMA CountingUp ==
  ASSUME NEW n \in Nat, NEW T, 0 \in T, \A k \in 1..n : k - 1 \in T => k \in T
  PROVE  \A k \in 0..n : k \in T
<1> DEFINE g == [k \in 0..n |-> k]
<1>1. g[0] = 0 /\ \A k \in 1..n : g[k] = k /\ g[k - 1] = k - 1
  OBVIOUS
<1>2. \A k \in 0..n : g[k] \in T
  <2> HIDE DEF g
  <2> QED
    BY <1>1, StaysIn, SMTT(30)
<1> QED
  BY <1>2

\* One sequence after the other has what both have.
LEMMA JoinedSet ==
  ASSUME NEW S, NEW s \in Seq(S), NEW t \in Seq(S)
  PROVE  s \o t \in Seq(S) /\ ToSet(s \o t) = ToSet(s) \union ToSet(t)
<1> DEFINE r == s \o t
<1>1. /\ r \in Seq(S) /\ Len(r) = Len(s) + Len(t) /\ Len(s) \in Nat /\ Len(t) \in Nat
      /\ \A i \in 1..Len(s) : r[i] = s[i]
      /\ \A i \in 1..Len(t) : r[Len(s) + i] = t[i]
      /\ \A i \in Len(s) + 1..Len(s) + Len(t) : r[i] = t[i - Len(s)]
  BY Concatenated
<1> HIDE DEF r
<1>2. DOMAIN r = 1..Len(s) + Len(t) /\ DOMAIN s = 1..Len(s) /\ DOMAIN t = 1..Len(t)
  BY <1>1
<1>3. \A x \in ToSet(r) : x \in ToSet(s) \/ x \in ToSet(t)
  <2> SUFFICES ASSUME NEW i \in 1..Len(s) + Len(t) PROVE r[i] \in ToSet(s) \union ToSet(t)
    BY <1>2 DEF ToSet
  <2>1. CASE i <= Len(s)
    BY <1>1, <1>2, <2>1 DEF ToSet
  <2>2. CASE i > Len(s)
    <3>1. i - Len(s) \in 1..Len(t) /\ r[i] = t[i - Len(s)]
      BY <1>1, <2>2
    <3> QED
      BY <1>2, <3>1 DEF ToSet
  <2> QED
    BY <1>1, <2>1, <2>2
<1>4. \A x \in ToSet(s) : x \in ToSet(r)
  BY <1>1, <1>2 DEF ToSet
<1>5. \A x \in ToSet(t) : x \in ToSet(r)
  <2> SUFFICES ASSUME NEW i \in 1..Len(t) PROVE t[i] \in ToSet(r)
    BY <1>2 DEF ToSet
  <2>1. Len(s) + i \in DOMAIN r /\ r[Len(s) + i] = t[i]
    BY <1>1, <1>2
  <2> QED
    BY <2>1 DEF ToSet
<1> QED
  BY <1>1, <1>3, <1>4, <1>5 DEF r

\* FlattenSeq joins the sequences ss[1], ss[2], .. one after the other.
LEMMA JoinedUp ==
  ASSUME NEW S, NEW n \in Nat, NEW ss \in [1..n -> Seq(S)]
  PROVE  \E c \in [0..n -> Seq(S)] :
           /\ c[0] = <<>> /\ \A k \in 1..n : c[k] = c[k - 1] \o ss[k]
           /\ FlattenSeq(ss) = c[n]
<1> DEFINE Step(k, l) == l \o ss[k]
           F == [k \in 1..n |-> [l \in Seq(S) |-> Step(k, l)]]
           Joins(f) == f = [i \in 1..n |-> IF i = 1 THEN ss[i] ELSE f[i - 1] \o ss[i]]
<1>0. ss \in Seq(Seq(S)) /\ Len(ss) = n
  BY FunctionIsSeq
<1>1. \A k \in 1..n, l \in Seq(S) : Step(k, l) \in Seq(S)
  BY ConcatProperties
<1>2. F \in [1..n -> [Seq(S) -> Seq(S)]]
  BY <1>1
<1>3. \A k \in 1..n, l \in Seq(S) : F[k][l] = Step(k, l)
  OBVIOUS
<1> HIDE DEF F
<1>4. PICK g : Along(g, Seq(S), n, <<>>, F)
  <2>1. <<>> \in Seq(S)
    OBVIOUS
  <2> QED
    BY <1>2, <2>1, Recursion
<1>5. g \in [0..n -> Seq(S)] /\ g[0] = <<>> /\ \A k \in 1..n : g[k] = g[k - 1] \o ss[k]
  <2>1. \A k \in 1..n : k - 1 \in 0..n
    OBVIOUS
  <2> QED
    BY <1>3, <1>4, <2>1 DEF Along
<1>6. \A k \in 1..n : k = 1 => g[k] = ss[k]
  <2> SUFFICES ASSUME NEW k \in 1..n, k = 1 PROVE g[k] = ss[k]
    OBVIOUS
  <2>1. k - 1 = 0 /\ ss[k] \in Seq(S)
    OBVIOUS
  <2>2. g[k] = <<>> \o ss[k]
    BY <1>5, <2>1
  <2> QED
    BY <2>1, <2>2, ConcatEmptySeq
<1> DEFINE f == [i \in 1..n |-> g[i]]
<1>7. Joins(f)
  <2>1. \A i \in 1..n : f[i] = IF i = 1 THEN ss[i] ELSE f[i - 1] \o ss[i]
    <3> SUFFICES ASSUME NEW i \in 1..n PROVE f[i] = IF i = 1 THEN ss[i] ELSE f[i - 1] \o ss[i]
      OBVIOUS
    <3>1. CASE i = 1
      BY <1>6, <3>1
    <3>2. CASE i # 1
      <4>1. i - 1 \in 1..n
        BY <3>2
      <4> QED
        BY <1>5, <3>2, <4>1
    <3> QED
      BY <3>1, <3>2
  <2> QED
    BY <2>1, Zenon
<1> DEFINE c == CHOOSE h : Joins(h)
<1>8. Joins(c)
  BY <1>7, Zenon
<1>9. FlattenSeq(ss) = IF n = 0 THEN ss ELSE c[n]
  BY <1>0 DEF FlattenSeq
<1> HIDE DEF c, f
<1> DEFINE T == {k \in 0..n : k = 0 \/ c[k] = g[k]}
<1>10. 0 \in T
  OBVIOUS
<1>11. ASSUME NEW k \in 1..n, k - 1 \in T PROVE k \in T
  <2>0. k \in 0..n
    OBVIOUS
  <2>1. CASE k = 1
    <3>1. c[k] = ss[k]
      BY <1>8, <2>1
    <3> QED
      BY <1>6, <2>0, <2>1, <3>1
  <2>2. CASE k # 1
    <3>1. c[k] = c[k - 1] \o ss[k]
      BY <1>8, <2>2
    <3>2. c[k - 1] = g[k - 1]
      BY <1>11, <2>2
    <3> QED
      BY <1>5, <2>0, <3>1, <3>2
  <2> QED
    BY <2>1, <2>2
<1> HIDE DEF T
<1>12. n \in T
  <2>1. \A k \in 1..n : k - 1 \in T => k \in T
    BY <1>11
  <2>2. \A k \in 0..n : k \in T
    BY <1>10, <2>1, CountingUp
  <2> QED
    BY <2>2
<1>13. FlattenSeq(ss) = g[n]
  <2>1. CASE n = 0
    <3>1. ss = <<>>
      BY <1>0, <2>1
    <3> QED
      BY <1>5, <1>9, <2>1, <3>1
  <2>2. CASE n # 0
    BY <1>9, <1>12, <2>2 DEF T
  <2> QED
    BY <2>1, <2>2
<1> QED
  BY <1>5, <1>13

\* It has what they have.
LEMMA Flattened ==
  ASSUME NEW S, NEW n \in Nat, NEW ss \in [1..n -> Seq(S)]
  PROVE  /\ FlattenSeq(ss) \in Seq(S)
         /\ \A x : x \in ToSet(FlattenSeq(ss)) <=> \E i \in 1..n : x \in ToSet(ss[i])
<1>1. PICK c \in [0..n -> Seq(S)] :
           /\ c[0] = <<>> /\ \A k \in 1..n : c[k] = c[k - 1] \o ss[k]
           /\ FlattenSeq(ss) = c[n]
  BY JoinedUp
<1> DEFINE T == {k \in 0..n : \A x : x \in ToSet(c[k]) <=> \E i \in 1..k : x \in ToSet(ss[i])}
<1>2. 0 \in T
  BY <1>1 DEF ToSet
<1>3. ASSUME NEW k \in 1..n, k - 1 \in T PROVE k \in T
  <2>0. k \in 0..n /\ k - 1 \in 0..n
    OBVIOUS
  <2>1. k \in 0..n /\ c[k - 1] \in Seq(S) /\ ss[k] \in Seq(S) /\ c[k] = c[k - 1] \o ss[k]
    BY <1>1, <2>0
  <2>2. ToSet(c[k]) = ToSet(c[k - 1]) \union ToSet(ss[k])
    BY <2>1, JoinedSet
  <2>3. \A x : x \in ToSet(c[k - 1]) <=> \E i \in 1..k - 1 : x \in ToSet(ss[i])
    BY <1>3
  <2>4. \A i : i \in 1..k <=> i \in 1..k - 1 \/ i = k
    OBVIOUS
  <2>5. \A x : x \in ToSet(c[k]) <=> \E i \in 1..k : x \in ToSet(ss[i])
    BY <2>2, <2>3, <2>4, Zenon
  <2> QED
    BY <2>1, <2>5
<1> HIDE DEF T
<1>4. n \in T
  <2>1. \A k \in 1..n : k - 1 \in T => k \in T
    BY <1>3
  <2>2. \A k \in 0..n : k \in T
    BY <1>2, <2>1, CountingUp
  <2> QED
    BY <2>2
<1> QED
  BY <1>1, <1>4 DEF T

\* It is in each set that has the empty sequence, the sequences joined and what can be
\* joined of its elements.
LEMMA FlattenedIn ==
  ASSUME NEW S, NEW T \in SUBSET Seq(S), <<>> \in T, \A a, b \in T : a \o b \in T,
         NEW n \in Nat, NEW ss \in [1..n -> T]
  PROVE  FlattenSeq(ss) \in T
<1>1. ss \in [1..n -> Seq(S)]
  OBVIOUS
<1>2. PICK c \in [0..n -> Seq(S)] :
           /\ c[0] = <<>> /\ \A k \in 1..n : c[k] = c[k - 1] \o ss[k]
           /\ FlattenSeq(ss) = c[n]
  BY <1>1, JoinedUp
<1>3. c[0] \in T /\ \A k \in 1..n : c[k - 1] \in T => c[k] \in T
  BY <1>2
<1>4. \A k \in 0..n : c[k] \in T
  BY <1>3, StaysIn
<1> QED
  BY <1>2, <1>4

LEMMA JoinedPlaces ==
  ASSUME NEW S, NEW a \in Seq(S), NEW b \in Seq(S)
  PROVE  LET d == a \o b  s == Len(a) IN
         /\ Len(d) = s + Len(b) /\ DOMAIN d = 1..s + Len(b) /\ DOMAIN b = 1..Len(b)
         /\ \A q \in DOMAIN a : q \in DOMAIN d /\ d[q] = a[q]
         /\ \A p \in DOMAIN b : s + p \in DOMAIN d /\ d[s + p] = b[p]
         /\ \A q \in DOMAIN d : q \in DOMAIN a \/ \E p \in DOMAIN b : q = s + p
<1> DEFINE d == a \o b
           s == Len(a)
<1>1. /\ d \in Seq(S) /\ Len(d) = s + Len(b) /\ s \in Nat /\ Len(b) \in Nat
      /\ \A i \in 1..s : d[i] = a[i]
      /\ \A i \in 1..Len(b) : d[s + i] = b[i]
  BY Concatenated
<1>2. DOMAIN d = 1..s + Len(b) /\ DOMAIN a = 1..s /\ DOMAIN b = 1..Len(b)
  BY <1>1
<1> HIDE DEF d, s
<1>3. ASSUME NEW q \in DOMAIN d, q \notin DOMAIN a PROVE \E p \in DOMAIN b : q = s + p
  <2>1. q - s \in DOMAIN b /\ q = s + (q - s)
    BY <1>1, <1>2, <1>3
  <2> QED
    BY <2>1
<1>4. \A q \in DOMAIN a : q \in DOMAIN d /\ d[q] = a[q]
  BY <1>1, <1>2
<1>5. \A p \in DOMAIN b : s + p \in DOMAIN d /\ d[s + p] = b[p]
  BY <1>1, <1>2
<1> QED
  BY <1>1, <1>2, <1>3, <1>4, <1>5 DEF d, s

\* Where it has them: ss[i] begins behind the place start[i].
Begins(ss, n, start, flat) ==
    /\ start \in [1..n -> Nat]
    /\ \A i \in 1..n : \A p \in DOMAIN ss[i] : start[i] + p \in DOMAIN flat /\ flat[start[i] + p] = ss[i][p]
    /\ \A q \in DOMAIN flat : \E i \in 1..n : \E p \in DOMAIN ss[i] : q = start[i] + p
    /\ \A i, j \in 1..n : i < j => start[i] + Len(ss[i]) <= start[j]

LEMMA Laid ==
  ASSUME NEW S, NEW n \in Nat, NEW ss \in [1..n -> Seq(S)]
  PROVE  \E start : Begins(ss, n, start, FlattenSeq(ss))
<1>1. PICK c \in [0..n -> Seq(S)] :
           /\ c[0] = <<>> /\ \A k \in 1..n : c[k] = c[k - 1] \o ss[k]
           /\ FlattenSeq(ss) = c[n]
  BY JoinedUp
<1> DEFINE start == [i \in 1..n |-> Len(c[i - 1])]
<1>2. \A k \in 1..n : k - 1 \in 0..n /\ k \in 0..n /\ c[k - 1] \in Seq(S) /\ Len(c[k - 1]) \in Nat /\ Len(ss[k]) \in Nat
  OBVIOUS
<1>3. start \in [1..n -> Nat] /\ \A i \in 1..n : start[i] = Len(c[i - 1])
  BY <1>2
<1> HIDE DEF start
<1>4. ASSUME NEW k \in 1..n
      PROVE  /\ Len(c[k]) = start[k] + Len(ss[k]) /\ DOMAIN c[k] = 1..start[k] + Len(ss[k]) /\ DOMAIN ss[k] = 1..Len(ss[k])
             /\ \A q \in DOMAIN c[k - 1] : q \in DOMAIN c[k] /\ c[k][q] = c[k - 1][q]
             /\ \A p \in DOMAIN ss[k] : start[k] + p \in DOMAIN c[k] /\ c[k][start[k] + p] = ss[k][p]
             /\ \A q \in DOMAIN c[k] : q \in DOMAIN c[k - 1] \/ \E p \in DOMAIN ss[k] : q = start[k] + p
  <2>1. k - 1 \in 0..n /\ k \in 0..n
    OBVIOUS
  <2>2. c[k - 1] \in Seq(S) /\ ss[k] \in Seq(S) /\ c[k] = c[k - 1] \o ss[k] /\ start[k] = Len(c[k - 1])
    BY <1>1, <1>3, <2>1
  <2> DEFINE a == c[k - 1]
             b == ss[k]
             d == a \o b
             s == Len(a)
  <2>3. a \in Seq(S) /\ b \in Seq(S) /\ c[k] = d /\ start[k] = s
    BY <2>2
  <2> HIDE DEF a, b
  <2>4. /\ Len(d) = s + Len(b) /\ DOMAIN d = 1..s + Len(b) /\ DOMAIN b = 1..Len(b)
        /\ \A q \in DOMAIN a : q \in DOMAIN d /\ d[q] = a[q]
        /\ \A p \in DOMAIN b : s + p \in DOMAIN d /\ d[s + p] = b[p]
        /\ \A q \in DOMAIN d : q \in DOMAIN a \/ \E p \in DOMAIN b : q = s + p
    BY <2>3, JoinedPlaces
  <2> HIDE DEF d, s
  <2> QED
    BY <2>3, <2>4 DEF a, b
<1> DEFINE Has(k) ==
             /\ \A i \in 1..k : \A p \in DOMAIN ss[i] : start[i] + p \in DOMAIN c[k] /\ c[k][start[i] + p] = ss[i][p]
             /\ \A q \in DOMAIN c[k] : \E i \in 1..k : \E p \in DOMAIN ss[i] : q = start[i] + p
             /\ \A i \in 1..k : start[i] + Len(ss[i]) <= Len(c[k])
           T == {k \in 0..n : Has(k)}
<1>5. 0 \in T
  BY <1>1
<1>6. ASSUME NEW k \in 1..n, k - 1 \in T PROVE k \in T
  <2>0. Has(k - 1) /\ k \in 0..n
    <3> HIDE DEF Has
    <3> QED
      BY <1>6
  <2>1. \A i : i \in 1..k <=> i \in 1..k - 1 \/ i = k
    OBVIOUS
  <2>2. ASSUME NEW i \in 1..k, NEW p \in DOMAIN ss[i] PROVE start[i] + p \in DOMAIN c[k] /\ c[k][start[i] + p] = ss[i][p]
    <3>1. CASE i = k
      <4>1. \A q \in DOMAIN ss[k] : start[k] + q \in DOMAIN c[k] /\ c[k][start[k] + q] = ss[k][q]
        BY <1>4
      <4> QED
        BY <3>1, <4>1
    <3>2. CASE i \in 1..k - 1
      <4>1. start[i] + p \in DOMAIN c[k - 1] /\ c[k - 1][start[i] + p] = ss[i][p]
        BY <2>0, <3>2
      <4> QED
        BY <1>4, <4>1
    <3>3. i = k \/ i \in 1..k - 1
      BY <2>1
    <3> QED
      BY <3>1, <3>2, <3>3
  <2>3. ASSUME NEW q \in DOMAIN c[k] PROVE \E i \in 1..k : \E p \in DOMAIN ss[i] : q = start[i] + p
    <3>1. CASE q \in DOMAIN c[k - 1]
      <4>1. PICK i \in 1..k - 1 : \E p \in DOMAIN ss[i] : q = start[i] + p
        BY <2>0, <3>1
      <4>2. i \in 1..k
        BY <2>1
      <4> QED
        BY <4>1, <4>2
    <3>2. CASE \E p \in DOMAIN ss[k] : q = start[k] + p
      <4>1. k \in 1..k
        BY <2>1
      <4> QED
        BY <3>2, <4>1
    <3> QED
      BY <1>4, <3>1, <3>2
  <2>4. ASSUME NEW i \in 1..k PROVE start[i] + Len(ss[i]) <= Len(c[k])
    <3>0. i \in 1..n
      OBVIOUS
    <3>1. start[i] \in Nat /\ Len(ss[i]) \in Nat /\ start[k] \in Nat /\ Len(ss[k]) \in Nat
      BY <1>2, <1>3, <3>0
    <3>2. CASE i = k
      BY <1>4, <3>1, <3>2
    <3>3. CASE i \in 1..k - 1
      <4>1. start[i] + Len(ss[i]) <= start[k]
        BY <1>3, <2>0, <3>3
      <4>2. Len(c[k]) = start[k] + Len(ss[k])
        BY <1>4
      <4> QED
        BY <3>1, <4>1, <4>2
    <3> QED
      BY <2>1, <3>2, <3>3
  <2>5. Has(k)
    BY <2>2, <2>3, <2>4
  <2> QED
    BY <2>0, <2>5
<1> HIDE DEF T, Has
<1>7. \A k \in 0..n : k \in T
  <2>1. \A k \in 1..n : k - 1 \in T => k \in T
    BY <1>6
  <2> QED
    BY <1>5, <2>1, CountingUp
<1>8. \A k \in 0..n : Has(k)
  BY <1>7 DEF T
<1>9. ASSUME NEW i \in 1..n, NEW j \in 1..n, i < j PROVE start[i] + Len(ss[i]) <= start[j]
  <2>1. j - 1 \in 0..n /\ i \in 1..j - 1
    BY <1>9
  <2> QED
    BY <1>3, <1>8, <2>1 DEF Has
<1>10. Has(n)
  BY <1>8
<1>11. Begins(ss, n, start, FlattenSeq(ss))
  BY <1>1, <1>3, <1>9, <1>10 DEF Begins, Has
<1> QED
  BY <1>11

\* The elements x[i] of the places K, one after the other: flat[q] is that of h[q].
Selects(h, flat, K, x) ==
    /\ h \in [DOMAIN flat -> K]
    /\ \A q, r \in DOMAIN flat : q < r => h[q] < h[r]
    /\ \A i \in K : \E q \in DOMAIN flat : h[q] = i
    /\ \A q \in DOMAIN flat : flat[q] = x[h[q]]

LEMMA Selected ==
  ASSUME NEW S, NEW n \in Nat, NEW K \in SUBSET (1..n), NEW x, \A i \in K : x[i] \in S,
         NEW ss, ss = [i \in 1..n |-> IF i \in K THEN <<x[i]>> ELSE <<>>]
  PROVE  \E h : Selects(h, FlattenSeq(ss), K, x)
<1>1. \A i \in 1..n : ss[i] \in Seq(S) /\ (i \in K => DOMAIN ss[i] = {1} /\ Len(ss[i]) = 1 /\ ss[i][1] = x[i]) /\ (i \notin K => DOMAIN ss[i] = {})
  OBVIOUS
<1>2. ss \in [1..n -> Seq(S)]
  BY <1>1
<1> DEFINE flat == FlattenSeq(ss)
<1>3. PICK start : Begins(ss, n, start, flat)
  BY <1>2, Laid
<1>4. flat \in Seq(S)
  BY <1>2, Flattened
<1> HIDE DEF flat
<1>5. ASSUME NEW q \in DOMAIN flat PROVE \E i \in K : q = start[i] + 1
  <2>1. PICK i \in 1..n : \E p \in DOMAIN ss[i] : q = start[i] + p
    BY <1>3 DEF Begins
  <2>2. PICK p \in DOMAIN ss[i] : q = start[i] + p
    BY <2>1
  <2>3. i \in K
    BY <1>1, <2>2
  <2>4. p = 1
    BY <1>1, <2>2, <2>3
  <2> QED
    BY <2>2, <2>3, <2>4
<1>6. \A i \in K : start[i] \in Nat /\ start[i] + 1 \in DOMAIN flat /\ flat[start[i] + 1] = x[i] /\ i \in 1..n
  <2> SUFFICES ASSUME NEW i \in K
               PROVE  start[i] \in Nat /\ start[i] + 1 \in DOMAIN flat /\ flat[start[i] + 1] = x[i] /\ i \in 1..n
    OBVIOUS
  <2>1. i \in 1..n /\ 1 \in DOMAIN ss[i] /\ ss[i][1] = x[i]
    BY <1>1
  <2> QED
    BY <1>3, <2>1 DEF Begins
<1>7. \A i, j \in K : i < j => start[i] + 1 <= start[j]
  BY <1>1, <1>3 DEF Begins
<1> DEFINE h == [q \in DOMAIN flat |-> CHOOSE i \in K : q = start[i] + 1]
<1>8. \A q \in DOMAIN flat : h[q] \in K /\ q = start[h[q]] + 1
  BY <1>5
<1>9. h \in [DOMAIN flat -> K]
  BY <1>8
<1> HIDE DEF h
<1>10. \A i, j \in K : start[i] + 1 = start[j] + 1 => i = j
  BY <1>6, <1>7
<1>11. \A i \in K : \E q \in DOMAIN flat : h[q] = i
  BY <1>6, <1>8, <1>10
<1>12. ASSUME NEW q \in DOMAIN flat, NEW r \in DOMAIN flat, q < r PROVE h[q] < h[r]
  <2>1. h[q] \in 1..n /\ h[r] \in 1..n /\ start[h[q]] \in Nat /\ start[h[r]] \in Nat
    BY <1>6, <1>8
  <2>2. start[h[q]] < start[h[r]]
    BY <1>8, <1>12, <2>1
  <2>3. ~(h[r] < h[q]) /\ h[r] # h[q]
    BY <1>7, <1>8, <2>1, <2>2
  <2> QED
    BY <2>1, <2>3
<1>13. \A q \in DOMAIN flat : flat[q] = x[h[q]]
  BY <1>6, <1>8
<1> QED
  BY <1>9, <1>11, <1>12, <1>13 DEF flat, Selects

\* The least and the greatest of some numbers.
LEMMA LeastIn ==
  ASSUME NEW S \in SUBSET Nat, S # {}
  PROVE  Min(S) \in S /\ \A m \in S : Min(S) <= m
<1>1. \E n \in S : \A m \in S : n <= m
  BY LeastNumber
<1> QED
  BY <1>1 DEF Min

LEMMA GreatestIn ==
  ASSUME NEW n \in Nat, NEW S \in SUBSET (0..n), S # {}
  PROVE  Max(S) \in S /\ \A m \in S : m <= Max(S)
<1> DEFINE R == {n - m : m \in S}
<1>1. \A m \in S : m \in 0..n /\ n - m \in R /\ n - m \in Nat
  OBVIOUS
<1>2. R \in SUBSET Nat /\ R # {}
  BY <1>1
<1>3. PICK r \in R : \A q \in R : r <= q
  BY <1>2, LeastNumber
<1>4. PICK k \in S : r = n - k
  OBVIOUS
<1> HIDE DEF R
<1>5. \A m \in S : k >= m
  <2> SUFFICES ASSUME NEW m \in S PROVE k >= m
    OBVIOUS
  <2>1. n - k <= n - m
    BY <1>1, <1>3, <1>4
  <2> QED
    BY <1>1, <2>1
<1>6. Max(S) \in S /\ \A m \in S : Max(S) >= m
  BY <1>5 DEF Max
<1> QED
  BY <1>1, <1>6

\* The entries of a slice.
LEMMA SliceSet ==
  ASSUME NEW S, NEW s \in Seq(S), NEW m \in Nat \ {0}, NEW n \in Nat, m <= n + 1, n <= Len(s)
  PROVE  /\ SubSeq(s, m, n) \in Seq(S) /\ ToSet(SubSeq(s, m, n)) \subseteq ToSet(s)
         /\ \A i \in m..n : s[i] \in ToSet(SubSeq(s, m, n))
<1> DEFINE r == SubSeq(s, m, n)
<1>1. r \in Seq(S) /\ Len(r) = n + 1 - m /\ \A i \in 1..n + 1 - m : r[i] = s[m + i - 1]
  BY Slice
<1> HIDE DEF r
<1>2. DOMAIN r = 1..n + 1 - m /\ DOMAIN s = 1..Len(s) /\ Len(s) \in Nat
  BY <1>1
<1>3. \A i \in 1..n + 1 - m : m + i - 1 \in DOMAIN s
  BY <1>2
<1>4. ToSet(r) \subseteq ToSet(s)
  BY <1>1, <1>2, <1>3 DEF ToSet
<1>5. ASSUME NEW i \in m..n PROVE s[i] \in ToSet(r)
  <2>1. i - m + 1 \in DOMAIN r /\ r[i - m + 1] = s[i]
    BY <1>1, <1>2
  <2> QED
    BY <2>1 DEF ToSet
<1> QED
  BY <1>1, <1>4, <1>5 DEF r
=============================================================================
