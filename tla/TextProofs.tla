----------------------------- MODULE TextProofs -----------------------------
(***************************************************************************)
(* What the editing of Document does to a text, and how the recorded       *)
(* actions lead back.                                                      *)
(*                                                                         *)
(* A Trail is a sequence of actions which, taken back from the last to the *)
(* first, lead from one text to another.  Each operation on a working copy *)
(* keeps a trail back to the text the command found (the lemmas ...On);    *)
(* merging two groups keeps the trail (FoldedTrail); and undo() follows it *)
(* (RevertedOn), past places that are on the text all the way.             *)
(*                                                                         *)
(* An operation that finds the cursor and the markers at places of the     *)
(* text leaves them at places of the new one (the lemmas ...Placed).       *)
(***************************************************************************)
EXTENDS DocumentProps, DataLemmas

Kinds   == {"replace", "insert", "delete"}
Texts   == Seq(Row)
Actions == [kind : Kinds, y : Int, saved : Row]

LEMMA Joined ==
  ASSUME NEW a \in Texts, NEW b \in Texts
  PROVE  /\ a \o b \in Texts /\ Len(a \o b) = Len(a) + Len(b)
         /\ \A i \in 1..Len(a) : (a \o b)[i] = a[i]
         /\ \A i \in Len(a) + 1..Len(a) + Len(b) : (a \o b)[i] = b[i - Len(a)]
<1>1. a \in Seq(Row) /\ b \in Seq(Row)
  BY DEF Texts
<1>2. /\ a \o b \in Seq(Row) /\ Len(a \o b) = Len(a) + Len(b)
      /\ \A i \in 1..Len(a) : (a \o b)[i] = a[i]
      /\ \A i \in Len(a) + 1..Len(a) + Len(b) : (a \o b)[i] = b[i - Len(a)]
  BY <1>1, Concatenated
<1> QED
  BY <1>2 DEF Texts

\* The rows from..to, or none if to = from - 1, are rows of ls.
Spans(ls, from, to) == from \in Nat \ {0} /\ to \in Nat /\ from <= to + 1 /\ to <= Len(ls)

\* d is ls with n rows of a block in the place of the rows from..to.
Spliced(d, ls, from, to, block, n) ==
  /\ Len(d) = (Len(ls) + n + from) - (to + 1)
  /\ \A i \in 1..from - 1 : d[i] = ls[i]
  /\ \A i \in from..from + n - 1 : d[i] = block[(i + 1) - from]
  /\ \A i \in from + n..(Len(ls) + n + from) - (to + 1) : d[i] = ls[(i + to + 1) - (from + n)]

\* The rows of a text when some of them are replaced by a block.
LEMMA SpliceIs ==
  ASSUME NEW ls \in Texts, NEW block \in Texts, NEW from, NEW to, Spans(ls, from, to)
  PROVE  /\ Splice(ls, from, to, block) \in Texts
         /\ Spliced(Splice(ls, from, to, block), ls, from, to, block, Len(block))
<1> DEFINE a == SubSeq(ls, 1, from - 1)
           b == SubSeq(ls, to + 1, Len(ls))
           c == a \o block
<1>0. /\ Len(ls) \in Nat /\ Len(block) \in Nat /\ from - 1 \in Nat /\ to + 1 \in Nat \ {0}
      /\ from \in Nat \ {0} /\ to \in Nat /\ from <= to + 1 /\ to <= Len(ls)
  BY DEF Texts, Spans
<1>1. a \in Texts /\ Len(a) = from - 1 /\ \A i \in 1..from - 1 : a[i] = ls[i]
  <2>1. /\ a \in Seq(Row) /\ Len(a) = (from - 1) + 1 - 1
        /\ \A i \in 1..(from - 1) + 1 - 1 : a[i] = ls[1 + i - 1]
    BY <1>0, Slice DEF Texts
  <2> QED
    BY <1>0, <2>1 DEF Texts
<1>2. b \in Texts /\ Len(b) = Len(ls) - to /\ \A i \in 1..Len(ls) - to : b[i] = ls[to + i]
  <2>1. /\ b \in Seq(Row) /\ Len(b) = Len(ls) + 1 - (to + 1)
        /\ \A i \in 1..Len(ls) + 1 - (to + 1) : b[i] = ls[(to + 1) + i - 1]
    BY <1>0, Slice DEF Texts
  <2> QED
    BY <1>0, <2>1 DEF Texts
<1> HIDE DEF a, b
<1>3. /\ c \in Texts /\ Len(c) = (from - 1) + Len(block)
      /\ \A i \in 1..from - 1 : c[i] = ls[i]
      /\ \A i \in from..from + Len(block) - 1 : c[i] = block[(i + 1) - from]
  <2>1. /\ c \in Texts /\ Len(c) = Len(a) + Len(block)
        /\ \A i \in 1..Len(a) : c[i] = a[i]
        /\ \A i \in Len(a) + 1..Len(a) + Len(block) : c[i] = block[i - Len(a)]
    BY <1>1, Joined, Zenon
  <2> HIDE DEF c
  <2>2. Len(a) = from - 1 /\ Len(a) + 1 = from /\ Len(a) + Len(block) = from + Len(block) - 1
    BY <1>0, <1>1
  <2>3. \A i \in from..from + Len(block) - 1 : i - Len(a) = (i + 1) - from
    BY <1>0, <1>1
  <2>4. c \in Texts /\ Len(c) = (from - 1) + Len(block)
    BY <2>1, <2>2
  <2>5. \A i \in 1..from - 1 : c[i] = ls[i]
    BY <1>1, <2>1, <2>2
  <2>6. \A i \in from..from + Len(block) - 1 : c[i] = block[(i + 1) - from]
    BY <2>1, <2>2, <2>3
  <2> QED
    BY <2>4, <2>5, <2>6
<1> HIDE DEF c
<1>4. /\ c \o b \in Texts /\ Len(c \o b) = Len(c) + Len(b)
      /\ \A i \in 1..Len(c) : (c \o b)[i] = c[i]
      /\ \A i \in Len(c) + 1..Len(c) + Len(b) : (c \o b)[i] = b[i - Len(c)]
  BY <1>2, <1>3, Joined, Zenon
<1>5. Splice(ls, from, to, block) = c \o b
  BY DEF Splice, Rows, a, b, c
<1> DEFINE d == c \o b
<1> HIDE DEF d
<1>6. Len(d) = (Len(ls) + Len(block) + from) - (to + 1)
  BY <1>0, <1>2, <1>3, <1>4 DEF d
<1>7. \A i \in 1..from - 1 : d[i] = ls[i]
  BY <1>0, <1>3, <1>4 DEF d
<1>8. \A i \in from..from + Len(block) - 1 : d[i] = block[(i + 1) - from]
  BY <1>0, <1>3, <1>4 DEF d
<1>9. ASSUME NEW i \in from + Len(block)..(Len(ls) + Len(block) + from) - (to + 1)
      PROVE  d[i] = ls[(i + to + 1) - (from + Len(block))]
  <2>1. i \in Len(c) + 1..Len(c) + Len(b) /\ i - Len(c) \in 1..Len(ls) - to
    BY <1>0, <1>2, <1>3
  <2>2. d[i] = b[i - Len(c)] /\ b[i - Len(c)] = ls[to + (i - Len(c))]
    BY <1>2, <1>4, <2>1 DEF d
  <2>3. to + (i - Len(c)) = (i + to + 1) - (from + Len(block))
    BY <1>0, <1>3
  <2> QED
    BY <2>2, <2>3
<1>10. d \in Texts
  BY <1>4 DEF d
<1>11. Spliced(d, ls, from, to, block, Len(block))
  BY <1>6, <1>7, <1>8, <1>9 DEF Spliced
<1> QED
  BY <1>5, <1>10, <1>11 DEF d

\* Texts of the same rows are the same.
LEMMA SameRows ==
  ASSUME NEW a \in Texts, NEW b \in Texts, Len(a) = Len(b), \A i \in 1..Len(a) : a[i] = b[i]
  PROVE  a = b
BY SeqEqual DEF Texts

-----------------------------------------------------------------------------
(* One row replaced, put in or taken out, and taken back. *)

LEMMA RowReplaced ==
  ASSUME NEW ls \in Texts, NEW y \in DOMAIN ls, NEW z \in Row
  PROVE  /\ [ls EXCEPT ![y] = z] \in Texts /\ Len([ls EXCEPT ![y] = z]) = Len(ls)
         /\ DOMAIN [ls EXCEPT ![y] = z] = DOMAIN ls
         /\ \A i \in 1..Len(ls) : [ls EXCEPT ![y] = z][i] = IF i = y THEN z ELSE ls[i]
BY DEF Texts

\* c is ls with another row s, and two texts are the same: relations the provers
\* match as a whole.
RowSet(c, ls, s, z) == c = [ls EXCEPT ![s] = z]
Same(p, q) == p = q

\* Taking back e in the text c gives the text ls.
Undoes(c, e, ls) == Revertible(c, e) /\ RevertText(c, e) = ls

LEMMA RowReverted ==
  ASSUME NEW ls \in Texts, NEW y \in DOMAIN ls, NEW z \in Row, NEW saved \in Row
  PROVE  Undoes([ls EXCEPT ![y] = z], Act("replace", y, saved), [ls EXCEPT ![y] = saved])
<1> DEFINE c == [ls EXCEPT ![y] = z]
<1>1. y \in DOMAIN c
  OBVIOUS
<1>2. [c EXCEPT ![y] = saved] = [ls EXCEPT ![y] = saved]
  OBVIOUS
<1> HIDE DEF c
<1>3. /\ Revertible(c, Act("replace", y, saved))
      /\ RevertText(c, Act("replace", y, saved)) = [c EXCEPT ![y] = saved]
  BY <1>1, Zenon DEF Revertible, RevertText, Act
<1> QED
  BY <1>2, <1>3 DEF c, Undoes

LEMMA SameRow ==
  ASSUME NEW ls \in Texts, NEW y \in DOMAIN ls
  PROVE  [ls EXCEPT ![y] = ls[y]] = ls
BY DEF Texts

LEMMA RowInserted ==
  ASSUME NEW ls \in Texts, NEW y \in 1..Len(ls) + 1, NEW z \in Row
  PROVE  LET c == Splice(ls, y, y - 1, <<z>>)
             e == Act("insert", y, <<>>)
         IN /\ c \in Texts /\ Len(c) = Len(ls) + 1 /\ Revertible(c, e) /\ RevertText(c, e) = ls
            /\ \A i \in 1..y - 1 : c[i] = ls[i]
            /\ c[y] = z
            /\ \A i \in y + 1..Len(ls) + 1 : c[i] = ls[i - 1]
<1> DEFINE b == <<z>>
           c == Splice(ls, y, y - 1, b)
           d == Splice(c, y, y, <<>>)
<1>0. Len(ls) \in Nat /\ b \in Texts /\ Len(b) = 1 /\ b[1] = z /\ <<>> \in Texts /\ Len(<<>>) = 0
  BY DEF Texts
<1> HIDE DEF b
<1>1. y \in Nat \ {0} /\ y - 1 \in Nat /\ y <= (y - 1) + 1 /\ y - 1 <= Len(ls)
  BY <1>0
<1>2. c \in Texts /\ Spliced(c, ls, y, y - 1, b, 1)
  BY <1>0, <1>1, SpliceIs, Zenon DEF Spans
<1> HIDE DEF c
<1>3. /\ Len(c) = Len(ls) + 1
      /\ \A i \in 1..y - 1 : c[i] = ls[i]
      /\ c[y] = z
      /\ \A i \in y + 1..Len(ls) + 1 : c[i] = ls[i - 1]
  <2>1. Len(c) = Len(ls) + 1 /\ (Len(ls) + 1 + y) - ((y - 1) + 1) = Len(ls) + 1
    BY <1>0, <1>1, <1>2 DEF Spliced
  <2>2. y \in y..y + 1 - 1 /\ (y + 1) - y = 1
    BY <1>1
  <2>3. c[y] = z
    BY <1>0, <1>2, <2>2 DEF Spliced
  <2>4. \A i \in y + 1..Len(ls) + 1 : (i + (y - 1) + 1) - (y + 1) = i - 1
    BY <1>0, <1>1
  <2> QED
    BY <1>2, <2>1, <2>3, <2>4 DEF Spliced
<1>4. d \in Texts /\ Spliced(d, c, y, y, <<>>, 0)
  <2>1. y <= y + 1 /\ y <= Len(c)
    BY <1>0, <1>1, <1>3
  <2> QED
    BY <1>0, <1>1, <1>2, <2>1, SpliceIs, Zenon DEF Spans
<1> HIDE DEF d
<1>5. d = ls
  <2>1. Len(d) = Len(ls) /\ (Len(c) + 0 + y) - (y + 1) = Len(ls)
    BY <1>0, <1>1, <1>3, <1>4 DEF Spliced
  <2>2. \A i \in y..Len(ls) : d[i] = ls[i]
    <3>1. \A i \in y..Len(ls) : (i + y + 1) - (y + 0) = i + 1 /\ i + 1 \in y + 1..Len(ls) + 1 /\ (i + 1) - 1 = i
      BY <1>0, <1>1
    <3>2. \A i \in y..Len(ls) : d[i] = c[i + 1]
      BY <1>1, <1>4, <2>1, <3>1 DEF Spliced
    <3> QED
      BY <1>3, <3>1, <3>2
  <2>3. \A i \in 1..y - 1 : d[i] = ls[i]
    BY <1>3, <1>4 DEF Spliced
  <2>4. \A i \in 1..Len(d) : i \in 1..y - 1 \/ i \in y..Len(ls)
    BY <1>0, <1>1, <2>1
  <2> QED
    BY <1>4, <2>1, <2>2, <2>3, <2>4, SameRows
<1>6. y \in DOMAIN c
  BY <1>0, <1>1, <1>2, <1>3 DEF Texts
<1>7. Revertible(c, Act("insert", y, <<>>)) /\ RevertText(c, Act("insert", y, <<>>)) = d
  BY <1>6 DEF Revertible, RevertText, Act, d
<1> QED
  BY <1>2, <1>3, <1>5, <1>7 DEF b, c

LEMMA RowDeleted ==
  ASSUME NEW ls \in Texts, NEW y \in DOMAIN ls
  PROVE  LET c == Splice(ls, y, y, <<>>)
             e == Act("delete", y, ls[y])
         IN /\ c \in Texts /\ Len(c) = Len(ls) - 1 /\ Revertible(c, e) /\ RevertText(c, e) = ls
            /\ \A i \in 1..y - 1 : c[i] = ls[i]
            /\ \A i \in y..Len(ls) - 1 : c[i] = ls[i + 1]
<1> DEFINE c == Splice(ls, y, y, <<>>)
           z == ls[y]
           d == Splice(c, y, y - 1, <<z>>)
<1>0. Len(ls) \in Nat /\ z \in Row /\ <<>> \in Texts /\ Len(<<>>) = 0 /\ y \in 1..Len(ls)
  BY DEF Texts
<1>1. y \in Nat \ {0} /\ y \in Nat /\ y <= y + 1 /\ y <= Len(ls)
  BY <1>0
<1>2. c \in Texts /\ Spliced(c, ls, y, y, <<>>, 0)
  BY <1>0, <1>1, SpliceIs, Zenon DEF Spans
<1> HIDE DEF c, z
<1>3. /\ Len(c) = Len(ls) - 1 /\ \A i \in y..Len(ls) - 1 : c[i] = ls[i + 1]
      /\ \A i \in 1..y - 1 : c[i] = ls[i]
  <2>1. \A i \in y..Len(ls) - 1 : /\ i \in y + 0..(Len(ls) + 0 + y) - (y + 1)
                                  /\ (i + y + 1) - (y + 0) = i + 1
    BY <1>0, <1>1
  <2>2. Len(c) = Len(ls) - 1
    BY <1>0, <1>1, <1>2 DEF Spliced
  <2> QED
    BY <1>2, <2>1, <2>2 DEF Spliced
<1>4. y \in 1..Len(c) + 1
  BY <1>0, <1>1, <1>3
<1>5. /\ d \in Texts /\ Len(d) = Len(c) + 1
      /\ \A i \in 1..y - 1 : d[i] = c[i]
      /\ d[y] = z
      /\ \A i \in y + 1..Len(c) + 1 : d[i] = c[i - 1]
  BY <1>0, <1>2, <1>4, RowInserted
<1> HIDE DEF d
<1>6. d = ls
  <2>1. Len(d) = Len(ls)
    BY <1>0, <1>3, <1>5
  <2>5. d[y] = ls[y]
    BY <1>5 DEF z
  <2>2. \A i \in y + 1..Len(ls) : d[i] = ls[i]
    <3>1. \A i \in y + 1..Len(ls) : i \in y + 1..Len(c) + 1 /\ i - 1 \in y..Len(ls) - 1 /\ (i - 1) + 1 = i
      BY <1>0, <1>1, <1>3
    <3> QED
      BY <1>3, <1>5, <3>1
  <2>3. \A i \in 1..y - 1 : d[i] = ls[i]
    BY <1>3, <1>5
  <2>4. \A i \in 1..Len(d) : i \in 1..y - 1 \/ i = y \/ i \in y + 1..Len(ls)
    BY <1>0, <1>1, <2>1
  <2> QED
    BY <1>5, <2>1, <2>2, <2>3, <2>4, <2>5, SameRows
<1>7. /\ Revertible(c, Act("delete", y, z))
      /\ RevertText(c, Act("delete", y, z)) = Splice(c, y, y - 1, <<z>>)
  <2>1. y <= Len(c) + 1
    BY <1>4
  <2> QED
    BY <1>4, <2>1 DEF Revertible, RevertText, Act
<1> QED
  BY <1>2, <1>3, <1>6, <1>7 DEF c, d, z

-----------------------------------------------------------------------------
(* Recorded actions that lead back from one text to another. *)

Acts == Seq(Actions)

Walks(t, acts) ==
  \A k \in 1..Len(acts) : Revertible(t[k], acts[k]) /\ RevertText(t[k], acts[k]) = t[k - 1]

\* The actions, taken back one by one, lead from b back to a.
Trail(a, acts, b) ==
  \E t \in [0..Len(acts) -> Texts] : Walks(t, acts) /\ t[0] = a /\ t[Len(acts)] = b

LEMMA TrailTyped ==
  ASSUME NEW a, NEW b, NEW acts \in Acts, Trail(a, acts, b)
  PROVE  a \in Texts /\ b \in Texts
<1>1. Len(acts) \in Nat
  BY DEF Acts
<1>2. 0 \in 0..Len(acts) /\ Len(acts) \in 0..Len(acts)
  BY <1>1
<1> QED
  BY <1>2 DEF Trail

LEMMA TrailNone ==
  /\ \A a \in Texts : Trail(a, <<>>, a)
  /\ \A a, b : Trail(a, <<>>, b) => a = b
<1>1. Len(<<>>) = 0 /\ 1..0 = {}
  OBVIOUS
<1>2. ASSUME NEW a \in Texts PROVE Trail(a, <<>>, a)
  <2> DEFINE t == [k \in 0..0 |-> a]
  <2>1. t \in [0..0 -> Texts] /\ t[0] = a
    OBVIOUS
  <2> HIDE DEF t
  <2> QED
    BY <1>1, <2>1 DEF Trail, Walks
<1>3. \A a, b : Trail(a, <<>>, b) => a = b
  BY <1>1 DEF Trail
<1> QED
  BY <1>2, <1>3

LEMMA TrailOne ==
  ASSUME NEW a \in Texts, NEW b \in Texts, NEW e, Revertible(b, e), RevertText(b, e) = a
  PROVE  Trail(a, <<e>>, b)
<1> DEFINE t == [k \in 0..1 |-> IF k = 0 THEN a ELSE b]
           s == <<e>>
<1>1. Len(s) = 1 /\ s[1] = e
  OBVIOUS
<1>2. t \in [0..1 -> Texts] /\ t[0] = a /\ t[1] = b
  OBVIOUS
<1> HIDE DEF t, s
<1>3. Walks(t, s)
  BY <1>1, <1>2 DEF Walks
<1>4. Trail(a, s, b)
  BY <1>1, <1>2, <1>3 DEF Trail
<1> QED
  BY <1>4 DEF s

LEMMA TrailJoined ==
  ASSUME NEW a, NEW b, NEW c, NEW p \in Acts, NEW q \in Acts, Trail(a, p, b), Trail(b, q, c)
  PROVE  p \o q \in Acts /\ Trail(a, p \o q, c)
<1> DEFINE m == Len(p)
           n == Len(q)
           r == p \o q
<1>1. PICK t \in [0..m -> Texts] : Walks(t, p) /\ t[0] = a /\ t[m] = b
  BY DEF Trail
<1>2. PICK u \in [0..n -> Texts] : Walks(u, q) /\ u[0] = b /\ u[n] = c
  BY DEF Trail
<1>3. m \in Nat /\ n \in Nat
  BY DEF Acts
<1>4. /\ r \in Acts /\ Len(r) = m + n
      /\ \A k \in 1..m : r[k] = p[k]
      /\ \A k \in m + 1..m + n : r[k] = q[k - m]
  <2>1. p \in Seq(Actions) /\ q \in Seq(Actions)
    BY DEF Acts
  <2>2. /\ r \in Seq(Actions) /\ Len(r) = m + n
        /\ \A k \in 1..m : r[k] = p[k]
        /\ \A k \in m + 1..m + n : r[k] = q[k - m]
    BY <2>1, Concatenated
  <2> QED
    BY <2>2 DEF Acts
<1> DEFINE v == [k \in 0..m + n |-> IF k <= m THEN t[k] ELSE u[k - m]]
<1> HIDE DEF m, n, r
<1>5. v \in [0..m + n -> Texts] /\ v[0] = a /\ v[m + n] = c
  <2>1. \A k \in 0..m + n : (k <= m => k \in 0..m) /\ (~(k <= m) => k - m \in 0..n)
    BY <1>3
  <2>2. v \in [0..m + n -> Texts]
    BY <2>1
  <2>3. v[0] = a
    BY <1>1, <1>3
  <2>4. v[m + n] = c
    BY <1>1, <1>2, <1>3
  <2> QED
    BY <2>2, <2>3, <2>4
<1>6. ASSUME NEW k \in 1..m + n
      PROVE  Revertible(v[k], r[k]) /\ RevertText(v[k], r[k]) = v[k - 1]
  <2>1. CASE k <= m
    <3>1. k \in 1..m /\ v[k] = t[k] /\ v[k - 1] = t[k - 1] /\ r[k] = p[k]
      BY <1>3, <1>4, <2>1
    <3>2. Revertible(t[k], p[k]) /\ RevertText(t[k], p[k]) = t[k - 1]
      BY <1>1, <3>1 DEF Walks, m
    <3> QED
      BY <3>1, <3>2
  <2>2. CASE k > m
    <3>1. k - m \in 1..n /\ v[k] = u[k - m] /\ r[k] = q[k - m]
      BY <1>3, <1>4, <2>2
    <3>2. v[k - 1] = u[(k - m) - 1]
      <4>1. CASE k = m + 1
        <5>1. v[k - 1] = t[m] /\ (k - m) - 1 = 0
          BY <1>3, <4>1
        <5> QED
          BY <1>1, <1>2, <5>1
      <4>2. CASE k # m + 1
        BY <1>3, <2>2, <4>2
      <4> QED
        BY <4>1, <4>2
    <3>3. Revertible(u[k - m], q[k - m]) /\ RevertText(u[k - m], q[k - m]) = u[(k - m) - 1]
      BY <1>2, <3>1 DEF Walks, n
    <3> QED
      BY <3>1, <3>2, <3>3
  <2> QED
    BY <1>3, <2>1, <2>2
<1> HIDE DEF v
<1>7. Walks(v, r)
  BY <1>4, <1>6 DEF Walks
<1>8. Trail(a, r, c)
  BY <1>4, <1>5, <1>7 DEF Trail
<1> QED
  BY <1>4, <1>8 DEF r

\* One more action.
LEMMA TrailOn ==
  ASSUME NEW a, NEW b, NEW p \in Acts, Trail(a, p, b),
         NEW c \in Texts, NEW e \in Actions, Revertible(c, e), RevertText(c, e) = b
  PROVE  Append(p, e) \in Acts /\ Trail(a, Append(p, e), c)
<1>1. <<e>> \in Acts /\ b \in Texts
  BY TrailTyped DEF Acts
<1>2. Trail(b, <<e>>, c)
  BY <1>1, TrailOne
<1>3. p \o <<e>> \in Acts /\ Trail(a, p \o <<e>>, c)
  BY <1>1, <1>2, TrailJoined
<1>4. Append(p, e) = p \o <<e>>
  BY AppendIsConcat DEF Acts
<1> QED
  BY <1>3, <1>4

\* A row that the last action replaced may have become any other.
LEMMA LastIsFree ==
  ASSUME NEW a, NEW b, NEW p \in Acts, Trail(a, p, b), p # <<>>,
         Last(p).kind = "replace", NEW z \in Row
  PROVE  /\ Last(p).y \in DOMAIN b
         /\ Trail(a, p, [b EXCEPT ![Last(p).y] = z])
<1> DEFINE n == Len(p)
           y == Last(p).y
           c == [b EXCEPT ![y] = z]
<1>0. n \in Nat \ {0} /\ p[n] \in Actions /\ n \in 1..n
  BY DEF Acts
<1>1. PICK t \in [0..n -> Texts] : Walks(t, p) /\ t[0] = a /\ t[n] = b
  BY DEF Trail
<1>2. PICK s \in Row : p[n] = Act("replace", y, s)
  <2>1. p[n].kind = "replace" /\ p[n].y = y
    BY DEF Last
  <2> QED
    BY <1>0, <2>1 DEF Act, Actions
<1>3. Revertible(b, p[n]) /\ RevertText(b, p[n]) = t[n - 1]
  BY <1>0, <1>1 DEF Walks
<1>4. y \in DOMAIN b /\ b \in Texts
  <2>1. y \in DOMAIN b
    BY <1>2, <1>3 DEF Revertible, Act
  <2> QED
    BY <1>0, <1>1, <2>1
<1> HIDE DEF n, y, c
<1>5. c \in Texts /\ Revertible(c, p[n]) /\ RevertText(c, p[n]) = t[n - 1]
  <2>1. RevertText(b, Act("replace", y, s)) = [b EXCEPT ![y] = s]
    BY <1>4 DEF RevertText, Act
  <2>2. /\ c \in Texts /\ Revertible(c, Act("replace", y, s))
        /\ RevertText(c, Act("replace", y, s)) = [b EXCEPT ![y] = s]
    <3>1. Undoes([b EXCEPT ![y] = z], Act("replace", y, s), [b EXCEPT ![y] = s])
      BY <1>4, RowReverted, Zenon
    <3>2. [b EXCEPT ![y] = z] \in Texts
      BY <1>4, RowReplaced, Zenon
    <3> QED
      BY <3>1, <3>2 DEF c, Undoes
  <2> QED
    BY <1>2, <1>3, <2>1, <2>2
<1> DEFINE u == [t EXCEPT ![n] = c]
<1>6. u \in [0..n -> Texts] /\ u[n] = c /\ \A k \in 0..n : k # n => u[k] = t[k]
  BY <1>0, <1>5
<1> HIDE DEF u
<1>7. ASSUME NEW k \in 1..n PROVE Revertible(u[k], p[k]) /\ RevertText(u[k], p[k]) = u[k - 1]
  <2>1. k \in 0..n /\ k - 1 \in 0..n /\ k - 1 # n
    BY <1>0
  <2>2. Revertible(t[k], p[k]) /\ RevertText(t[k], p[k]) = t[k - 1]
    BY <1>1 DEF Walks, n
  <2>3. CASE k = n
    BY <1>5, <1>6, <2>1, <2>3
  <2>4. CASE k # n
    BY <1>6, <2>1, <2>2, <2>4
  <2> QED
    BY <2>3, <2>4
<1>8. u[0] = a
  BY <1>0, <1>1, <1>6
<1>9. Trail(a, p, c)
  BY <1>6, <1>7, <1>8 DEF Trail, Walks, n
<1> QED
  BY <1>4, <1>9 DEF c, y

-----------------------------------------------------------------------------
(* Rows put in or taken out one by one. *)

\* The actions that put n rows in, from row y on.
Inserting(y, n) == [i \in 1..n |-> Act("insert", y + i - 1, <<>>)]

\* The actions that take out the n rows of ls from row y on, each at row y.
Removing(ls, y, n) == [i \in 1..n |-> Act("delete", y, ls[y + i - 1])]

\* The actions that take out the n rows of ls up to row y, the last one first.
RemovingUp(ls, y, n) == [i \in 1..n |-> Act("delete", y + 1 - i, ls[y + 1 - i])]

LEMMA RunsTyped ==
  ASSUME NEW ls \in Texts, NEW y \in Int, NEW n \in Nat
  PROVE  /\ Inserting(y, n) \in Acts /\ Len(Inserting(y, n)) = n
         /\ (\A i \in 1..n : y + i - 1 \in DOMAIN ls) =>
              Removing(ls, y, n) \in Acts /\ Len(Removing(ls, y, n)) = n
         /\ (\A i \in 1..n : y + 1 - i \in DOMAIN ls) =>
              RemovingUp(ls, y, n) \in Acts /\ Len(RemovingUp(ls, y, n)) = n
<1>1. \A k \in DOMAIN ls : ls[k] \in Row
  BY DEF Texts
<1>2. <<>> \in Row
  BY DEF Row
<1>3. \A i \in 1..n : y + i - 1 \in Int /\ y + 1 - i \in Int
  OBVIOUS
<1>4. Inserting(y, n) \in [1..n -> Actions]
  BY <1>2, <1>3 DEF Inserting, Act, Actions, Kinds
<1>5. (\A i \in 1..n : y + i - 1 \in DOMAIN ls) => Removing(ls, y, n) \in [1..n -> Actions]
  BY <1>1, <1>3 DEF Removing, Act, Actions, Kinds
<1>6. (\A i \in 1..n : y + 1 - i \in DOMAIN ls) => RemovingUp(ls, y, n) \in [1..n -> Actions]
  BY <1>1, <1>3 DEF RemovingUp, Act, Actions, Kinds
<1> QED
  BY <1>4, <1>5, <1>6, FunctionIsSeq DEF Acts

\* The text when the first k rows of the block are in.
LEMMA RowsInserted ==
  ASSUME NEW ls \in Texts, NEW block \in Texts, NEW y \in 1..Len(ls) + 1
  PROVE  Trail(ls, Inserting(y, Len(block)), Splice(ls, y, y - 1, block))
<1> DEFINE n == Len(block)
           b(k) == SubSeq(block, 1, k)
           t == [k \in 0..n |-> Splice(ls, y, y - 1, b(k))]
           acts == Inserting(y, n)
<1>0. n \in Nat /\ Len(ls) \in Nat /\ y \in Nat \ {0} /\ y - 1 \in Nat /\ <<>> \in Texts /\ Len(<<>>) = 0
  BY DEF Texts
<1>1. ASSUME NEW k \in 0..n PROVE b(k) \in Texts /\ Len(b(k)) = k /\ \A i \in 1..k : b(k)[i] = block[i]
  <2>1. block \in Seq(Row) /\ k \in Nat /\ k <= Len(block) /\ 1 <= k + 1 /\ 1 \in Nat \ {0}
    BY <1>0 DEF Texts
  <2>2. /\ b(k) \in Seq(Row) /\ Len(b(k)) = k + 1 - 1
        /\ \A i \in 1..k + 1 - 1 : b(k)[i] = block[1 + i - 1]
    BY <2>1, Slice
  <2> QED
    BY <1>0, <2>1, <2>2 DEF Texts
<1> HIDE DEF b
<1>2. ASSUME NEW k \in 0..n PROVE t[k] \in Texts /\ Spliced(t[k], ls, y, y - 1, b(k), k)
  <2>1. Spans(ls, y, y - 1)
    BY <1>0 DEF Spans
  <2> QED
    BY <1>1, <2>1, SpliceIs, Zenon
<1>3. b(0) = <<>> /\ b(n) = block
  BY <1>0, <1>1, SameRows
<1>4. t[0] = ls /\ t[n] = Splice(ls, y, y - 1, block)
  <2>1. t[n] = Splice(ls, y, y - 1, block)
    BY <1>0, <1>3
  <2> HIDE DEF t
  <2>2. t[0] \in Texts /\ Spliced(t[0], ls, y, y - 1, b(0), 0)
    BY <1>0, <1>2
  <2>3. Len(t[0]) = Len(ls) /\ \A i \in 1..y - 1 : t[0][i] = ls[i]
    BY <1>0, <2>2 DEF Spliced
  <2>4. ASSUME NEW i \in y..Len(ls) PROVE t[0][i] = ls[i]
    <3>1. i \in y + 0..(Len(ls) + 0 + y) - ((y - 1) + 1) /\ (i + (y - 1) + 1) - (y + 0) = i
      BY <1>0
    <3> QED
      BY <2>2, <3>1 DEF Spliced
  <2>5. t[0] = ls
    BY <1>0, <2>2, <2>3, <2>4, SameRows
  <2> QED
    BY <2>1, <2>5
<1>5. Len(acts) = n /\ \A k \in 1..n : acts[k] = Act("insert", y + k - 1, <<>>)
  BY <1>0, RunsTyped DEF Inserting
<1>6. t \in [0..n -> Texts]
  BY <1>2
<1> HIDE DEF t, acts
<1>7. ASSUME NEW k \in 1..n
      PROVE  Revertible(t[k], acts[k]) /\ RevertText(t[k], acts[k]) = t[k - 1]
  <2> DEFINE p == t[k - 1]
             q == t[k]
             x == y + k - 1
             z == block[k]
             c == Splice(p, x, x - 1, <<z>>)
  <2>1. k \in 0..n /\ k - 1 \in 0..n /\ x \in Nat \ {0} /\ z \in Row
    BY <1>0 DEF Texts
  <2>2. /\ p \in Texts /\ Spliced(p, ls, y, y - 1, b(k - 1), k - 1)
        /\ q \in Texts /\ Spliced(q, ls, y, y - 1, b(k), k)
    BY <1>2, <2>1
  <2> HIDE DEF p, q, z
  <2>3. Len(p) = Len(ls) + k - 1 /\ Len(q) = Len(ls) + k
    BY <1>0, <2>1, <2>2 DEF Spliced
  <2>4. x \in 1..Len(p) + 1
    BY <1>0, <2>1, <2>3
  <2> HIDE DEF x
  <2>5. /\ c \in Texts /\ Len(c) = Len(p) + 1
        /\ Revertible(c, Act("insert", x, <<>>)) /\ RevertText(c, Act("insert", x, <<>>)) = p
        /\ \A i \in 1..x - 1 : c[i] = p[i]
        /\ c[x] = z
        /\ \A i \in x + 1..Len(p) + 1 : c[i] = p[i - 1]
    BY <2>1, <2>2, <2>4, RowInserted
  <2> HIDE DEF c
  <2>6. \A i \in 1..y - 1 : p[i] = ls[i] /\ q[i] = ls[i]
    BY <2>2 DEF Spliced
  <2>7. ASSUME NEW i \in y..x - 1 PROVE p[i] = block[(i + 1) - y] /\ q[i] = block[(i + 1) - y]
    <3>1. /\ i \in y..y + (k - 1) - 1 /\ i \in y..y + k - 1
          /\ (i + 1) - y \in 1..k - 1 /\ (i + 1) - y \in 1..k
      BY <1>0, <2>1 DEF x
    <3>2. p[i] = b(k - 1)[(i + 1) - y] /\ q[i] = b(k)[(i + 1) - y]
      BY <2>2, <3>1 DEF Spliced
    <3> QED
      BY <1>1, <2>1, <3>1, <3>2
  <2>8. q[x] = z
    <3>1. x \in y..y + k - 1 /\ (x + 1) - y = k /\ k \in 1..k
      BY <1>0, <2>1 DEF x
    <3>2. q[x] = b(k)[k]
      BY <2>2, <3>1 DEF Spliced
    <3> QED
      BY <1>1, <2>1, <3>1, <3>2 DEF z
  <2>9. ASSUME NEW i \in x + 1..Len(ls) + k PROVE q[i] = p[i - 1]
    <3>1. /\ i \in y + k..(Len(ls) + k + y) - ((y - 1) + 1)
          /\ i - 1 \in y + (k - 1)..(Len(ls) + (k - 1) + y) - ((y - 1) + 1)
          /\ (i + (y - 1) + 1) - (y + k) = ((i - 1) + (y - 1) + 1) - (y + (k - 1))
      BY <1>0, <2>1 DEF x
    <3>2. /\ q[i] = ls[(i + (y - 1) + 1) - (y + k)]
          /\ p[i - 1] = ls[((i - 1) + (y - 1) + 1) - (y + (k - 1))]
      BY <2>2, <3>1 DEF Spliced
    <3> QED
      BY <3>1, <3>2
  <2>10. q = c
    <3>1. Len(q) = Len(c)
      BY <1>0, <2>1, <2>3, <2>5
    <3>2. \A i \in 1..Len(q) : i \in 1..y - 1 \/ i \in y..x - 1 \/ i = x \/ i \in x + 1..Len(ls) + k
      BY <1>0, <2>1, <2>3 DEF x
    <3>3. \A i \in 1..y - 1 : i \in 1..x - 1
      BY <1>0, <2>1 DEF x
    <3>4. \A i \in y..x - 1 : i \in 1..x - 1
      BY <1>0, <2>1 DEF x
    <3>5. \A i \in x + 1..Len(ls) + k : i \in x + 1..Len(p) + 1
      BY <1>0, <2>1, <2>3 DEF x
    <3>6. \A i \in 1..Len(q) : q[i] = c[i]
      BY <2>5, <2>6, <2>7, <2>8, <2>9, <3>2, <3>3, <3>4, <3>5
    <3> QED
      BY <2>2, <2>5, <3>1, <3>6, SameRows
  <2>11. acts[k] = Act("insert", x, <<>>)
    BY <1>5 DEF x
  <2> QED
    BY <2>5, <2>10, <2>11 DEF p, q
<1>8. Walks(t, acts)
  BY <1>5, <1>7 DEF Walks
<1> QED
  BY <1>4, <1>5, <1>6, <1>8 DEF Trail, acts

\* d is ls without the rows from..to.
Without(d, ls, from, to) ==
  /\ d \in Texts /\ Len(d) = (Len(ls) + from) - (to + 1)
  /\ \A i \in 1..from - 1 : d[i] = ls[i]
  /\ \A i \in from..(Len(ls) + from) - (to + 1) : d[i] = ls[(i + to + 1) - from]

LEMMA RowsGone ==
  ASSUME NEW ls \in Texts, NEW from, NEW to, Spans(ls, from, to)
  PROVE  Without(Splice(ls, from, to, <<>>), ls, from, to)
<1>0. <<>> \in Texts /\ Len(<<>>) = 0 /\ Len(ls) \in Nat
  BY DEF Texts
<1> DEFINE d == Splice(ls, from, to, <<>>)
<1>1. d \in Texts /\ Spliced(d, ls, from, to, <<>>, 0)
  BY <1>0, SpliceIs, Zenon
<1>2. from \in Nat /\ to \in Nat
  BY DEF Spans
<1> HIDE DEF d
<1>3. Len(d) = (Len(ls) + from) - (to + 1) /\ from + 0 = from
      /\ (Len(ls) + 0 + from) - (to + 1) = (Len(ls) + from) - (to + 1)
  BY <1>0, <1>1, <1>2 DEF Spliced
<1> QED
  BY <1>1, <1>3 DEF Spliced, Without, d

LEMMA SpanOfNone ==
  ASSUME NEW ls \in Texts, NEW d, NEW from \in Nat \ {0}, NEW to, to + 1 = from,
         from <= Len(ls) + 1, to \in Nat, Without(d, ls, from, to)
  PROVE  d = ls
<1>1. Len(ls) \in Nat
  BY DEF Texts
<1>2. Len(d) = Len(ls) /\ \A i \in 1..from - 1 : d[i] = ls[i]
  <2>1. (Len(ls) + from) - (to + 1) = Len(ls)
    BY <1>1
  <2> QED
    BY <2>1 DEF Without
<1>3. ASSUME NEW i \in from..Len(ls) PROVE d[i] = ls[i]
  <2>1. i \in from..(Len(ls) + from) - (to + 1) /\ (i + to + 1) - from = i
    BY <1>1
  <2> QED
    BY <2>1 DEF Without
<1>4. \A i \in 1..Len(d) : i \in 1..from - 1 \/ i \in from..Len(ls)
  BY <1>1, <1>2
<1> QED
  BY <1>2, <1>3, <1>4, SameRows DEF Without

LEMMA RowsRemoved ==
  ASSUME NEW ls \in Texts, NEW y \in Nat \ {0}, NEW n \in Nat, y + n <= Len(ls) + 1
  PROVE  /\ Removing(ls, y, n) \in Acts
         /\ Trail(ls, Removing(ls, y, n), Splice(ls, y, y + n - 1, <<>>))
<1> DEFINE t == [k \in 0..n |-> Splice(ls, y, y + k - 1, <<>>)]
           acts == Removing(ls, y, n)
<1>0. Len(ls) \in Nat /\ DOMAIN ls = 1..Len(ls)
  BY DEF Texts
<1>1. ASSUME NEW k \in 0..n PROVE Without(t[k], ls, y, y + k - 1)
  <2>1. Spans(ls, y, y + k - 1)
    BY <1>0 DEF Spans
  <2> QED
    BY <2>1, RowsGone
<1>2. \A i \in 1..n : y + i - 1 \in DOMAIN ls
  BY <1>0
<1>3. acts \in Acts /\ Len(acts) = n /\ \A k \in 1..n : acts[k] = Act("delete", y, ls[y + k - 1])
  <2>1. \A k \in 1..n : acts[k] = Act("delete", y, ls[y + k - 1])
    BY DEF Removing
  <2>2. y \in Int
    OBVIOUS
  <2>3. acts \in Acts /\ Len(acts) = n
    BY <1>2, <2>2, RunsTyped, Zenon
  <2> QED
    BY <2>1, <2>3
<1>4. t[n] = Splice(ls, y, y + n - 1, <<>>) /\ t \in [0..n -> Texts]
  <2>1. \A k \in 0..n : t[k] \in Texts
    BY <1>1, Zenon DEF Without
  <2>2. t \in [0..n -> Texts]
    BY <2>1
  <2>3. n \in 0..n
    OBVIOUS
  <2> QED
    BY <2>2, <2>3, Zenon
<1> HIDE DEF t, acts
<1>5. t[0] = ls
  <2>1. Without(t[0], ls, y, y + 0 - 1) /\ y + 0 - 1 \in Nat /\ (y + 0 - 1) + 1 = y /\ y <= Len(ls) + 1
    BY <1>0, <1>1
  <2> QED
    BY <2>1, SpanOfNone
<1>6. ASSUME NEW k \in 1..n
      PROVE  Revertible(t[k], acts[k]) /\ RevertText(t[k], acts[k]) = t[k - 1]
  <2> DEFINE p == t[k - 1]
             q == t[k]
             c == Splice(p, y, y, <<>>)
  <2>1. k \in 0..n /\ k - 1 \in 0..n
    OBVIOUS
  <2>2. Without(p, ls, y, y + (k - 1) - 1) /\ Without(q, ls, y, y + k - 1)
    BY <1>1, <2>1
  <2> HIDE DEF p, q
  <2>3. p \in Texts /\ q \in Texts /\ Len(p) = Len(ls) + 1 - k /\ Len(q) = Len(ls) - k
    BY <1>0, <2>2 DEF Without
  <2>4. y \in DOMAIN p
    <3>1. y \in 1..Len(p)
      BY <1>0, <2>3
    <3> QED
      BY <2>3, <3>1 DEF Texts
  <2>5. /\ c \in Texts /\ Len(c) = Len(p) - 1
        /\ Revertible(c, Act("delete", y, p[y])) /\ RevertText(c, Act("delete", y, p[y])) = p
        /\ \A i \in 1..y - 1 : c[i] = p[i]
        /\ \A i \in y..Len(p) - 1 : c[i] = p[i + 1]
    BY <2>3, <2>4, RowDeleted
  <2> HIDE DEF c
  <2>6. \A i \in 1..y - 1 : p[i] = ls[i] /\ q[i] = ls[i]
    BY <2>2 DEF Without
  <2>7. \A i \in y..Len(ls) + 1 - k : p[i] = ls[i + k - 1]
    <3>1. \A i \in y..Len(ls) + 1 - k : /\ i \in y..(Len(ls) + y) - ((y + (k - 1) - 1) + 1)
                                        /\ (i + (y + (k - 1) - 1) + 1) - y = i + k - 1
      BY <1>0
    <3> QED
      BY <2>2, <3>1 DEF Without
  <2>8. \A i \in y..Len(ls) - k : q[i] = ls[i + k]
    <3>1. \A i \in y..Len(ls) - k : /\ i \in y..(Len(ls) + y) - ((y + k - 1) + 1)
                                    /\ (i + (y + k - 1) + 1) - y = i + k
      BY <1>0
    <3> QED
      BY <2>2, <3>1 DEF Without
  <2>9. p[y] = ls[y + k - 1]
    <3>1. y \in y..Len(ls) + 1 - k
      BY <1>0
    <3> QED
      BY <2>7, <3>1
  <2>10. q = c
    <3>1. Len(q) = Len(c) /\ Len(q) = Len(ls) - k /\ Len(p) - 1 = Len(ls) - k
      BY <1>0, <2>3, <2>5
    <3>2. \A i \in y..Len(ls) - k : i + 1 \in y..Len(ls) + 1 - k /\ (i + 1) + k - 1 = i + k
      BY <1>0
    <3>3. \A i \in y..Len(ls) - k : q[i] = c[i]
      BY <2>5, <2>7, <2>8, <3>1, <3>2
    <3>4. \A i \in 1..Len(q) : i \in 1..y - 1 \/ i \in y..Len(ls) - k
      BY <1>0, <3>1
    <3> QED
      BY <2>3, <2>5, <2>6, <3>1, <3>3, <3>4, SameRows
  <2> QED
    BY <1>3, <2>5, <2>9, <2>10 DEF p, q
<1>7. Walks(t, acts)
  BY <1>3, <1>6 DEF Walks
<1> QED
  BY <1>3, <1>4, <1>5, <1>7 DEF Trail, acts

LEMMA RowsRemovedUp ==
  ASSUME NEW ls \in Texts, NEW y \in Nat, NEW n \in Nat, n <= y, y <= Len(ls)
  PROVE  /\ RemovingUp(ls, y, n) \in Acts
         /\ Trail(ls, RemovingUp(ls, y, n), Splice(ls, y + 1 - n, y, <<>>))
<1> DEFINE t == [k \in 0..n |-> Splice(ls, y + 1 - k, y, <<>>)]
           acts == RemovingUp(ls, y, n)
<1>0. Len(ls) \in Nat /\ DOMAIN ls = 1..Len(ls)
  BY DEF Texts
<1>1. ASSUME NEW k \in 0..n PROVE Without(t[k], ls, y + 1 - k, y)
  <2>1. Spans(ls, y + 1 - k, y)
    BY <1>0 DEF Spans
  <2> QED
    BY <2>1, RowsGone
<1>2. \A i \in 1..n : y + 1 - i \in DOMAIN ls
  BY <1>0
<1>3. /\ acts \in Acts /\ Len(acts) = n
      /\ \A k \in 1..n : acts[k] = Act("delete", y + 1 - k, ls[y + 1 - k])
  <2>1. \A k \in 1..n : acts[k] = Act("delete", y + 1 - k, ls[y + 1 - k])
    BY DEF RemovingUp
  <2>2. y \in Int
    OBVIOUS
  <2>3. acts \in Acts /\ Len(acts) = n
    BY <1>2, <2>2, RunsTyped, Zenon
  <2> QED
    BY <2>1, <2>3
<1>4. t[n] = Splice(ls, y + 1 - n, y, <<>>) /\ t \in [0..n -> Texts]
  <2>1. \A k \in 0..n : t[k] \in Texts
    BY <1>1, Zenon DEF Without
  <2>2. t \in [0..n -> Texts]
    BY <2>1
  <2>3. n \in 0..n
    OBVIOUS
  <2> QED
    BY <2>2, <2>3, Zenon
<1> HIDE DEF t, acts
<1>5. t[0] = ls
  <2>1. /\ Without(t[0], ls, y + 1, y) /\ y + 1 \in Nat \ {0} /\ y + 1 <= Len(ls) + 1
    BY <1>0, <1>1
  <2> QED
    BY <2>1, SpanOfNone
<1>6. ASSUME NEW k \in 1..n
      PROVE  Revertible(t[k], acts[k]) /\ RevertText(t[k], acts[k]) = t[k - 1]
  <2> DEFINE p == t[k - 1]
             q == t[k]
             x == y + 1 - k
             c == Splice(p, x, x, <<>>)
  <2>1. k \in 0..n /\ k - 1 \in 0..n /\ x \in 1..Len(ls) /\ x + 1 = y + 1 - (k - 1) /\ x + k = y + 1
    BY <1>0
  <2>2. Without(p, ls, x + 1, y) /\ Without(q, ls, x, y)
    BY <1>1, <2>1
  <2>3. acts[k] = Act("delete", x, ls[x])
    BY <1>3
  <2> HIDE DEF p, q, x
  <2>4. p \in Texts /\ q \in Texts /\ Len(p) = Len(ls) + 1 - k /\ Len(q) = Len(ls) - k
    <3>1. (Len(ls) + (x + 1)) - (y + 1) = Len(ls) + 1 - k /\ (Len(ls) + x) - (y + 1) = Len(ls) - k
      BY <1>0, <2>1
    <3> QED
      BY <2>2, <3>1 DEF Without
  <2>5. x \in DOMAIN p
    <3>1. x \in 1..Len(p)
      BY <1>0, <2>1, <2>4
    <3> QED
      BY <2>4, <3>1 DEF Texts
  <2>6. /\ c \in Texts /\ Len(c) = Len(p) - 1
        /\ Revertible(c, Act("delete", x, p[x])) /\ RevertText(c, Act("delete", x, p[x])) = p
        /\ \A i \in 1..x - 1 : c[i] = p[i]
        /\ \A i \in x..Len(p) - 1 : c[i] = p[i + 1]
    BY <2>4, <2>5, RowDeleted
  <2> HIDE DEF c
  <2>7. \A i \in 1..x : p[i] = ls[i]
    BY <2>1, <2>2 DEF Without
  <2>8. \A i \in 1..x - 1 : q[i] = ls[i]
    BY <2>2 DEF Without
  <2>9. \A i \in x..Len(ls) - k : q[i] = ls[i + k]
    <3>1. \A i \in x..Len(ls) - k : i \in x..(Len(ls) + x) - (y + 1) /\ (i + y + 1) - x = i + k
      BY <1>0, <2>1
    <3> QED
      BY <2>2, <3>1 DEF Without
  <2>10. \A i \in x + 1..Len(ls) + 1 - k : p[i] = ls[i + k - 1]
    <3>1. \A i \in x + 1..Len(ls) + 1 - k :
            i \in x + 1..(Len(ls) + (x + 1)) - (y + 1) /\ (i + y + 1) - (x + 1) = i + k - 1
      BY <1>0, <2>1
    <3> QED
      BY <2>2, <3>1 DEF Without
  <2>11. q = c
    <3>1. Len(q) = Len(c) /\ Len(q) = Len(ls) - k /\ Len(p) - 1 = Len(ls) - k
      BY <1>0, <2>4, <2>6
    <3>2. \A i \in x..Len(ls) - k : i + 1 \in x + 1..Len(ls) + 1 - k /\ (i + 1) + k - 1 = i + k
      BY <1>0, <2>1
    <3>3. \A i \in x..Len(ls) - k : q[i] = c[i]
      BY <2>6, <2>9, <2>10, <3>1, <3>2
    <3>4. \A i \in 1..Len(q) : i \in 1..x - 1 \/ i \in x..Len(ls) - k
      BY <1>0, <2>1, <3>1
    <3>5. \A i \in 1..x - 1 : q[i] = c[i]
      <4>1. \A i \in 1..x - 1 : i \in 1..x
        BY <2>1
      <4> QED
        BY <2>6, <2>7, <2>8, <4>1
    <3> QED
      BY <2>4, <2>6, <3>1, <3>3, <3>4, <3>5, SameRows
  <2>12. p[x] = ls[x]
    BY <2>1, <2>7
  <2> QED
    BY <2>3, <2>6, <2>11, <2>12 DEF p, q
<1>7. Walks(t, acts)
  BY <1>3, <1>6 DEF Walks
<1> QED
  BY <1>3, <1>4, <1>5, <1>7 DEF Trail, acts

-----------------------------------------------------------------------------
(* One way to a text and another. *)

\* A row replaced and the rows after it, or all at once.
LEMMA RowAndRest ==
  ASSUME NEW ls \in Texts, NEW s \in DOMAIN ls, NEW e \in DOMAIN ls, s <= e,
         NEW z \in Row, NEW block \in Texts
  PROVE  /\ <<z>> \o block \in Texts /\ Spans([ls EXCEPT ![s] = z], s + 1, e)
         /\ Splice([ls EXCEPT ![s] = z], s + 1, e, block) = Splice(ls, s, e, <<z>> \o block)
<1> DEFINE m == [ls EXCEPT ![s] = z]
           w == <<z>>
           b == w \o block
           p == Splice(m, s + 1, e, block)
           q == Splice(ls, s, e, b)
           n == Len(block)
<1>0. /\ Len(ls) \in Nat /\ n \in Nat /\ s \in 1..Len(ls) /\ e \in 1..Len(ls)
      /\ w \in Texts /\ Len(w) = 1 /\ w[1] = z
  BY DEF Texts
<1>1. m \in Texts /\ Len(m) = Len(ls) /\ \A i \in 1..Len(ls) : m[i] = IF i = s THEN z ELSE ls[i]
  BY RowReplaced
<1> HIDE DEF w
<1>2. /\ b \in Texts /\ Len(b) = 1 + n /\ \A i \in 1..Len(w) : b[i] = w[i]
      /\ \A i \in Len(w) + 1..Len(w) + n : b[i] = block[i - Len(w)]
  <2>1. /\ b \in Texts /\ Len(b) = Len(w) + n /\ \A i \in 1..Len(w) : b[i] = w[i]
        /\ \A i \in Len(w) + 1..Len(w) + n : b[i] = block[i - Len(w)]
    BY <1>0, Joined, Zenon
  <2> QED
    BY <1>0, <2>1, Zenon
<1> HIDE DEF m, b, n
<1>3. Spans(m, s + 1, e) /\ Spans(ls, s, e)
  BY <1>0, <1>1 DEF Spans
<1>4. p \in Texts /\ Spliced(p, m, s + 1, e, block, n)
  BY <1>1, <1>3, SpliceIs, Zenon DEF n
<1>5. q \in Texts /\ Spliced(q, ls, s, e, b, 1 + n)
  BY <1>2, <1>3, SpliceIs, Zenon
<1> HIDE DEF p, q
<1>6. Len(p) = Len(q) /\ Len(q) = (Len(ls) + n + s) - e
  BY <1>0, <1>1, <1>4, <1>5 DEF Spliced
<1>7. ASSUME NEW i \in 1..s - 1 PROVE p[i] = q[i]
  <2>1. i \in 1..(s + 1) - 1 /\ i \in 1..Len(ls) /\ i # s
    BY <1>0
  <2>2. p[i] = m[i] /\ q[i] = ls[i]
    BY <1>4, <1>5, <2>1 DEF Spliced
  <2> QED
    BY <1>1, <2>1, <2>2
<1>8. p[s] = q[s]
  <2>1. s \in 1..(s + 1) - 1 /\ s \in s..s + (1 + n) - 1 /\ (s + 1) - s = 1 /\ 1 \in 1..1
    BY <1>0
  <2>2. p[s] = m[s] /\ q[s] = b[1]
    BY <1>4, <1>5, <2>1 DEF Spliced
  <2> QED
    BY <1>0, <1>1, <1>2, <2>2
<1>9. ASSUME NEW i \in s + 1..s + n PROVE p[i] = q[i]
  <2>1. /\ i \in s + 1..(s + 1) + n - 1 /\ i \in s..s + (1 + n) - 1
        /\ (i + 1) - s \in 1 + 1..1 + n /\ ((i + 1) - s) - 1 = (i + 1) - (s + 1)
    <3>1. s \in Nat /\ n \in Nat
      BY <1>0
    <3> QED
      BY <3>1
  <2>2. p[i] = block[(i + 1) - (s + 1)] /\ q[i] = b[(i + 1) - s]
    BY <1>4, <1>5, <2>1 DEF Spliced
  <2> QED
    BY <1>0, <1>2, <2>1, <2>2
<1>10. ASSUME NEW i \in s + n + 1..(Len(ls) + n + s) - e PROVE p[i] = q[i]
  <2> DEFINE j == (i + e + 1) - (s + 1 + n)
  <2>1. /\ i \in (s + 1) + n..(Len(m) + n + (s + 1)) - (e + 1)
        /\ i \in s + (1 + n)..(Len(ls) + (1 + n) + s) - (e + 1)
        /\ (i + e + 1) - ((s + 1) + n) = j /\ (i + e + 1) - (s + (1 + n)) = j
        /\ j \in 1..Len(ls) /\ j # s
    <3> DEFINE l == Len(ls)
    <3>1. s \in Nat /\ n \in Nat /\ l \in Nat /\ e \in 1..l /\ s \in 1..l /\ s <= e /\ Len(m) = l
      BY <1>0, <1>1
    <3>2. i \in s + n + 1..(l + n + s) - e
      OBVIOUS
    <3> HIDE DEF l
    <3>3. i \in Int /\ i >= s + n + 1 /\ i <= (l + n + s) - e
      BY <3>1, <3>2
    <3>4. /\ i \in (s + 1) + n..(l + n + (s + 1)) - (e + 1)
          /\ i \in s + (1 + n)..(l + (1 + n) + s) - (e + 1)
      <4>1. /\ i >= (s + 1) + n /\ i <= (l + n + (s + 1)) - (e + 1)
            /\ i >= s + (1 + n) /\ i <= (l + (1 + n) + s) - (e + 1)
        BY <3>1, <3>3, SMTT(30)
      <4> QED
        BY <3>1, <3>3, <4>1
    <3>5. j \in 1..l /\ j # s /\ (i + e + 1) - ((s + 1) + n) = j /\ (i + e + 1) - (s + (1 + n)) = j
      BY <3>1, <3>3, SMTT(30)
    <3> QED
      BY <3>1, <3>4, <3>5 DEF l
  <2> HIDE DEF j
  <2>2. p[i] = m[j] /\ q[i] = ls[j]
    BY <1>4, <1>5, <2>1 DEF Spliced
  <2> QED
    BY <1>1, <2>1, <2>2
<1>11. \A i \in 1..Len(p) : \/ i \in 1..s - 1 \/ i = s \/ i \in s + 1..s + n
                            \/ i \in s + n + 1..(Len(ls) + n + s) - e
  <2> DEFINE l == Len(p)
             f == (Len(ls) + n + s) - e
  <2>1. s \in Nat \ {0} /\ n \in Nat /\ f \in Nat /\ l = f
    BY <1>0, <1>6
  <2> HIDE DEF l, f
  <2>2. \A i \in 1..l : i \in 1..s - 1 \/ i = s \/ i \in s + 1..s + n \/ i \in s + n + 1..f
    BY <2>1
  <2> QED
    BY <2>2 DEF l, f
<1>12. p = q
  BY <1>4, <1>5, <1>6, <1>7, <1>8, <1>9, <1>10, <1>11, SameRows
<1> QED
  BY <1>2, <1>3, <1>12 DEF m, b, w, p, q

\* Rows taken out and others put in there, or replaced at once.
LEMMA OutAndIn ==
  ASSUME NEW ls \in Texts, NEW from, NEW to, Spans(ls, from, to), NEW block \in Texts
  PROVE  /\ from \in 1..Len(Splice(ls, from, to, <<>>)) + 1
         /\ Same(Splice(Splice(ls, from, to, <<>>), from, from - 1, block), Splice(ls, from, to, block))
<1> DEFINE m == Splice(ls, from, to, <<>>)
           p == Splice(m, from, from - 1, block)
           q == Splice(ls, from, to, block)
           n == Len(block)
<1>0. /\ Len(ls) \in Nat /\ n \in Nat /\ from \in Nat \ {0} /\ to \in Nat /\ from <= to + 1
      /\ to <= Len(ls) /\ from - 1 \in Nat
  BY DEF Texts, Spans
<1>1. Without(m, ls, from, to)
  BY RowsGone
<1> HIDE DEF m, n
<1>2. m \in Texts /\ Len(m) = (Len(ls) + from) - (to + 1)
  BY <1>1 DEF Without
<1>3. Spans(m, from, from - 1)
  BY <1>0, <1>2 DEF Spans
<1>4. p \in Texts /\ Spliced(p, m, from, from - 1, block, n)
  BY <1>2, <1>3, SpliceIs, Zenon DEF n
<1>5. q \in Texts /\ Spliced(q, ls, from, to, block, n)
  BY SpliceIs, Zenon DEF n
<1> HIDE DEF p, q
<1>6. Len(p) = Len(q) /\ Len(q) = (Len(ls) + n + from) - (to + 1)
  BY <1>0, <1>2, <1>4, <1>5 DEF Spliced
<1>7. \A i \in 1..from - 1 : p[i] = q[i]
  BY <1>1, <1>4, <1>5 DEF Spliced, Without
<1>8. \A i \in from..from + n - 1 : p[i] = q[i]
  BY <1>4, <1>5 DEF Spliced
<1>9. ASSUME NEW i \in from + n..(Len(ls) + n + from) - (to + 1) PROVE p[i] = q[i]
  <2> DEFINE j == (i + (from - 1) + 1) - (from + n)
  <2>1. /\ i \in from + n..(Len(m) + n + from) - ((from - 1) + 1)
        /\ j \in from..(Len(ls) + from) - (to + 1)
        /\ (j + to + 1) - from = (i + to + 1) - (from + n)
    BY <1>0, <1>2
  <2> HIDE DEF j
  <2>2. p[i] = m[j] /\ q[i] = ls[(i + to + 1) - (from + n)]
    BY <1>4, <1>5, <2>1 DEF Spliced, j
  <2>3. m[j] = ls[(j + to + 1) - from]
    BY <1>1, <2>1 DEF Without
  <2> QED
    BY <2>1, <2>2, <2>3
<1>10. \A i \in 1..Len(p) : \/ i \in 1..from - 1 \/ i \in from..from + n - 1
                            \/ i \in from + n..(Len(ls) + n + from) - (to + 1)
  BY <1>0, <1>6
<1>11. p = q
  BY <1>4, <1>5, <1>6, <1>7, <1>8, <1>9, <1>10, SameRows
<1>12. from \in 1..Len(m) + 1
  BY <1>0, <1>2
<1> QED
  BY <1>11, <1>12 DEF m, p, q, Same

\* The rows from..to of ls are n rows further down in m.
MovedDown(m, ls, from, to, n) == \A i \in from + n..to + n : m[i] = ls[i - n]

\* Rows put in and those after them taken out, or replaced at once.
LEMMA InAndOut ==
  ASSUME NEW ls \in Texts, NEW from, NEW to, Spans(ls, from, to), NEW block \in Texts,
         NEW n, n = Len(block), NEW m, Same(m, Splice(ls, from, from - 1, block))
  PROVE  /\ from \in 1..Len(ls) + 1 /\ m \in Texts /\ to + n <= Len(m)
         /\ MovedDown(m, ls, from, to, n)
         /\ Same(Splice(m, from + n, to + n, <<>>), Splice(ls, from, to, block))
<1> DEFINE p == Splice(m, from + n, to + n, <<>>)
           q == Splice(ls, from, to, block)
<1>0. /\ Len(ls) \in Nat /\ n \in Nat /\ from \in Nat \ {0} /\ to \in Nat /\ from <= to + 1
      /\ to <= Len(ls) /\ from - 1 \in Nat /\ from \in 1..Len(ls) + 1
  BY DEF Texts, Spans
<1>1. m \in Texts /\ Spliced(m, ls, from, from - 1, block, n)
  <2>1. Spans(ls, from, from - 1)
    BY <1>0 DEF Spans
  <2>2. LET w == Splice(ls, from, from - 1, block)
        IN w \in Texts /\ Spliced(w, ls, from, from - 1, block, n)
    BY <2>1, SpliceIs, Zenon
  <2> QED
    BY <2>2, Zenon DEF Same
<1>2. Len(m) = Len(ls) + n
  BY <1>0, <1>1 DEF Spliced
<1>3. \A i \in from + n..Len(ls) + n : m[i] = ls[i - n]
  <2>1. \A i \in from + n..Len(ls) + n : /\ i \in from + n..(Len(ls) + n + from) - ((from - 1) + 1)
                                         /\ (i + (from - 1) + 1) - (from + n) = i - n
    BY <1>0
  <2> QED
    BY <1>1, <2>1 DEF Spliced
<1>4. Without(p, m, from + n, to + n)
  <2>1. Spans(m, from + n, to + n)
    BY <1>0, <1>2 DEF Spans
  <2> QED
    BY <1>1, <2>1, RowsGone
<1>5. q \in Texts /\ Spliced(q, ls, from, to, block, n)
  BY SpliceIs, Zenon
<1> HIDE DEF p, q
<1>6. Len(p) = Len(q) /\ Len(q) = (Len(ls) + n + from) - (to + 1)
  <2>1. Len(p) = (Len(m) + (from + n)) - ((to + n) + 1) /\ Len(q) = (Len(ls) + n + from) - (to + 1)
    BY <1>4, <1>5 DEF Without, Spliced
  <2> QED
    BY <1>0, <1>2, <2>1
<1>7. ASSUME NEW i \in 1..from - 1 PROVE p[i] = q[i]
  <2>1. i \in 1..(from + n) - 1
    BY <1>0
  <2> QED
    BY <1>1, <1>4, <1>5, <2>1 DEF Without, Spliced
<1>8. ASSUME NEW i \in from..from + n - 1 PROVE p[i] = q[i]
  <2>1. i \in 1..(from + n) - 1
    BY <1>0
  <2>2. p[i] = m[i]
    BY <1>4, <2>1 DEF Without
  <2> QED
    BY <1>1, <1>5, <2>2 DEF Spliced
<1>9. ASSUME NEW i \in from + n..(Len(ls) + n + from) - (to + 1) PROVE p[i] = q[i]
  <2> DEFINE j == (i + (to + n) + 1) - (from + n)
  <2>1. /\ i \in from + n..(Len(m) + (from + n)) - ((to + n) + 1)
        /\ j \in from + n..Len(ls) + n
        /\ j - n = (i + to + 1) - (from + n)
    BY <1>0, <1>2
  <2>2. p[i] = m[j] /\ q[i] = ls[(i + to + 1) - (from + n)]
    BY <1>4, <1>5, <2>1 DEF Without, Spliced
  <2>3. m[j] = ls[j - n]
    BY <1>3, <2>1
  <2> QED
    BY <2>1, <2>2, <2>3
<1>10. \A i \in 1..Len(p) : \/ i \in 1..from - 1 \/ i \in from..from + n - 1
                            \/ i \in from + n..(Len(ls) + n + from) - (to + 1)
  BY <1>0, <1>6
<1>11. p = q
  BY <1>4, <1>5, <1>6, <1>7, <1>8, <1>9, <1>10, SameRows DEF Without
<1>12. to + n <= Len(m) /\ \A i \in from + n..to + n : i \in from + n..Len(ls) + n
  BY <1>0, <1>2
<1> QED
  BY <1>0, <1>1, <1>3, <1>11, <1>12 DEF p, q, Same, MovedDown

\* The last row of a block replaced once it is in.
LEMMA LastOfBlock ==
  ASSUME NEW ls \in Texts, NEW y \in DOMAIN ls, NEW block \in Texts,
         NEW u \in Row, NEW v \in Row, NEW x, x = y + Len(block)
  PROVE  /\ Splice(ls, y, y, block \o <<u>>) \in Texts /\ Splice(ls, y, y, block \o <<v>>) \in Texts
         /\ Undoes(Splice(ls, y, y, block \o <<v>>), Act("replace", x, u), Splice(ls, y, y, block \o <<u>>))
<1> DEFINE U == <<u>>
           V == <<v>>
           n == Len(block)
           bu == block \o U
           bv == block \o V
           p == Splice(ls, y, y, bu)
           q == Splice(ls, y, y, bv)
           r == [p EXCEPT ![x] = v]
<1>0. /\ Len(ls) \in Nat /\ n \in Nat /\ y \in 1..Len(ls) /\ x = y + n
      /\ U \in Texts /\ Len(U) = 1 /\ U[1] = u /\ V \in Texts /\ Len(V) = 1 /\ V[1] = v
  BY DEF Texts
<1> HIDE DEF U, V, n
<1>1. /\ bu \in Texts /\ Len(bu) = n + 1 /\ (\A i \in 1..n : bu[i] = block[i]) /\ bu[n + 1] = u
      /\ bv \in Texts /\ Len(bv) = n + 1 /\ (\A i \in 1..n : bv[i] = block[i]) /\ bv[n + 1] = v
  <2>1. n + 1 \in n + 1..n + 1 /\ (n + 1) - n = 1
    BY <1>0
  <2>2. /\ bu \in Texts /\ Len(bu) = n + 1 /\ (\A i \in 1..n : bu[i] = block[i])
        /\ \A i \in n + 1..n + 1 : bu[i] = U[i - n]
    <3>1. /\ bu \in Texts /\ Len(bu) = n + Len(U) /\ (\A i \in 1..n : bu[i] = block[i])
          /\ \A i \in n + 1..n + Len(U) : bu[i] = U[i - n]
      BY <1>0, Joined, Zenon DEF n
    <3> QED
      BY <1>0, <3>1, Zenon
  <2>3. /\ bv \in Texts /\ Len(bv) = n + 1 /\ (\A i \in 1..n : bv[i] = block[i])
        /\ \A i \in n + 1..n + 1 : bv[i] = V[i - n]
    <3>1. /\ bv \in Texts /\ Len(bv) = n + Len(V) /\ (\A i \in 1..n : bv[i] = block[i])
          /\ \A i \in n + 1..n + Len(V) : bv[i] = V[i - n]
      BY <1>0, Joined, Zenon DEF n
    <3> QED
      BY <1>0, <3>1, Zenon
  <2> QED
    BY <1>0, <2>1, <2>2, <2>3
<1> HIDE DEF bu, bv
<1>2. Spans(ls, y, y)
  BY <1>0 DEF Spans
<1>3. /\ p \in Texts /\ Spliced(p, ls, y, y, bu, n + 1)
      /\ q \in Texts /\ Spliced(q, ls, y, y, bv, n + 1)
  BY <1>1, <1>2, SpliceIs, Zenon
<1> HIDE DEF p, q
<1>4. Len(p) = Len(ls) + n /\ Len(q) = Len(ls) + n
  BY <1>0, <1>3 DEF Spliced
<1>5. x \in DOMAIN p /\ x \in 1..Len(p)
  <2>1. x \in 1..Len(p)
    BY <1>0, <1>4
  <2> QED
    BY <1>3, <2>1 DEF Texts
<1>6. p[x] = u /\ q[x] = v
  <2>1. x \in y..y + (n + 1) - 1 /\ (x + 1) - y = n + 1
    BY <1>0
  <2> QED
    BY <1>1, <1>3, <2>1 DEF Spliced
<1>7. r \in Texts /\ Len(r) = Len(p) /\ \A i \in 1..Len(p) : r[i] = IF i = x THEN v ELSE p[i]
  BY <1>3, <1>5, RowReplaced
<1> HIDE DEF r
<1>8. ASSUME NEW i \in 1..Len(p), i # x PROVE p[i] = q[i]
  <2>1. CASE i \in 1..y - 1
    BY <1>3, <2>1 DEF Spliced
  <2>2. CASE i \in y..y + n - 1
    <3>1. i \in y..y + (n + 1) - 1 /\ (i + 1) - y \in 1..n
      BY <1>0, <2>2
    <3>2. p[i] = bu[(i + 1) - y] /\ q[i] = bv[(i + 1) - y]
      BY <1>3, <3>1 DEF Spliced
    <3> QED
      BY <1>1, <3>1, <3>2
  <2>3. CASE i \in y + (n + 1)..Len(p)
    <3>1. i \in y + (n + 1)..(Len(ls) + (n + 1) + y) - (y + 1)
      BY <1>0, <1>4, <2>3
    <3> QED
      BY <1>3, <3>1 DEF Spliced
  <2>4. i \in 1..y - 1 \/ i \in y..y + n - 1 \/ i \in y + (n + 1)..Len(p)
    BY <1>0, <1>4, <1>8, SMTT(30)
  <2> QED
    BY <2>1, <2>2, <2>3, <2>4
<1>9. r = q
  <2>1. \A i \in 1..Len(r) : r[i] = q[i]
    BY <1>6, <1>7, <1>8
  <2> QED
    BY <1>3, <1>4, <1>7, <2>1, SameRows
<1>10. [p EXCEPT ![x] = u] = p
  BY <1>3, <1>5, <1>6, SameRow
<1>11. Undoes([p EXCEPT ![x] = v], Act("replace", x, u), [p EXCEPT ![x] = u])
  BY <1>3, <1>5, RowReverted, Zenon
<1>12. Undoes(q, Act("replace", x, u), p)
  BY <1>9, <1>10, <1>11 DEF r
<1> QED
  BY <1>3, <1>12 DEF p, q, bu, bv, U, V


Places == [y : Int, x : Int]
Marks  == [s : Places, e : Places]
Copies == [ls : Texts, cur : Places, sel : Marks, acts : Acts]

\* A working copy whose actions lead back to the text a.
Since(a, d) == d \in Copies /\ Trail(a, d.acts, d.ls)

-----------------------------------------------------------------------------
(* Rows, places and markers are typed. *)

LEMMA LengthOfRow == \A l \in Row : Len(l) \in Nat
BY DEF Row

LEMMA PartOfRow ==
  ASSUME NEW l \in Row, NEW col \in Int
  PROVE  Before(l, col) \in Row /\ After(l, col) \in Row
<1> DEFINE n == Smaller(col, Len(l))
           m == Smaller(Larger(col, 0), Len(l)) + 1
<1>0. l \in Seq(Nat) /\ Len(l) \in Nat /\ DOMAIN l = 1..Len(l)
  BY DEF Row
<1>1. n \in Int /\ n <= Len(l) /\ m \in Int /\ m >= 1
  BY <1>0 DEF Smaller, Larger
<1> HIDE DEF n, m
<1>2. \A i \in 1..n : l[i] \in Nat
  BY <1>0, <1>1
<1>3. \A i \in m..Len(l) : l[i] \in Nat
  BY <1>0, <1>1
<1>4. SubSeq(l, 1, n) \in Seq(Nat)
  BY <1>1, <1>2, SubSeqProperties
<1>5. SubSeq(l, m, Len(l)) \in Seq(Nat)
  BY <1>0, <1>1, <1>3, SubSeqProperties
<1> QED
  BY <1>4, <1>5 DEF Before, After, Row, n, m

LEMMA RowsJoined == \A l \in Row, k \in Row : l \o k \in Row
BY DEF Row

LEMMA OneChar == \A c \in Nat : <<c>> \in Row
BY DEF Row

LEMMA NoChar == <<>> \in Row
BY DEF Row

LEMMA AtTyped == /\ NoMark \in Places /\ NoSel \in Marks
                 /\ \A y \in Int, x \in Int : At(y, x) \in Places /\ At(y, x).y = y /\ At(y, x).x = x
BY DEF NoMark, NoSel, At, Places, Marks

LEMMA Sanitized == \A ms \in Marks : Sanitize(ms) \in Marks
BY AtTyped DEF Sanitize

LEMMA Adjusted ==
  ASSUME NEW ms \in Marks, NEW to, to[ms.s] \in Places, to[ms.e] \in Places
  PROVE  Adjust(ms, to) \in Marks
BY Sanitized DEF Adjust, Marks

\* Each way to move the markers.
LEMMA InsertMoves ==
  ASSUME NEW ms \in Marks, NEW at \in Places, NEW n \in Int
  PROVE  ForInsert(ms, at, n) \in Marks
<1> DEFINE to == [m \in {ms.s, ms.e} |-> IF m.y = at.y /\ m.x >= at.x THEN At(m.y, m.x + n) ELSE m]
<1>1. \A m \in Places : (IF m.y = at.y /\ m.x >= at.x THEN At(m.y, m.x + n) ELSE m) \in Places
  BY DEF At, Places
<1>2. ms.s \in Places /\ ms.e \in Places
  BY DEF Marks
<1>3. to[ms.s] \in Places /\ to[ms.e] \in Places
  BY <1>1, <1>2
<1> HIDE DEF to
<1>4. Adjust(ms, to) \in Marks
  BY <1>3, Adjusted
<1> QED
  BY <1>4 DEF ForInsert, to

LEMMA DeleteMoves ==
  ASSUME NEW ms \in Marks, NEW at \in Places, NEW n \in Int
  PROVE  ForDelete(ms, at, n) \in Marks
<1> DEFINE to == [m \in {ms.s, ms.e} |-> IF m.y = at.y /\ m.x > at.x
                                        THEN At(m.y, Larger(m.x - n, at.x)) ELSE m]
<1>1. \A m \in Places : (IF m.y = at.y /\ m.x > at.x
                         THEN At(m.y, Larger(m.x - n, at.x)) ELSE m) \in Places
  BY DEF At, Places, Larger
<1>2. ms.s \in Places /\ ms.e \in Places
  BY DEF Marks
<1>3. to[ms.s] \in Places /\ to[ms.e] \in Places
  BY <1>1, <1>2
<1> HIDE DEF to
<1>4. Adjust(ms, to) \in Marks
  BY <1>3, Adjusted
<1> QED
  BY <1>4 DEF ForDelete, to

LEMMA SplitMoves ==
  ASSUME NEW ms \in Marks, NEW at \in Places
  PROVE  ForSplit(ms, at) \in Marks
<1> DEFINE to == [m \in {ms.s, ms.e} |-> IF m.y = at.y /\ m.x >= at.x THEN At(m.y + 1, m.x - at.x)
                                        ELSE IF m.y > at.y THEN At(m.y + 1, m.x) ELSE m]
<1>1. \A m \in Places : (IF m.y = at.y /\ m.x >= at.x THEN At(m.y + 1, m.x - at.x)
                         ELSE IF m.y > at.y THEN At(m.y + 1, m.x) ELSE m) \in Places
  BY DEF At, Places
<1>2. ms.s \in Places /\ ms.e \in Places
  BY DEF Marks
<1>3. to[ms.s] \in Places /\ to[ms.e] \in Places
  BY <1>1, <1>2
<1> HIDE DEF to
<1>4. Adjust(ms, to) \in Marks
  BY <1>3, Adjusted
<1> QED
  BY <1>4 DEF ForSplit, to

LEMMA JoinMoves ==
  ASSUME NEW ms \in Marks, NEW y \in Int, NEW n \in Int
  PROVE  ForJoin(ms, y, n) \in Marks
<1> DEFINE to == [m \in {ms.s, ms.e} |-> IF m.y = y THEN At(y - 1, m.x + n)
                                        ELSE IF m.y > y THEN At(m.y - 1, m.x) ELSE m]
<1>1. \A m \in Places : (IF m.y = y THEN At(y - 1, m.x + n)
                         ELSE IF m.y > y THEN At(m.y - 1, m.x) ELSE m) \in Places
  BY DEF At, Places
<1>2. ms.s \in Places /\ ms.e \in Places
  BY DEF Marks
<1>3. to[ms.s] \in Places /\ to[ms.e] \in Places
  BY <1>1, <1>2
<1> HIDE DEF to
<1>4. Adjust(ms, to) \in Marks
  BY <1>3, Adjusted
<1> QED
  BY <1>4 DEF ForJoin, to

\* Deleting a row: where the markers are set they are on rows that are left.
OnText(ms, ls) == \A q \in {ms.s, ms.e} \ {NoMark} : q.y \in DOMAIN ls

LEMMA LineDeleteMoves ==
  ASSUME NEW ms \in Marks, NEW ls \in Texts, NEW y \in 1..Len(ls) + 1
  PROVE  /\ ForLineDelete(ms, ls, y) \in Marks
         /\ (\A q \in {ms.s, ms.e} \ {NoMark} : q.y \in 1..Len(ls) + 1)
              => OnText(ForLineDelete(ms, ls, y), ls)
<1> DEFINE go(m) == IF m.y = y
                    THEN IF y < Len(ls) THEN At(y, 0)
                         ELSE IF y - 1 \in DOMAIN ls THEN At(y - 1, Len(ls[y - 1])) ELSE NoMark
                    ELSE IF m.y > y THEN At(m.y - 1, m.x) ELSE m
           to == [m \in {ms.s, ms.e} |-> go(m)]
<1>0. /\ Len(ls) \in Nat /\ DOMAIN ls = 1..Len(ls) /\ y \in Nat /\ \A i \in DOMAIN ls : Len(ls[i]) \in Nat
      /\ ms.s \in Places /\ ms.e \in Places
  BY LengthOfRow DEF Texts, Marks
<1>1. ASSUME NEW m \in Places PROVE go(m) \in Places
  BY <1>0 DEF At, Places, NoMark
<1>2. ASSUME NEW m \in Places, m = NoMark \/ m.y \in 1..Len(ls) + 1
      PROVE  go(m) = NoMark \/ go(m).y \in DOMAIN ls
  <2>1. CASE m.y = y
    BY <1>0, <2>1 DEF At
  <2>2. CASE m.y > y
    <3>1. m # NoMark
      BY <1>0, <2>2 DEF NoMark
    <3> QED
      BY <1>0, <1>2, <2>2, <3>1 DEF At
  <2>3. CASE m.y < y
    BY <1>0, <1>2, <2>3 DEF Places
  <2> QED
    BY <1>0, <2>1, <2>2, <2>3 DEF Places
<1> HIDE DEF go
<1>3. to[ms.s] = go(ms.s) /\ to[ms.e] = go(ms.e)
  OBVIOUS
<1>4. ForLineDelete(ms, ls, y) = IF NoMark \in {to[ms.s], to[ms.e]} THEN NoSel ELSE Adjust(ms, to)
  BY DEF ForLineDelete, go
<1> HIDE DEF to
<1>5. to[ms.s] \in Places /\ to[ms.e] \in Places
  BY <1>0, <1>1, <1>3
<1>6. ForLineDelete(ms, ls, y) \in Marks
  BY <1>4, <1>5, Adjusted, AtTyped
<1>7. ASSUME \A q \in {ms.s, ms.e} \ {NoMark} : q.y \in 1..Len(ls) + 1
      PROVE  OnText(ForLineDelete(ms, ls, y), ls)
  <2>1. OnText(NoSel, ls)
    BY DEF OnText, NoSel
  <2>2. ms.s = NoMark \/ ms.s.y \in 1..Len(ls) + 1
    BY <1>7
  <2>3. ms.e = NoMark \/ ms.e.y \in 1..Len(ls) + 1
    BY <1>7
  <2>4. (to[ms.s] = NoMark \/ to[ms.s].y \in DOMAIN ls) /\ (to[ms.e] = NoMark \/ to[ms.e].y \in DOMAIN ls)
    BY <1>0, <1>2, <1>3, <2>2, <2>3
  <2>5. OnText([s |-> to[ms.s], e |-> to[ms.e]], ls)
    BY <2>4 DEF OnText
  <2>6. OnText(Adjust(ms, to), ls)
    BY <2>1, <2>5 DEF Adjust, Sanitize
  <2> QED
    BY <1>4, <2>1, <2>6
<1> QED
  BY <1>6, <1>7

-----------------------------------------------------------------------------
(* Working copies: a row recorded and replaced, or changed at the cursor. *)

\* x is the working copy with these parts.
IsCopy(x, ls, c, ms, acts) == x = [ls |-> ls, cur |-> c, sel |-> ms, acts |-> acts]

LEMMA CopyIs ==
  ASSUME NEW a, NEW ls, NEW c \in Places, NEW ms \in Marks, NEW acts \in Acts, Trail(a, acts, ls),
         NEW x, IsCopy(x, ls, c, ms, acts)
  PROVE  Since(a, x) /\ x.ls = ls /\ x.cur = c /\ x.sel = ms /\ x.acts = acts
<1>1. ls \in Texts
  BY TrailTyped
<1>2. x = [ls |-> ls, cur |-> c, sel |-> ms, acts |-> acts]
  BY DEF IsCopy
<1>3. x.ls = ls /\ x.cur = c /\ x.sel = ms /\ x.acts = acts
  BY <1>2
<1> QED
  BY <1>1, <1>2, <1>3 DEF Since, Copies

LEMMA CopyHas ==
  ASSUME NEW a, NEW d, Since(a, d)
  PROVE  /\ d.ls \in Texts /\ d.cur \in Places /\ d.sel \in Marks /\ d.acts \in Acts
         /\ Trail(a, d.acts, d.ls)
         /\ d = [ls |-> d.ls, cur |-> d.cur, sel |-> d.sel, acts |-> d.acts]
         /\ \A y \in DOMAIN d.ls : d.ls[y] \in Row /\ y \in Int
BY DEF Since, Copies, Texts

\* Fields of a working copy set one after the other.
SetTo(x, r, ls, ms, c) == x = [r EXCEPT !.ls = ls, !.sel = ms, !.cur = c]

LEMMA Reset ==
  ASSUME NEW r, NEW L, NEW C, NEW S, NEW A, IsCopy(r, L, C, S, A),
         NEW z, NEW m, NEW p, NEW x, SetTo(x, r, z, m, p)
  PROVE  IsCopy(x, z, p, m, A)
<1> DEFINE r1 == [r EXCEPT !.ls = z]
           r2 == [r1 EXCEPT !.sel = m]
           r3 == [r2 EXCEPT !.cur = p]
<1>1. r1 = [ls |-> z, cur |-> C, sel |-> S, acts |-> A]
  BY DEF IsCopy
<1> HIDE DEF r1
<1>2. r2 = [ls |-> z, cur |-> C, sel |-> m, acts |-> A]
  BY <1>1
<1> HIDE DEF r2
<1>3. r3 = [ls |-> z, cur |-> p, sel |-> m, acts |-> A]
  BY <1>2
<1> HIDE DEF r3
<1>4. r3 = x
  BY Zenon DEF r1, r2, r3, SetTo
<1> QED
  BY <1>3, <1>4, Zenon DEF IsCopy

\* A row recorded, and then replaced.
LEMMA RowRecorded ==
  ASSUME NEW a, NEW p \in Acts, NEW ls, Trail(a, p, ls), NEW y \in DOMAIN ls, NEW z \in Row
  PROVE  /\ Append(p, Act("replace", y, ls[y])) \in Acts
         /\ Trail(a, Append(p, Act("replace", y, ls[y])), [ls EXCEPT ![y] = z])
<1> DEFINE saved == ls[y]
           c == [ls EXCEPT ![y] = z]
<1>1. ls \in Texts /\ y \in DOMAIN ls /\ z \in Row
  BY TrailTyped
<1>2. saved \in Row /\ y \in Int
  BY <1>1 DEF Texts
<1>3. c \in Texts
  BY <1>1, RowReplaced
<1>4. [ls EXCEPT ![y] = saved] = ls
  BY <1>1, SameRow
<1> HIDE DEF saved, c
<1>5. Undoes([ls EXCEPT ![y] = z], Act("replace", y, saved), [ls EXCEPT ![y] = saved])
  BY <1>1, <1>2, RowReverted, Zenon
<1>6. Act("replace", y, saved) \in Actions
  BY <1>2 DEF Act, Actions, Kinds
<1> DEFINE e == Act("replace", y, saved)
<1>7. e \in Actions /\ Revertible(c, e) /\ RevertText(c, e) = ls
  BY <1>4, <1>5, <1>6 DEF c, Undoes
<1> HIDE DEF e, c
<1>8. Append(p, e) \in Acts /\ Trail(a, Append(p, e), c)
  BY <1>3, <1>7, TrailOn
<1> QED
  BY <1>8 DEF e, c, saved

\* A row that is recorded may be replaced.
LEMMA RecordReplaces ==
  ASSUME NEW a, NEW d, Since(a, d), NEW y \in DOMAIN d.ls
  PROVE  /\ Record(d, "replace", y).acts \in Acts
         /\ \A z \in Row : Trail(a, Record(d, "replace", y).acts, [d.ls EXCEPT ![y] = z])
         /\ Record(d, "replace", y) =
              [ls |-> d.ls, cur |-> d.cur, sel |-> d.sel, acts |-> Record(d, "replace", y).acts]
         /\ d.acts = <<>> => Record(d, "replace", y).acts = <<Act("replace", y, d.ls[y])>>
<1>1. /\ d.ls \in Texts /\ d.acts \in Acts /\ Trail(a, d.acts, d.ls) /\ d.ls[y] \in Row /\ y \in Int
      /\ d = [ls |-> d.ls, cur |-> d.cur, sel |-> d.sel, acts |-> d.acts]
  BY CopyHas
<1> DEFINE r == Record(d, "replace", y)
           again == d.acts # <<>> /\ Last(d.acts).kind = "replace" /\ Last(d.acts).y = y
<1>2. CASE again
  <2>1. r = d
    BY <1>2 DEF Record
  <2>2. \A z \in Row : Trail(a, d.acts, [d.ls EXCEPT ![y] = z])
    BY <1>1, <1>2, LastIsFree, Zenon
  <2> HIDE DEF r, again
  <2>3. d.acts # <<>>
    BY <1>2 DEF again
  <2> QED
    BY <1>1, <2>1, <2>2, <2>3, Zenon DEF r
<1>3. CASE ~again
  <2> DEFINE e == Act("replace", y, d.ls[y])
  <2>1. r = [d EXCEPT !.acts = Append(@, e)]
    BY <1>3 DEF Record
  <2> HIDE DEF again
  <2>3. ASSUME NEW z \in Row PROVE Append(d.acts, e) \in Acts /\ Trail(a, Append(d.acts, e), [d.ls EXCEPT ![y] = z])
    BY <1>1, RowRecorded, Zenon
  <2> HIDE DEF e, r
  <2>4. Append(d.acts, e) \in Acts
    BY <2>3, NoChar
  <2>5. r = [ls |-> d.ls, cur |-> d.cur, sel |-> d.sel, acts |-> Append(d.acts, e)]
    BY <1>1, <2>1
  <2>6. r.acts = Append(d.acts, e)
    BY <2>5
  <2>7. d.acts = <<>> => Append(d.acts, e) = <<e>>
    OBVIOUS
  <2> QED
    BY <2>3, <2>4, <2>5, <2>6, <2>7 DEF r, e
<1> QED
  BY <1>2, <1>3

\* e is the only action of x, if d had none.
Alone(d, x, e) == d.acts = <<>> => x.acts = <<e>>

\* The text, the cursor and the markers of x.
Becomes(x, ls, c, ms) == x.ls = ls /\ x.cur = c /\ x.sel = ms

\* A row recorded and replaced, and the cursor and the markers set.
LEMMA RowChanged ==
  ASSUME NEW a, NEW d, Since(a, d), NEW y \in DOMAIN d.ls, NEW z \in Row, NEW m \in Marks, NEW p \in Places,
         NEW x, SetTo(x, Record(d, "replace", y), [d.ls EXCEPT ![y] = z], m, p)
  PROVE  /\ Since(a, x) /\ x.ls = [d.ls EXCEPT ![y] = z] /\ x.cur = p /\ x.sel = m
         /\ Alone(d, x, Act("replace", y, d.ls[y]))
<1> DEFINE k == [d.ls EXCEPT ![y] = z]
           r == Record(d, "replace", y)
<1>1. /\ r.acts \in Acts /\ Trail(a, r.acts, k)
      /\ IsCopy(r, d.ls, d.cur, d.sel, r.acts)
      /\ d.acts = <<>> => r.acts = <<Act("replace", y, d.ls[y])>>
  BY RecordReplaces, Zenon DEF IsCopy
<1>2. SetTo(x, r, k, m, p)
  OBVIOUS
<1> HIDE DEF k, r
<1>3. IsCopy(x, k, p, m, r.acts)
  BY <1>1, <1>2, Reset, Zenon
<1>4. Since(a, x) /\ x.ls = k /\ x.cur = p /\ x.sel = m /\ x.acts = r.acts
  BY <1>1, <1>3, CopyIs
<1> QED
  BY <1>1, <1>4, Zenon DEF k, Alone

\* The character c at the cursor.
LEMMA PutOn ==
  ASSUME NEW a, NEW d, Since(a, d), d.cur.y \in DOMAIN d.ls, NEW c \in Nat
  PROVE  /\ Since(a, Put(d, c)) /\ Put(d, c).cur.y \in DOMAIN Put(d, c).ls
         /\ Alone(d, Put(d, c), Act("replace", d.cur.y, d.ls[d.cur.y]))
         /\ Becomes(Put(d, c),
                    [d.ls EXCEPT ![d.cur.y] = Before(d.ls[d.cur.y], d.cur.x) \o <<c>> \o After(d.ls[d.cur.y], d.cur.x)],
                    At(d.cur.y, d.cur.x + 1), ForInsert(d.sel, d.cur, 1))
<1> DEFINE y == d.cur.y
           x == d.cur.x
           r == Record(d, "replace", y)
           z == Before(d.ls[y], x) \o <<c>> \o After(d.ls[y], x)
           m == ForInsert(d.sel, d.cur, 1)
           p == At(y, x + 1)
           n == Put(d, c)
<1>1. /\ d.ls \in Texts /\ d.cur \in Places /\ d.sel \in Marks /\ d.ls[y] \in Row
      /\ y \in Int /\ x \in Int
  BY CopyHas DEF Places
<1>2. z \in Row
  BY <1>1, PartOfRow, OneChar, RowsJoined
<1>3. r.ls = d.ls /\ r.sel = d.sel
  BY RecordReplaces
<1>4. m \in Marks /\ p \in Places /\ p.y = y
  <2>1. m \in Marks
    BY <1>1, InsertMoves
  <2>2. p \in Places /\ p.y = y
    BY <1>1, AtTyped
  <2> QED
    BY <2>1, <2>2
<1> HIDE DEF r
<1>5. SetTo(n, Record(d, "replace", y), [d.ls EXCEPT ![y] = z], m, p)
  BY <1>3, Zenon DEF Put, r, SetTo
<1>6. y \in DOMAIN d.ls
  OBVIOUS
<1> HIDE DEF y, x, z, m, p, n
<1>7. /\ Since(a, n) /\ n.ls = [d.ls EXCEPT ![y] = z] /\ n.cur = p /\ n.sel = m
      /\ Alone(d, n, Act("replace", y, d.ls[y]))
  BY <1>2, <1>4, <1>5, <1>6, RowChanged
<1>8. n.cur.y \in DOMAIN n.ls
  BY <1>4, <1>6, <1>7
<1>9. Becomes(n, [d.ls EXCEPT ![y] = z], p, m)
  BY <1>7 DEF Becomes
<1> QED
  BY <1>7, <1>8, <1>9, Zenon DEF n, y, x, z, m, p

\* n characters cut.
LEMMA CutOn ==
  ASSUME NEW a, NEW d, Since(a, d), NEW p \in Places, p.y \in DOMAIN d.ls, NEW n \in Int
  PROVE  /\ Since(a, Cut(d, p, n))
         /\ Alone(d, Cut(d, p, n), Act("replace", p.y, d.ls[p.y]))
         /\ Becomes(Cut(d, p, n), [d.ls EXCEPT ![p.y] = Before(d.ls[p.y], p.x) \o After(d.ls[p.y], p.x + n)],
                    p, ForDelete(d.sel, p, n))
<1> DEFINE y == p.y
           r == Record(d, "replace", y)
           z == Before(d.ls[y], p.x) \o After(d.ls[y], p.x + n)
           m == ForDelete(d.sel, p, n)
           c == Cut(d, p, n)
<1>1. /\ d.ls \in Texts /\ d.sel \in Marks /\ d.ls[y] \in Row /\ p.x \in Int /\ p.x + n \in Int
  BY CopyHas DEF Places
<1>2. z \in Row
  BY <1>1, PartOfRow, RowsJoined
<1>3. r.ls = d.ls /\ r.sel = d.sel
  BY RecordReplaces
<1>4. m \in Marks
  BY <1>1, DeleteMoves
<1> HIDE DEF r
<1>5. SetTo(c, Record(d, "replace", y), [d.ls EXCEPT ![y] = z], m, p)
  BY <1>3, Zenon DEF Cut, r, SetTo
<1>6. y \in DOMAIN d.ls
  OBVIOUS
<1> HIDE DEF y, z, m, c
<1>7. /\ Since(a, c) /\ Alone(d, c, Act("replace", y, d.ls[y]))
      /\ c.ls = [d.ls EXCEPT ![y] = z] /\ c.cur = p /\ c.sel = m
  BY <1>2, <1>4, <1>5, <1>6, RowChanged
<1>8. Becomes(c, [d.ls EXCEPT ![y] = z], p, m)
  BY <1>7 DEF Becomes
<1> QED
  BY <1>7, <1>8, Zenon DEF c, y, z, m

-----------------------------------------------------------------------------
(* Lines split, joined, replaced and deleted. *)

\* Replacing a row and then the rows behind it replaces them all.
LEMMA RestSpliced ==
  ASSUME NEW ls \in Texts, NEW s \in DOMAIN ls, NEW e \in DOMAIN ls, s <= e,
         NEW z \in Row, NEW block \in Texts, NEW c, RowSet(c, ls, s, z)
  PROVE  /\ Same(Splice(c, s + 1, e, block), Splice(ls, s, e, <<z>> \o block))
         /\ Spans(c, s + 1, e) /\ <<z>> \o block \in Texts
<1>1. /\ Splice([ls EXCEPT ![s] = z], s + 1, e, block) = Splice(ls, s, e, <<z>> \o block)
      /\ Spans([ls EXCEPT ![s] = z], s + 1, e) /\ <<z>> \o block \in Texts
  BY RowAndRest
<1> QED
  BY <1>1 DEF RowSet, Same

LEMMA TwoRows ==
  ASSUME NEW u \in Row, NEW v \in Row
  PROVE  <<u>> \o <<v>> = <<u, v>>
<1> DEFINE a == <<u>>
           b == <<v>>
           c == <<u, v>>
<1>1. a \in Texts /\ b \in Texts /\ c \in Texts
  BY DEF Texts
<1>2. Len(a) = 1 /\ Len(b) = 1 /\ Len(c) = 2 /\ a[1] = u /\ b[1] = v /\ c[1] = u /\ c[2] = v
  OBVIOUS
<1> HIDE DEF a, b, c
<1> DEFINE d == a \o b
<1>3. /\ d \in Texts /\ Len(d) = Len(a) + Len(b) /\ \A i \in 1..Len(a) : d[i] = a[i]
      /\ \A i \in Len(a) + 1..Len(a) + Len(b) : d[i] = b[i - Len(a)]
  BY <1>1, Joined
<1> HIDE DEF d
<1>4. d[1] = u /\ d[2] = v
  BY <1>2, <1>3
<1>5. \A i \in 1..Len(d) : d[i] = c[i]
  BY <1>2, <1>3, <1>4
<1>6. d = c
  BY <1>1, <1>2, <1>3, <1>5, SameRows
<1> QED
  BY <1>6 DEF a, b, c, d

LEMMA OneRow ==
  ASSUME NEW u \in Row
  PROVE  <<u>> \in Texts /\ <<u>> \o <<>> = <<u>>
BY DEF Texts

\* A row taken apart: the row replaced, and one inserted behind it.
LEMMA RowSplit ==
  ASSUME NEW ls \in Texts, NEW y \in DOMAIN ls, NEW u \in Row, NEW v \in Row
  PROVE  /\ Splice(ls, y, y, <<u, v>>) \in Texts /\ y + 1 \in DOMAIN Splice(ls, y, y, <<u, v>>)
         /\ Undoes(Splice(ls, y, y, <<u, v>>), Act("insert", y + 1, <<>>), [ls EXCEPT ![y] = u])
<1> DEFINE c == [ls EXCEPT ![y] = u]
           b == <<v>>
           x == y + 1
           t == Splice(c, x, x - 1, b)
<1>1. /\ Len(ls) \in Nat /\ y \in 1..Len(ls) /\ c \in Texts /\ Len(c) = Len(ls)
      /\ b \in Texts /\ y <= y /\ x - 1 = y
  BY RowReplaced DEF Texts
<1>2. x \in 1..Len(c) + 1
  BY <1>1
<1>3. /\ Splice(c, x, x - 1, <<v>>) \in Texts /\ Len(Splice(c, x, x - 1, <<v>>)) = Len(c) + 1
      /\ Revertible(Splice(c, x, x - 1, <<v>>), Act("insert", x, <<>>))
      /\ RevertText(Splice(c, x, x - 1, <<v>>), Act("insert", x, <<>>)) = c
  BY <1>1, <1>2, RowInserted
<1> HIDE DEF c, x
<1>4. Splice(c, x, y, b) = Splice(ls, y, y, <<u, v>>)
  <2>1. RowSet(c, ls, y, u) /\ x = y + 1 /\ <<u, v>> = <<u>> \o b
    BY TwoRows DEF c, x, RowSet
  <2> HIDE DEF b
  <2>2. Same(Splice(c, y + 1, y, b), Splice(ls, y, y, <<u>> \o b))
    BY <1>1, <2>1, RestSpliced, Zenon
  <2> QED
    BY <2>1, <2>2 DEF Same
<1>6. t = Splice(ls, y, y, <<u, v>>)
  BY <1>1, <1>4
<1>7. DOMAIN t = 1..Len(ls) + 1
  BY <1>1, <1>3 DEF Texts
<1>8. Undoes(t, Act("insert", x, <<>>), c) /\ t \in Texts /\ x \in DOMAIN t
  BY <1>1, <1>3, <1>7 DEF Undoes, x
<1> HIDE DEF t
<1> QED
  BY <1>6, <1>8 DEF c, x

\* A row joined to the one before it: that one replaced, and this one deleted.
LEMMA RowJoined ==
  ASSUME NEW ls \in Texts, NEW y \in DOMAIN ls, y - 1 \in DOMAIN ls, NEW z \in Row
  PROVE  /\ Splice(ls, y - 1, y, <<z>>) \in Texts
         /\ Undoes(Splice(ls, y - 1, y, <<z>>), Act("delete", y, ls[y]), [ls EXCEPT ![y - 1] = z])
<1> DEFINE x == y - 1
           c == [ls EXCEPT ![x] = z]
           t == Splice(c, y, y, <<>>)
<1>1. /\ Len(ls) \in Nat /\ y \in 1..Len(ls) /\ c \in Texts /\ DOMAIN c = DOMAIN ls /\ c[y] = ls[y]
      /\ x \in DOMAIN ls /\ x <= y /\ y = x + 1 /\ <<>> \in Texts
  BY RowReplaced DEF Texts
<1>2. /\ t \in Texts /\ Revertible(t, Act("delete", y, c[y])) /\ RevertText(t, Act("delete", y, c[y])) = c
  BY <1>1, RowDeleted
<1> HIDE DEF c, x
<1>5. t = Splice(ls, x, y, <<z>>)
  <2>1. RowSet(c, ls, x, z) /\ <<z>> = <<z>> \o <<>>
    BY <1>1, OneRow DEF c, RowSet
  <2>2. Same(Splice(c, x + 1, y, <<>>), Splice(ls, x, y, <<z>> \o <<>>))
    BY <1>1, <2>1, RestSpliced, Zenon
  <2> QED
    BY <1>1, <2>1, <2>2 DEF Same
<1>6. Undoes(t, Act("delete", y, ls[y]), c) /\ t \in Texts
  BY <1>1, <1>2 DEF Undoes
<1> HIDE DEF t
<1> QED
  BY <1>5, <1>6 DEF c, x

\* The actions of a working copy set.
ActsTo(x, r, acts) == x = [r EXCEPT !.acts = acts]

LEMMA ActsSet ==
  ASSUME NEW r, NEW L, NEW C, NEW S, NEW A, IsCopy(r, L, C, S, A), NEW B, NEW x, ActsTo(x, r, B)
  PROVE  IsCopy(x, L, C, S, B)
<1>1. [r EXCEPT !.acts = B] = [ls |-> L, cur |-> C, sel |-> S, acts |-> B]
  BY DEF IsCopy
<1> QED
  BY <1>1, Zenon DEF IsCopy, ActsTo

\* One more action recorded for the text as it is then.
LEMMA OneMore ==
  ASSUME NEW a, NEW b, NEW p \in Acts, Trail(a, p, b), NEW c \in Texts,
         NEW e \in Actions, Undoes(c, e, b)
  PROVE  Append(p, e) \in Acts /\ Trail(a, Append(p, e), c)
BY TrailOn DEF Undoes

\* The line split at the cursor.
LEMMA SplitOn ==
  ASSUME NEW a, NEW d, Since(a, d), d.cur.y \in DOMAIN d.ls
  PROVE  /\ Since(a, Split(d)) /\ Split(d).cur.y \in DOMAIN Split(d).ls
         /\ Becomes(Split(d),
                    Splice(d.ls, d.cur.y, d.cur.y, <<Before(d.ls[d.cur.y], d.cur.x), After(d.ls[d.cur.y], d.cur.x)>>),
                    At(d.cur.y + 1, 0), ForSplit(d.sel, d.cur))
         /\ d.acts = <<>> => Split(d).acts =
                            Append(<<Act("replace", d.cur.y, d.ls[d.cur.y])>>, Act("insert", d.cur.y + 1, <<>>))
<1> DEFINE y == d.cur.y
           x == d.cur.x
           u == Before(d.ls[y], x)
           v == After(d.ls[y], x)
           r == Record(d, "replace", y)
           t == Splice(d.ls, y, y, <<u, v>>)
           m == ForSplit(d.sel, d.cur)
           p == At(y + 1, 0)
           s == [r EXCEPT !.ls = t, !.sel = m, !.cur = p]
           e == Act("insert", y + 1, <<>>)
           n == Split(d)
<1>1. /\ d.ls \in Texts /\ d.cur \in Places /\ d.sel \in Marks /\ d.ls[y] \in Row
      /\ y \in Int /\ x \in Int
  BY CopyHas DEF Places
<1>2. u \in Row /\ v \in Row
  BY <1>1, PartOfRow
<1> HIDE DEF u, v
<1>3. /\ r.acts \in Acts /\ Trail(a, r.acts, [d.ls EXCEPT ![y] = u])
      /\ IsCopy(r, d.ls, d.cur, d.sel, r.acts)
  BY <1>2, RecordReplaces DEF IsCopy
<1>4. r.ls = d.ls /\ r.sel = d.sel /\ (d.acts = <<>> => r.acts = <<Act("replace", y, d.ls[y])>>)
  BY RecordReplaces
<1>5. m \in Marks /\ p \in Places /\ p.y = y + 1
  <2>1. p = At(y + 1, 0) /\ y + 1 \in Int /\ 0 \in Int
    BY <1>1
  <2> QED
    BY <1>1, <2>1, SplitMoves, AtTyped
<1>6. /\ t \in Texts /\ y + 1 \in DOMAIN t /\ Undoes(t, e, [d.ls EXCEPT ![y] = u])
  BY <1>1, <1>2, RowSplit
<1>7. e \in Actions
  BY <1>1, NoChar DEF Act, Actions, Kinds
<1>8. Append(r.acts, e) \in Acts /\ Trail(a, Append(r.acts, e), t)
  BY <1>3, <1>6, <1>7, OneMore
<1> HIDE DEF r, t, m, p
<1>9. SetTo(s, r, t, m, p)
  BY DEF SetTo
<1>10. s = [r EXCEPT !.ls = Splice(@, y, y, <<u, v>>), !.sel = ForSplit(@, d.cur), !.cur = At(y + 1, 0)]
  BY <1>4, Zenon DEF t, m, p
<1>11. n = [s EXCEPT !.acts = Append(@, Act("insert", y + 1, <<>>))]
  BY <1>10, Zenon DEF Split, Record, r, u, v
<1> HIDE DEF s
<1>12. IsCopy(s, t, p, m, r.acts)
  BY <1>3, <1>9, Reset, Zenon
<1>13. s.acts = r.acts
  BY <1>12 DEF IsCopy
<1> HIDE DEF n, e
<1>14. ActsTo(n, s, Append(r.acts, e))
  BY <1>11, <1>13 DEF e, ActsTo
<1>15. IsCopy(n, t, p, m, Append(r.acts, e))
  BY <1>12, <1>14, ActsSet, Zenon
<1>16. /\ Since(a, n) /\ n.ls = t /\ n.cur = p /\ n.sel = m
       /\ n.acts = Append(r.acts, e)
  <2> DEFINE A == Append(r.acts, e)
  <2>1. A \in Acts /\ Trail(a, A, t) /\ IsCopy(n, t, p, m, A)
    BY <1>8, <1>15
  <2> HIDE DEF A
  <2>2. Since(a, n) /\ n.ls = t /\ n.cur = p /\ n.sel = m /\ n.acts = A
    BY <1>5, <2>1, CopyIs
  <2> QED
    BY <2>2 DEF A
<1>17. Becomes(n, t, p, m)
  BY <1>16 DEF Becomes
<1>18. n.cur.y \in DOMAIN n.ls
  BY <1>5, <1>6, <1>16
<1>19. d.acts = <<>> => n.acts = Append(<<Act("replace", y, d.ls[y])>>, e)
  BY <1>4, <1>16
<1> QED
  BY <1>16, <1>17, <1>18, <1>19, Zenon DEF n, t, p, m, u, v, e, y, x

\* Row y joined to the one before it.
LEMMA JoinOn ==
  ASSUME NEW a, NEW d, Since(a, d), NEW y \in DOMAIN d.ls, y - 1 \in DOMAIN d.ls
  PROVE  /\ Since(a, Join(d, y))
         /\ Becomes(Join(d, y), Splice(d.ls, y - 1, y, <<d.ls[y - 1] \o d.ls[y]>>), At(y - 1, Len(d.ls[y - 1])),
                    ForJoin(d.sel, y, Len(d.ls[y - 1])))
         /\ d.acts = <<>> => Join(d, y).acts =
                            Append(<<Act("replace", y - 1, d.ls[y - 1])>>, Act("delete", y, d.ls[y]))
<1> DEFINE x == y - 1
           z == d.ls[x] \o d.ls[y]
           q == Record(d, "replace", x)
           e == Act("delete", y, d.ls[y])
           B == Append(q.acts, e)
           r == Record(q, "delete", y)
           n == Len(d.ls[x])
           t == Splice(d.ls, x, y, <<z>>)
           m == ForJoin(d.sel, y, n)
           p == At(x, n)
           j == Join(d, y)
<1>1. /\ d.ls \in Texts /\ d.sel \in Marks /\ d.ls[y] \in Row /\ d.ls[x] \in Row
      /\ y \in Int /\ x \in Int /\ x \in DOMAIN d.ls
  BY CopyHas
<1>2. z \in Row /\ n \in Int
  BY <1>1, RowsJoined, LengthOfRow
<1>3. /\ q.acts \in Acts /\ Trail(a, q.acts, [d.ls EXCEPT ![x] = z])
      /\ IsCopy(q, d.ls, d.cur, d.sel, q.acts)
  BY <1>1, <1>2, RecordReplaces, Zenon DEF IsCopy
<1>4. q.ls = d.ls /\ (d.acts = <<>> => q.acts = <<Act("replace", x, d.ls[x])>>)
  BY <1>1, RecordReplaces
<1>5. ActsTo(r, q, B)
  BY <1>4, Zenon DEF Record, ActsTo
<1>6. m \in Marks /\ p \in Places
  BY <1>1, <1>2, JoinMoves, AtTyped
<1>7. t \in Texts /\ Undoes(t, e, [d.ls EXCEPT ![x] = z])
  BY <1>1, <1>2, RowJoined
<1>8. e \in Actions
  BY <1>1 DEF Act, Actions, Kinds
<1> HIDE DEF q, t, e
<1>9. B \in Acts /\ Trail(a, B, t)
  BY <1>3, <1>7, <1>8, OneMore
<1> HIDE DEF B
<1>10. IsCopy(r, d.ls, d.cur, d.sel, B)
  BY <1>3, <1>5, ActsSet, Zenon
<1>11. r.ls = d.ls /\ r.sel = d.sel
  BY <1>10 DEF IsCopy
<1> HIDE DEF r
<1>12. SetTo(j, r, t, m, p)
  BY <1>11, Zenon DEF Join, SetTo, r, q, t, m, p, n, z, x
<1> HIDE DEF j, m, p, n, z, x
<1>13. IsCopy(j, t, p, m, B)
  BY <1>10, <1>12, Reset, Zenon
<1>14. Since(a, j) /\ j.acts = B /\ j.ls = t /\ j.cur = p /\ j.sel = m
  BY <1>6, <1>9, <1>13, CopyIs
<1>15. d.acts = <<>> => B = Append(<<Act("replace", x, d.ls[x])>>, e)
  BY <1>4 DEF B
<1>16. Becomes(j, t, p, m)
  BY <1>14 DEF Becomes
<1>17. Becomes(Join(d, y), Splice(d.ls, y - 1, y, <<d.ls[y - 1] \o d.ls[y]>>), At(y - 1, Len(d.ls[y - 1])),
               ForJoin(d.sel, y, Len(d.ls[y - 1])))
  BY <1>16, Zenon DEF j, t, p, m, n, z, x
<1> QED
  BY <1>14, <1>15, <1>17 DEF j, x, e

\* replace_current: n characters replaced by the row new.
LEMMA ReplaceOn ==
  ASSUME NEW a, NEW d, Since(a, d), d.cur.y \in DOMAIN d.ls, NEW n \in Int, NEW new \in Row,
         NEW c, SetTo(c, Record(d, "replace", d.cur.y),
                      [d.ls EXCEPT ![d.cur.y] = Before(@, d.cur.x) \o new \o After(@, d.cur.x + n)],
                      ForInsert(ForDelete(d.sel, d.cur, n), d.cur, Len(new)),
                      At(d.cur.y, d.cur.x + Len(new)))
  PROVE  /\ Since(a, c) /\ Alone(d, c, Act("replace", d.cur.y, d.ls[d.cur.y]))
         /\ Becomes(c, [d.ls EXCEPT ![d.cur.y] = Before(d.ls[d.cur.y], d.cur.x) \o new \o After(d.ls[d.cur.y], d.cur.x + n)],
                    At(d.cur.y, d.cur.x + Len(new)), ForInsert(ForDelete(d.sel, d.cur, n), d.cur, Len(new)))
<1> DEFINE y == d.cur.y
           x == d.cur.x
           z == Before(d.ls[y], x) \o new \o After(d.ls[y], x + n)
           m == ForInsert(ForDelete(d.sel, d.cur, n), d.cur, Len(new))
           p == At(y, x + Len(new))
<1>1. /\ d.ls \in Texts /\ d.cur \in Places /\ d.sel \in Marks /\ d.ls[y] \in Row
      /\ y \in Int /\ x \in Int /\ x + n \in Int /\ x + Len(new) \in Int /\ Len(new) \in Int
  BY CopyHas, LengthOfRow DEF Places
<1>2. Before(d.ls[y], x) \in Row /\ After(d.ls[y], x + n) \in Row
  BY <1>1, PartOfRow
<1>3. z \in Row
  BY <1>2, RowsJoined
<1>4. m \in Marks
  BY <1>1, DeleteMoves, InsertMoves
<1>5. p \in Places
  BY <1>1, AtTyped
<1>6. SetTo(c, Record(d, "replace", y), [d.ls EXCEPT ![y] = z], m, p)
  OBVIOUS
<1>7. y \in DOMAIN d.ls
  OBVIOUS
<1> HIDE DEF y, x, z, m, p
<1>8. /\ Since(a, c) /\ Alone(d, c, Act("replace", y, d.ls[y]))
      /\ c.ls = [d.ls EXCEPT ![y] = z] /\ c.cur = p /\ c.sel = m
  BY <1>3, <1>4, <1>5, <1>6, <1>7, RowChanged
<1>9. Becomes(c, [d.ls EXCEPT ![y] = z], p, m)
  BY <1>8 DEF Becomes
<1> QED
  BY <1>8, <1>9, Zenon DEF y, x, z, m, p

\* The only row emptied.
LEMMA EmptiedOn ==
  ASSUME NEW a, NEW d, Since(a, d), NEW y \in DOMAIN d.ls,
         NEW c, SetTo(c, Record(d, "replace", y), [d.ls EXCEPT ![y] = <<>>], NoSel, At(1, 0))
  PROVE  /\ Since(a, c) /\ Alone(d, c, Act("replace", y, d.ls[y])) /\ Len(c.ls) = Len(d.ls)
         /\ c.sel = NoSel /\ c.cur = At(1, 0)
<1>1. NoSel \in Marks /\ At(1, 0) \in Places /\ <<>> \in Row
  BY AtTyped, NoChar
<1>2. /\ Since(a, c) /\ Alone(d, c, Act("replace", y, d.ls[y])) /\ c.ls = [d.ls EXCEPT ![y] = <<>>]
      /\ c.sel = NoSel /\ c.cur = At(1, 0)
  BY <1>1, RowChanged
<1>3. Len([d.ls EXCEPT ![y] = <<>>]) = Len(d.ls)
  BY <1>1, CopyHas, RowReplaced
<1> QED
  BY <1>2, <1>3

\* The row y deleted, when there are others.
LEMMA DeletedOn ==
  ASSUME NEW a, NEW d, Since(a, d), NEW y \in DOMAIN d.ls, NEW m \in Marks, NEW p \in Places,
         NEW c, SetTo(c, Record(d, "delete", y), Splice(d.ls, y, y, <<>>), m, p)
  PROVE  /\ Since(a, c) /\ Alone(d, c, Act("delete", y, d.ls[y]))
         /\ Becomes(c, Splice(d.ls, y, y, <<>>), p, m)
<1> DEFINE e == Act("delete", y, d.ls[y])
           B == Append(d.acts, e)
           r == Record(d, "delete", y)
           t == Splice(d.ls, y, y, <<>>)
<1>1. /\ d.ls \in Texts /\ d.ls[y] \in Row /\ y \in Int /\ d.acts \in Acts
      /\ Trail(a, d.acts, d.ls) /\ IsCopy(d, d.ls, d.cur, d.sel, d.acts)
  BY CopyHas DEF IsCopy
<1>2. e \in Actions
  BY <1>1 DEF Act, Actions, Kinds
<1>3. t \in Texts /\ Undoes(t, e, d.ls)
  BY <1>1, RowDeleted DEF Undoes
<1>4. ActsTo(r, d, B)
  BY Zenon DEF Record, ActsTo
<1>5. SetTo(c, r, t, m, p)
  OBVIOUS
<1> HIDE DEF e, r, t
<1>6. B \in Acts /\ Trail(a, B, t)
  BY <1>1, <1>2, <1>3, OneMore
<1>7. d.acts = <<>> => B = <<e>>
  OBVIOUS
<1> HIDE DEF B
<1>8. IsCopy(r, d.ls, d.cur, d.sel, B)
  BY <1>1, <1>4, ActsSet, Zenon
<1>9. IsCopy(c, t, p, m, B)
  BY <1>5, <1>8, Reset, Zenon
<1>10. Since(a, c) /\ c.acts = B /\ Becomes(c, t, p, m)
  BY <1>6, <1>9, CopyIs DEF Becomes
<1> QED
  BY <1>7, <1>10 DEF e, t, Alone

-----------------------------------------------------------------------------
(* A marked block taken out. *)

\* The parts of a working copy set one by one.
LEMMA PartSet ==
  ASSUME NEW r, NEW L, NEW C, NEW S, NEW A, IsCopy(r, L, C, S, A), NEW z
  PROVE  /\ IsCopy([r EXCEPT !.ls = z], z, C, S, A)
         /\ IsCopy([r EXCEPT !.cur = z], L, z, S, A)
         /\ IsCopy([r EXCEPT !.sel = z], L, C, z, A)
         /\ IsCopy([r EXCEPT !.acts = z], L, C, S, z)
<1>1. r = [ls |-> L, cur |-> C, sel |-> S, acts |-> A]
  BY DEF IsCopy
<1>2. [r EXCEPT !.ls = z] = [ls |-> z, cur |-> C, sel |-> S, acts |-> A]
  BY <1>1
<1>3. [r EXCEPT !.cur = z] = [ls |-> L, cur |-> z, sel |-> S, acts |-> A]
  BY <1>1
<1>4. [r EXCEPT !.sel = z] = [ls |-> L, cur |-> C, sel |-> z, acts |-> A]
  BY <1>1
<1>5. [r EXCEPT !.acts = z] = [ls |-> L, cur |-> C, sel |-> S, acts |-> z]
  BY <1>1
<1> QED
  BY <1>2, <1>3, <1>4, <1>5, Zenon DEF IsCopy

LEMMA CopyParts ==
  ASSUME NEW r, NEW L, NEW C, NEW S, NEW A, IsCopy(r, L, C, S, A)
  PROVE  r.ls = L /\ r.cur = C /\ r.sel = S /\ r.acts = A
BY DEF IsCopy

\* RecordGone records the rows in the order in which RemovingUp takes them out.
LEMMA GoneIs ==
  ASSUME NEW d, NEW L, NEW C, NEW S, NEW A, IsCopy(d, L, C, S, A), NEW from \in Int, NEW to \in Int,
         NEW n \in Nat, n = to - from + 1
  PROVE  IsCopy(RecordGone(d, from, to), L, C, S, A \o RemovingUp(L, to, n))
<1>1. d.ls = L /\ d.acts = A
  BY CopyParts
<1>2. Larger(to - from + 1, 0) = n
  BY DEF Larger
<1>3. RecordGone(d, from, to) = [d EXCEPT !.acts = A \o RemovingUp(L, to, n)]
  BY <1>1, <1>2, Zenon DEF RecordGone, RemovingUp
<1>4. IsCopy([d EXCEPT !.acts = A \o RemovingUp(L, to, n)], L, C, S, A \o RemovingUp(L, to, n))
  BY PartSet, Zenon
<1> QED
  BY <1>3, <1>4, Zenon

\* The rows behind row s, up to row e, taken out when row s is replaced.
LEMMA BehindRemoved ==
  ASSUME NEW a, NEW ls \in Texts, NEW p \in Acts, NEW s \in DOMAIN ls, NEW e \in DOMAIN ls, s <= e, NEW z \in Row,
         Trail(a, p, [ls EXCEPT ![s] = z]), NEW n, n = e - s
  PROVE  /\ p \o RemovingUp(ls, e, n) \in Acts
         /\ Trail(a, p \o RemovingUp(ls, e, n), Splice(ls, s, e, <<z>>))
<1> DEFINE c == [ls EXCEPT ![s] = z]
           t == Splice(ls, s, e, <<z>>)
<1>1. /\ Len(ls) \in Nat /\ s \in 1..Len(ls) /\ e \in 1..Len(ls) /\ n \in Nat /\ n <= e /\ e \in Nat
      /\ c \in Texts /\ Len(c) = Len(ls) /\ \A i \in 1..Len(ls) : i > s => c[i] = ls[i]
  BY RowReplaced DEF Texts
<1>2. RemovingUp(c, e, n) = RemovingUp(ls, e, n)
  <2>1. \A i \in 1..n : e + 1 - i \in 1..Len(ls) /\ e + 1 - i > s
    BY <1>1
  <2> HIDE DEF c
  <2>2. \A i \in 1..n : Act("delete", e + 1 - i, c[e + 1 - i]) = Act("delete", e + 1 - i, ls[e + 1 - i])
    BY <1>1, <2>1
  <2> QED
    BY <2>2, Zenon DEF RemovingUp
<1>3. RowSet(c, ls, s, z)
  BY DEF RowSet
<1>4. Trail(a, p, c)
  OBVIOUS
<1> HIDE DEF c
<1>5. e <= Len(c) /\ e + 1 - n = s + 1 /\ <<>> \in Texts
  BY <1>1 DEF Texts
<1>6. /\ RemovingUp(c, e, n) \in Acts
      /\ Trail(c, RemovingUp(c, e, n), Splice(c, e + 1 - n, e, <<>>))
  BY <1>1, <1>5, RowsRemovedUp
<1>7. Same(Splice(c, s + 1, e, <<>>), Splice(ls, s, e, <<z>> \o <<>>))
  BY <1>3, <1>5, RestSpliced, Zenon
<1>8. <<z>> \o <<>> = <<z>>
  BY OneRow
<1>9. Splice(c, e + 1 - n, e, <<>>) = t
  BY <1>5, <1>7, <1>8 DEF Same
<1> HIDE DEF t
<1>10. Trail(c, RemovingUp(ls, e, n), t) /\ RemovingUp(ls, e, n) \in Acts
  BY <1>2, <1>6, <1>9
<1>11. p \o RemovingUp(ls, e, n) \in Acts /\ Trail(a, p \o RemovingUp(ls, e, n), t)
  BY <1>4, <1>10, TrailJoined, Zenon
<1> QED
  BY <1>11 DEF t

\* The marked rows, as every block command checks them.
LEMMA ReadyMarks ==
  ASSUME NEW a, NEW d, Since(a, d), BlockReady(d)
  PROVE  /\ d.sel.s \in Places /\ d.sel.e \in Places
         /\ d.sel.s.y \in DOMAIN d.ls /\ d.sel.e.y \in DOMAIN d.ls /\ d.sel.s.y <= d.sel.e.y
<1>1. d.sel \in Marks
  BY CopyHas
<1> QED
  BY <1>1 DEF BlockReady, HasSelection, Precedes, Marks, Places

\* The text without the marked block.
Blockless(d) ==
  LET s == d.sel.s  e == d.sel.e
  IN IF WholeLines(d) THEN Splice(d.ls, s.y, e.y, <<>>)
     ELSE Splice(d.ls, s.y, e.y, <<Before(d.ls[s.y], s.x) \o After(d.ls[e.y], e.x)>>)

\* The marked block taken out.
LEMMA ExcisedOn ==
  ASSUME NEW a, NEW d, Since(a, d), BlockReady(d)
  PROVE  /\ Since(a, Excised(d)) /\ Excised(d).ls # <<>> /\ Excised(d).cur = d.cur /\ Excised(d).sel = d.sel
         /\ Excised(d).ls = Blockless(d)
<1> DEFINE s == d.sel.s
           e == d.sel.e
           ls == d.ls
           x == Excised(d)
<1>1. /\ ls \in Texts /\ d.cur \in Places /\ d.sel \in Marks /\ d.acts \in Acts
      /\ Trail(a, d.acts, ls) /\ IsCopy(d, ls, d.cur, d.sel, d.acts)
  BY CopyHas DEF IsCopy
<1>2. /\ s \in Places /\ e \in Places /\ s.y \in DOMAIN ls /\ e.y \in DOMAIN ls /\ s.y <= e.y
  BY ReadyMarks
<1>3. /\ Len(ls) \in Nat /\ s.y \in 1..Len(ls) /\ e.y \in 1..Len(ls) /\ s.x \in Int /\ e.x \in Int
  BY <1>1, <1>2 DEF Texts, Places
<1>4. CASE WholeLines(d)
  <2> DEFINE n == e.y - s.y + 1
             t == Splice(ls, s.y, e.y, <<>>)
             B == d.acts \o RemovingUp(ls, e.y, n)
             r == RecordGone(d, s.y, e.y)
  <2>1. n \in Nat /\ n < Len(ls) /\ n <= e.y /\ e.y <= Len(ls) /\ e.y + 1 - n = s.y
    <3> DEFINE j == s.y
               k == e.y
               l == Len(ls)
    <3>1. k - j + 1 < l
      BY <1>4, Zenon DEF WholeLines
    <3>2. l \in Nat /\ j \in 1..l /\ k \in 1..l /\ j <= k
      BY <1>2, <1>3
    <3> HIDE DEF j, k, l
    <3>3. /\ k - j + 1 \in Nat /\ k - j + 1 < l /\ k - j + 1 <= k /\ k <= l
          /\ k + 1 - (k - j + 1) = j
      BY <3>1, <3>2
    <3> QED
      BY <3>3 DEF j, k, l
  <2>2. IsCopy(r, ls, d.cur, d.sel, B)
    <3>1. s.y \in Int /\ e.y \in Int
      BY <1>3
    <3> HIDE DEF n, ls, s, e
    <3> QED
      BY <1>1, <2>1, <3>1, GoneIs DEF n
  <2>3. RemovingUp(ls, e.y, n) \in Acts /\ Trail(ls, RemovingUp(ls, e.y, n), t)
    <3>1. e.y \in Nat /\ ls \in Texts
      BY <1>1, <1>3
    <3>2. RemovingUp(ls, e.y, n) \in Acts /\ Trail(ls, RemovingUp(ls, e.y, n), Splice(ls, e.y + 1 - n, e.y, <<>>))
      <4> HIDE DEF n, ls, e
      <4> QED
        BY <2>1, <3>1, RowsRemovedUp
    <3> HIDE DEF n, ls, e, s
    <3> QED
      BY <2>1, <3>2
  <2>4. B \in Acts /\ Trail(a, B, t)
    <3> HIDE DEF n, ls, t, e
    <3> QED
      BY <1>1, <2>3, TrailJoined, Zenon
  <2>5. Len(t) > 0 /\ t # <<>>
    <3>1. Spans(ls, s.y, e.y)
      <4> HIDE DEF s, e, ls
      <4> QED
        BY <1>2, <1>3 DEF Spans
    <3>2. Len(t) = (Len(ls) + s.y) - (e.y + 1)
      BY <1>1, <3>1, RowsGone DEF Without
    <3> DEFINE j == s.y
               k == e.y
               l == Len(ls)
    <3>3. l \in Nat /\ j \in 1..l /\ k \in 1..l /\ k - j + 1 < l /\ Len(t) = (l + j) - (k + 1)
      <4>1. k - j + 1 < l
        BY <1>4, Zenon DEF WholeLines
      <4>2. l \in Nat /\ j \in 1..l /\ k \in 1..l
        BY <1>2, <1>3
      <4> QED
        BY <3>2, <4>1, <4>2
    <3> HIDE DEF j, k, l, t
    <3>4. Len(t) > 0
      BY <3>3
    <3>5. t = <<>> => Len(t) = 0
      OBVIOUS
    <3> QED
      BY <3>4, <3>5
  <2>6. r.ls = ls
    BY <2>2, CopyParts
  <2>7. x = [r EXCEPT !.ls = t]
    BY <1>4, <2>6, Zenon DEF Excised
  <2> HIDE DEF x, r, t, B
  <2>8. IsCopy(x, t, d.cur, d.sel, B)
    BY <2>2, <2>7, PartSet, Zenon
  <2>9. Since(a, x) /\ x.ls = t /\ x.cur = d.cur /\ x.sel = d.sel
    BY <1>1, <2>4, <2>8, CopyIs
  <2>10. t = Blockless(d)
    BY <1>4, Zenon DEF Blockless, t
  <2> QED
    BY <2>5, <2>9, <2>10 DEF x
<1>5. CASE ~WholeLines(d)
  <2> DEFINE z == Before(ls[s.y], s.x) \o After(ls[e.y], e.x)
             n == e.y - s.y
             q == Record(d, "replace", s.y)
             t == Splice(ls, s.y, e.y, <<z>>)
             B == q.acts \o RemovingUp(ls, e.y, n)
             r == RecordGone(q, s.y + 1, e.y)
  <2>1. ls[s.y] \in Row /\ ls[e.y] \in Row
    BY <1>2, CopyHas
  <2>2. z \in Row
    BY <1>3, <2>1, PartOfRow, RowsJoined
  <2>3. n \in Nat /\ n = e.y - (s.y + 1) + 1 /\ s.y + 1 \in Int /\ e.y \in Int
    <3> DEFINE j == s.y
               k == e.y
               l == Len(ls)
    <3>1. l \in Nat /\ j \in 1..l /\ k \in 1..l /\ j <= k
      BY <1>2, <1>3
    <3> HIDE DEF j, k, l
    <3>2. k - j \in Nat /\ k - j = k - (j + 1) + 1 /\ j + 1 \in Int /\ k \in Int
      BY <3>1
    <3> QED
      BY <3>2 DEF j, k
  <2> HIDE DEF z
  <2>4. /\ q.acts \in Acts /\ Trail(a, q.acts, [ls EXCEPT ![s.y] = z])
        /\ IsCopy(q, ls, d.cur, d.sel, q.acts)
    BY <1>2, <2>2, RecordReplaces, Zenon DEF IsCopy
  <2>5. IsCopy(r, ls, d.cur, d.sel, B)
    <3> HIDE DEF n, ls, s, e, q
    <3> QED
      BY <2>3, <2>4, GoneIs
  <2>6. B \in Acts /\ Trail(a, B, t)
    <3> HIDE DEF ls, s, e, q
    <3> QED
      BY <1>1, <1>2, <2>2, <2>4, BehindRemoved
  <2>7. t # <<>>
    <3>1. Spans(ls, s.y, e.y) /\ <<z>> \in Texts /\ Len(<<z>>) = 1
      BY <1>3, <1>2, <2>2, OneRow DEF Spans
    <3>2. Len(t) = (Len(ls) + 1 + s.y) - (e.y + 1)
      <4>1. Spliced(t, ls, s.y, e.y, <<z>>, Len(<<z>>))
        BY <1>1, <3>1, SpliceIs, Zenon
      <4> QED
        BY <3>1, <4>1 DEF Spliced
    <3>3. Len(t) > 0
      BY <1>3, <3>2
    <3> HIDE DEF t
    <3> QED
      BY <3>3
  <2>8. r.ls = ls
    BY <2>5, CopyParts
  <2>9. x = [r EXCEPT !.ls = t]
    BY <1>5, <2>8, Zenon DEF Excised, z
  <2> HIDE DEF x, r, t, B
  <2>10. IsCopy(x, t, d.cur, d.sel, B)
    BY <2>5, <2>9, PartSet, Zenon
  <2>11. Since(a, x) /\ x.ls = t /\ x.cur = d.cur /\ x.sel = d.sel
    BY <1>1, <2>6, <2>10, CopyIs
  <2>12. t = Blockless(d)
    BY <1>5, Zenon DEF Blockless, t, z
  <2> QED
    BY <2>7, <2>11, <2>12 DEF x
<1> QED
  BY <1>4, <1>5

-----------------------------------------------------------------------------
(* A block put in. *)

\* Rows from..to of a text, and the part up to the last of them.
LEMMA RowsTyped ==
  ASSUME NEW ls \in Texts, NEW from \in Nat \ {0}, NEW to \in Int, from <= to + 1, to <= Len(ls)
  PROVE  /\ Rows(ls, from, to) \in Texts /\ Len(Rows(ls, from, to)) = to + 1 - from
         /\ \A i \in 1..to + 1 - from : Rows(ls, from, to)[i] = ls[from + i - 1]
<1>1. to \in Nat /\ ls \in Seq(Row)
  BY DEF Texts
<1> QED
  BY <1>1, Slice DEF Rows, Texts

\* What is between the markers is a text of one row at least.
LEMMA BlockTyped ==
  ASSUME NEW a, NEW d, Since(a, d), BlockReady(d)
  PROVE  Block(d) \in Texts /\ Len(Block(d)) \in Nat \ {0}
<1> DEFINE s == d.sel.s
           e == d.sel.e
           ls == d.ls
           b == Block(d)
<1>1. ls \in Texts
  BY CopyHas
<1>2. /\ s \in Places /\ e \in Places /\ s.y \in DOMAIN ls /\ e.y \in DOMAIN ls /\ s.y <= e.y
  BY ReadyMarks
<1>3. /\ Len(ls) \in Nat /\ s.y \in 1..Len(ls) /\ e.y \in 1..Len(ls) /\ s.x \in Int /\ e.x \in Int
  BY <1>1, <1>2 DEF Texts, Places
<1>4. ls[s.y] \in Row /\ ls[e.y] \in Row
  BY <1>2, CopyHas
<1>5. CASE s.y = e.y
  <2> DEFINE z == After(Before(ls[s.y], e.x), s.x)
  <2>1. z \in Row
    BY <1>3, <1>4, PartOfRow
  <2>2. b = <<z>>
    BY <1>5, Zenon DEF Block
  <2> HIDE DEF z, b
  <2>3. <<z>> \in Texts /\ Len(<<z>>) = 1
    BY <2>1, OneRow
  <2> QED
    BY <2>2, <2>3 DEF b
<1>6. CASE s.y # e.y
  <2> DEFINE u == <<After(ls[s.y], s.x)>>
             m == Rows(ls, s.y + 1, e.y - 1)
             v == <<Before(ls[e.y], e.x)>>
  <2>1. After(ls[s.y], s.x) \in Row /\ Before(ls[e.y], e.x) \in Row
    BY <1>3, <1>4, PartOfRow
  <2>2. u \in Texts /\ Len(u) = 1 /\ v \in Texts /\ Len(v) = 1
    BY <2>1, OneRow
  <2>3. m \in Texts /\ Len(m) \in Nat
    <3> DEFINE j == s.y
               k == e.y
               l == Len(ls)
    <3>1. l \in Nat /\ j \in 1..l /\ k \in 1..l /\ j <= k /\ j # k
      BY <1>2, <1>3, <1>6
    <3> HIDE DEF j, k, l
    <3>2. j + 1 \in Nat \ {0} /\ k - 1 \in Int /\ j + 1 <= (k - 1) + 1 /\ k - 1 <= l
      BY <3>1
    <3>3. m \in Texts
      BY <1>1, <3>2, RowsTyped DEF j, k, l
    <3> HIDE DEF m
    <3> QED
      BY <3>3 DEF Texts
  <2>4. b = u \o m \o v
    BY <1>6, Zenon DEF Block
  <2> HIDE DEF u, m, v, b
  <2>5. u \o m \in Texts /\ Len(u \o m) = Len(u) + Len(m)
    BY <2>2, <2>3, Joined
  <2>6. (u \o m) \o v \in Texts /\ Len((u \o m) \o v) = Len(u \o m) + Len(v)
    BY <2>2, <2>5, Joined
  <2> QED
    BY <2>2, <2>3, <2>4, <2>5, <2>6 DEF b
<1> QED
  BY <1>5, <1>6

\* A block of several rows put in at a place of row y: the row replaced, the others
\* inserted behind it, and the last of these replaced.
LEMMA BlockPutIn ==
  ASSUME NEW a, NEW ls \in Texts, NEW p \in Acts, NEW y \in DOMAIN ls, NEW h \in Row, NEW v \in Row,
         Trail(a, p, [ls EXCEPT ![y] = h]), NEW block \in Texts, NEW n, n = Len(block), n > 1
  PROVE  LET q == p \o Inserting(y + 1, n - 1) \o <<Act("replace", y + n - 1, block[n])>>
         IN /\ q \in Acts
            /\ Trail(a, q, Splice(ls, y, y, <<h>> \o Rows(block, 2, n - 1) \o <<v>>))
<1> DEFINE c == [ls EXCEPT ![y] = h]
           rest == Rows(block, 2, n)
           mid == Rows(block, 2, n - 1)
           u == block[n]
           x == y + n - 1
           k == <<h>> \o mid
           m == Splice(ls, y, y, k \o <<u>>)
           t == Splice(ls, y, y, k \o <<v>>)
           e == Act("replace", x, u)
           i == p \o Inserting(y + 1, n - 1)
<1>1. /\ Len(ls) \in Nat /\ y \in 1..Len(ls) /\ y \in Nat /\ n \in Nat /\ y <= y /\ u \in Row
      /\ c \in Texts /\ Len(c) = Len(ls)
  BY RowReplaced DEF Texts
<1>2. /\ rest \in Texts /\ Len(rest) = n - 1 /\ \A j \in 1..n - 1 : rest[j] = block[j + 1]
  <2>1. /\ rest \in Texts /\ Len(rest) = n + 1 - 2 /\ \A j \in 1..n + 1 - 2 : rest[j] = block[2 + j - 1]
    <3>1. 2 \in Nat \ {0} /\ n \in Int /\ 2 <= n + 1 /\ n <= Len(block)
      BY <1>1
    <3> QED
      BY <3>1, RowsTyped
  <2>2. n + 1 - 2 = n - 1 /\ \A j \in 1..n - 1 : 2 + j - 1 = j + 1
    BY <1>1
  <2> QED
    BY <2>1, <2>2
<1>3. /\ mid \in Texts /\ Len(mid) = n - 2 /\ \A j \in 1..n - 2 : mid[j] = block[j + 1]
  <2>1. /\ mid \in Texts /\ Len(mid) = (n - 1) + 1 - 2
        /\ \A j \in 1..(n - 1) + 1 - 2 : mid[j] = block[2 + j - 1]
    <3>1. 2 \in Nat \ {0} /\ n - 1 \in Int /\ 2 <= (n - 1) + 1 /\ n - 1 <= Len(block)
      BY <1>1
    <3> QED
      BY <3>1, RowsTyped
  <2>2. (n - 1) + 1 - 2 = n - 2 /\ \A j \in 1..n - 2 : 2 + j - 1 = j + 1
    BY <1>1
  <2> QED
    BY <2>1, <2>2
<1>4. <<h>> \in Texts /\ <<u>> \in Texts /\ <<v>> \in Texts /\ Len(<<h>>) = 1 /\ Len(<<u>>) = 1 /\ <<u>>[1] = u
  BY <1>1, OneRow
<1> HIDE DEF rest, mid, c
<1>5. rest = mid \o <<u>>
  <2> DEFINE w == <<u>>
             g == mid \o w
  <2>1. w \in Texts /\ Len(w) = 1 /\ w[1] = u
    BY <1>4
  <2> HIDE DEF w
  <2>2. /\ g \in Texts /\ Len(g) = Len(mid) + Len(w)
        /\ \A j \in 1..Len(mid) : g[j] = mid[j]
        /\ \A j \in Len(mid) + 1..Len(mid) + Len(w) : g[j] = w[j - Len(mid)]
    BY <1>3, <2>1, Joined
  <2> HIDE DEF g
  <2>3. \A j \in 1..n - 1 : j \in 1..n - 2 \/ (j = n - 1 /\ j \in Len(mid) + 1..Len(mid) + Len(w) /\ j - Len(mid) = 1 /\ j + 1 = n)
    BY <1>1, <1>3, <2>1
  <2>4. \A j \in 1..n - 1 : g[j] = rest[j]
    BY <1>2, <1>3, <2>1, <2>2, <2>3 DEF u
  <2>5. Len(g) = Len(rest)
    BY <1>1, <1>2, <1>3, <2>1, <2>2
  <2>6. g = rest
    BY <1>2, <2>2, <2>4, <2>5, SameRows
  <2> QED
    BY <2>6 DEF g, w
<1>6. k \in Texts /\ Len(k) = n - 1
  <2> DEFINE w == <<h>>
  <2>1. w \in Texts /\ Len(w) = 1
    BY <1>4
  <2> HIDE DEF w
  <2>2. w \o mid \in Texts /\ Len(w \o mid) = Len(w) + Len(mid)
    BY <1>3, <2>1, Joined
  <2>3. Len(w) + Len(mid) = n - 1
    BY <1>1, <1>3, <2>1
  <2> QED
    BY <2>2, <2>3 DEF w
<1>7. <<h>> \o rest = k \o <<u>>
  <2> DEFINE f == <<h>>
             w == <<u>>
  <2>1. f \in Seq(Row) /\ mid \in Seq(Row) /\ w \in Seq(Row)
    BY <1>3, <1>4 DEF Texts
  <2> HIDE DEF f, w
  <2>2. (f \o mid) \o w = f \o (mid \o w)
    BY <2>1, ConcatAssociative, SMTT(30)
  <2> QED
    BY <1>5, <2>2 DEF f, w
<1> HIDE DEF k, u
<1>8. RowSet(c, ls, y, h)
  BY DEF RowSet, c
<1>9. Same(Splice(c, y + 1, y, rest), Splice(ls, y, y, <<h>> \o rest))
  BY <1>1, <1>2, <1>8, RestSpliced, Zenon
<1>10. Splice(c, y + 1, y, rest) = m
  BY <1>7, <1>9 DEF Same
<1>11. Inserting(y + 1, n - 1) \in Acts
  <2>1. y + 1 \in Int /\ n - 1 \in Nat
    BY <1>1
  <2> QED
    BY <2>1, RunsTyped
<1>12. Trail(c, Inserting(y + 1, n - 1), m)
  <2>1. y + 1 \in 1..Len(c) + 1 /\ (y + 1) - 1 = y
    BY <1>1
  <2>2. Trail(c, Inserting(y + 1, Len(rest)), Splice(c, y + 1, (y + 1) - 1, rest))
    BY <1>1, <1>2, <2>1, RowsInserted
  <2> QED
    BY <1>2, <1>10, <2>1, <2>2
<1>13. i \in Acts /\ Trail(a, i, m)
  <2>1. Trail(a, p, c)
    BY DEF c
  <2> QED
    BY <1>11, <1>12, <2>1, TrailJoined, Zenon
<1>14. t \in Texts /\ Undoes(t, e, m)
  <2>1. x = y + Len(k)
    BY <1>1, <1>6
  <2> HIDE DEF x
  <2> QED
    BY <1>1, <1>6, <2>1, LastOfBlock, Zenon
<1>15. e \in Actions
  BY <1>1 DEF Act, Actions, Kinds
<1> HIDE DEF i, m, t, e
<1>16. Append(i, e) \in Acts /\ Trail(a, Append(i, e), t)
  BY <1>13, <1>14, <1>15, OneMore
<1>17. Append(i, e) = i \o <<e>>
  BY <1>13, AppendIsConcat DEF Acts
<1> QED
  BY <1>16, <1>17 DEF i, t, e, k, mid, u, x

\* The text with a block put in at the cursor, or as rows of its own.
PutIn(d, block, whole) ==
  LET y == d.cur.y
      n == Len(block)
      head == Before(d.ls[y], d.cur.x)
      tail == After(d.ls[y], d.cur.x)
  IN IF whole THEN Splice(d.ls, y, y - 1, block)
     ELSE IF n = 1 THEN [d.ls EXCEPT ![y] = head \o block[1] \o tail]
     ELSE Splice(d.ls, y, y, <<head \o block[1]>> \o Rows(block, 2, n - 1) \o <<block[n] \o tail>>)

\* insert_block: whole rows put in before the row of the cursor, or a block at the
\* cursor.
LEMMA InsertedOn ==
  ASSUME NEW a, NEW d, Since(a, d), d.cur.y \in DOMAIN d.ls,
         NEW block \in Texts, Len(block) \in Nat \ {0}, NEW whole \in BOOLEAN
  PROVE  Since(a, InsertBlock(d, block, whole)) /\ InsertBlock(d, block, whole).ls = PutIn(d, block, whole)
<1> DEFINE ls == d.ls
           y == d.cur.y
           x == d.cur.x
           n == Len(block)
           b == InsertBlock(d, block, whole)
<1>1. /\ ls \in Texts /\ d.cur \in Places /\ d.sel \in Marks /\ d.acts \in Acts /\ ls[y] \in Row
      /\ Trail(a, d.acts, ls) /\ IsCopy(d, ls, d.cur, d.sel, d.acts) /\ y \in Int /\ x \in Int
      /\ Len(ls) \in Nat /\ y \in 1..Len(ls)
  BY CopyHas DEF IsCopy, Places, Texts
<1>2. \A i \in 1..n : block[i] \in Row /\ Len(block[i]) \in Int
  BY LengthOfRow DEF Texts
<1>3. 1 \in 1..n /\ n \in 1..n /\ n \in Nat
  OBVIOUS
<1>4. \A j \in Int, k \in Int : At(j, k) \in Places
  BY AtTyped
<1> HIDE DEF n
<1>5. CASE whole
  <2> DEFINE t == Splice(ls, y, y - 1, block)
             B == d.acts \o Inserting(y, n)
             p == At(y + n - 1, Len(block[n]))
             r == [d EXCEPT !.ls = t]
             s == [r EXCEPT !.acts = B]
  <2>1. Inserting(y, n) \in Acts /\ Trail(ls, Inserting(y, n), t)
    <3>1. y \in 1..Len(ls) + 1
      BY <1>1
    <3> QED
      BY <1>1, <1>3, <3>1, RunsTyped, RowsInserted DEF n
  <2>2. p \in Places
    <3>1. y + n - 1 \in Int
      BY <1>1, <1>3
    <3> QED
      BY <1>2, <1>3, <1>4, <3>1
  <2> HIDE DEF t, p
  <2>3. B \in Acts /\ Trail(a, B, t)
    BY <1>1, <2>1, TrailJoined, Zenon
  <2>4. b = [s EXCEPT !.cur = p]
    BY <1>5, Zenon DEF InsertBlock, Inserting, t, p, n
  <2> HIDE DEF B
  <2>5. IsCopy(r, t, d.cur, d.sel, d.acts)
    BY <1>1, PartSet, Zenon
  <2> HIDE DEF r
  <2>6. IsCopy(s, t, d.cur, d.sel, B)
    BY <2>5, PartSet, Zenon
  <2> HIDE DEF s, b
  <2>7. IsCopy(b, t, p, d.sel, B)
    BY <2>4, <2>6, PartSet, Zenon
  <2>8. Since(a, b) /\ b.ls = t
    BY <1>1, <2>2, <2>3, <2>7, CopyIs
  <2>9. t = PutIn(d, block, whole)
    BY <1>5, Zenon DEF PutIn, t
  <2> QED
    BY <2>8, <2>9 DEF b
<1>6. CASE ~whole
  <2> DEFINE r == Record(d, "replace", y)
             head == Before(ls[y], x)
             tail == After(ls[y], x)
  <2>1. head \in Row /\ tail \in Row
    BY <1>1, PartOfRow
  <2>2. block[1] \in Row /\ block[n] \in Row /\ Len(block[1]) \in Int /\ Len(block[n]) \in Int
    BY <1>2, <1>3
  <2>3. IsCopy(r, ls, d.cur, d.sel, r.acts) /\ r.acts \in Acts
    BY <1>1, RecordReplaces, Zenon DEF IsCopy
  <2>4. \A z \in Row : Trail(a, r.acts, [ls EXCEPT ![y] = z])
    BY RecordReplaces, Zenon
  <2>5. r.ls = ls
    BY <2>3, CopyParts
  <2>6. CASE n = 1
    <3> DEFINE z == head \o block[1] \o tail
               t == [ls EXCEPT ![y] = z]
               p == At(y, x + Len(block[1]))
               q == [r EXCEPT !.ls = t]
    <3>1. z \in Row
      BY <2>1, <2>2, RowsJoined
    <3>2. Trail(a, r.acts, t)
      BY <2>4, <3>1
    <3>3. p \in Places
      BY <1>1, <1>4, <2>2
    <3> HIDE DEF r
    <3>4. b = [q EXCEPT !.cur = p]
      BY <1>6, <2>5, <2>6, Zenon DEF InsertBlock, r, n
    <3> HIDE DEF b, t, p
    <3>5. IsCopy(q, t, d.cur, d.sel, r.acts)
      BY <2>3, PartSet, Zenon
    <3> HIDE DEF q
    <3>6. IsCopy(b, t, p, d.sel, r.acts)
      BY <3>4, <3>5, PartSet, Zenon
    <3>7. Since(a, b) /\ b.ls = t
      BY <1>1, <2>3, <3>2, <3>3, <3>6, CopyIs
    <3>8. t = PutIn(d, block, whole)
      BY <1>6, <2>6, Zenon DEF PutIn, t, n
    <3> QED
      BY <3>7, <3>8 DEF b
  <2>7. CASE n # 1
    <3> DEFINE h == head \o block[1]
               v == block[n] \o tail
               t == Splice(ls, y, y, <<h>> \o Rows(block, 2, n - 1) \o <<v>>)
               B == r.acts \o Inserting(y + 1, n - 1) \o <<Act("replace", y + n - 1, block[n])>>
               p == At(y + n - 1, Len(block[n]))
               q == [r EXCEPT !.ls = t]
               s == [q EXCEPT !.acts = B]
    <3>1. h \in Row /\ v \in Row
      BY <2>1, <2>2, RowsJoined
    <3>2. n > 1
      BY <1>3, <2>7
    <3>3. Trail(a, r.acts, [ls EXCEPT ![y] = h])
      BY <2>4, <3>1
    <3>4. p \in Places
      <4>1. y + n - 1 \in Int
        BY <1>1, <1>3
      <4> QED
        BY <1>4, <2>2, <4>1
    <3>5. B \in Acts /\ Trail(a, B, t)
      <4> HIDE DEF r, h, v, ls, y
      <4>1. y \in DOMAIN ls /\ n = Len(block)
        BY DEF ls, y, n
      <4> QED
        BY <1>1, <2>3, <3>1, <3>2, <3>3, <4>1, BlockPutIn
    <3> HIDE DEF r
    <3>6. b = [s EXCEPT !.cur = p]
      <4>1. [i \in 1..n - 1 |-> Act("insert", y + i, <<>>)] = Inserting(y + 1, n - 1)
        <5>1. \A i \in 1..n - 1 : (y + 1) + i - 1 = y + i
          BY <1>1, <1>3
        <5> QED
          BY <5>1 DEF Inserting
      <4> QED
        BY <1>6, <2>5, <2>7, <4>1, Zenon DEF InsertBlock, r, n
    <3> HIDE DEF b, t, p, B
    <3>7. IsCopy(q, t, d.cur, d.sel, r.acts)
      BY <2>3, PartSet, Zenon
    <3> HIDE DEF q
    <3>8. IsCopy(s, t, d.cur, d.sel, B)
      BY <3>7, PartSet, Zenon
    <3> HIDE DEF s
    <3>9. IsCopy(b, t, p, d.sel, B)
      BY <3>6, <3>8, PartSet, Zenon
    <3>10. Since(a, b) /\ b.ls = t
      BY <1>1, <3>4, <3>5, <3>9, CopyIs
    <3>11. t = PutIn(d, block, whole)
      BY <1>6, <2>7, Zenon DEF PutIn, t, n
    <3> QED
      BY <3>10, <3>11 DEF b
  <2> QED
    BY <2>6, <2>7
<1> QED
  BY <1>5, <1>6

-----------------------------------------------------------------------------
(* Rows exchanged by the formatter. *)

\* FlattenSeq joins the rows one by one.
Flattens(f, ls) == f = [i \in 1..Len(ls) |-> IF i = 1 THEN ls[i] ELSE f[i - 1] \o ls[i]]

LEMMA FlatRow ==
  ASSUME NEW ls \in Texts
  PROVE  FlattenSeq(ls) \in Row
<1> DEFINE n == Len(ls)
           Step(k, l) == IF k = 1 THEN ls[k] ELSE l \o ls[k]
           F == [k \in 1..n |-> [l \in Row |-> Step(k, l)]]
<1>1. n \in Nat /\ \A k \in 1..n : ls[k] \in Row
  BY DEF Texts
<1>2. \A k \in 1..n, l \in Row : Step(k, l) \in Row
  BY <1>1, RowsJoined
<1>3. F \in [1..n -> [Row -> Row]]
  BY <1>2
<1>4. \A k \in 1..n, l \in Row : F[k][l] = Step(k, l)
  OBVIOUS
<1> HIDE DEF F
<1>5. PICK g : Along(g, Row, n, <<>>, F)
  BY <1>1, <1>3, NoChar, Recursion
<1>6. \A k \in 1..n : g[k] = Step(k, g[k - 1]) /\ g[k] \in Row
  <2>1. \A k \in 1..n : k - 1 \in 0..n /\ k \in 0..n
    BY <1>1
  <2> QED
    BY <1>4, <1>5, <2>1 DEF Along
<1> DEFINE f == [i \in 1..n |-> g[i]]
<1>7. Flattens(f, ls)
  <2>1. \A i \in 1..n : f[i] = IF i = 1 THEN ls[i] ELSE f[i - 1] \o ls[i]
    <3> SUFFICES ASSUME NEW i \in 1..n PROVE f[i] = IF i = 1 THEN ls[i] ELSE f[i - 1] \o ls[i]
      OBVIOUS
    <3>1. CASE i = 1
      BY <1>6, <3>1
    <3>2. CASE i # 1
      <4>1. i - 1 \in 1..n
        BY <1>1, <3>2
      <4> QED
        BY <1>6, <3>2, <4>1
    <3> QED
      BY <3>1, <3>2
  <2> QED
    BY <2>1, Zenon DEF Flattens
<1> DEFINE c == CHOOSE h : Flattens(h, ls)
<1>8. Flattens(c, ls)
  <2> HIDE DEF f
  <2> QED
    BY <1>7, Zenon
<1>9. n # 0 => FlattenSeq(ls) = c[n]
  BY Zenon DEF FlattenSeq, Flattens
<1> HIDE DEF c
<1>10. \A k \in 1..n : c[k] = IF k = 1 THEN ls[k] ELSE c[k - 1] \o ls[k]
  BY <1>8 DEF Flattens
<1> DEFINE T == {k \in 0..n : k = 0 \/ c[k] \in Row}
<1>11. \A k \in 1..n : k - 1 \in T => k \in T
  <2> SUFFICES ASSUME NEW k \in 1..n, k - 1 \in T PROVE k \in T
    OBVIOUS
  <2>1. CASE k = 1
    BY <1>1, <1>10, <2>1
  <2>2. CASE k # 1
    BY <1>1, <1>10, <2>2, RowsJoined
  <2> QED
    BY <2>1, <2>2
<1>12. \A k \in 0..n : k \in T
  <2>1. 0 \in T
    BY <1>1
  <2> HIDE DEF T
  <2> QED
    BY <1>1, <1>11, <2>1, CountingUp
<1>13. CASE n = 0
  <2>1. FlattenSeq(ls) = ls
    BY <1>13 DEF FlattenSeq
  <2>2. ls = <<>>
    BY <1>13 DEF Texts
  <2> QED
    BY <2>1, <2>2, NoChar
<1>14. CASE n # 0
  <2>1. n \in 0..n
    BY <1>1
  <2> QED
    BY <1>9, <1>12, <1>14, <2>1
<1> QED
  BY <1>13, <1>14

\* What the formatter makes of rows is a text.
LEMMA FormattedTyped ==
  ASSUME NEW ls \in Texts, NEW new \in Formatted(ls)
  PROVE  new \in Texts
<1> DEFINE z == FlattenSeq(ls)
<1>1. z \in Row
  BY FlatRow
<1>2. new = <<z>> \/ new = [i \in 1..Len(z) |-> <<z[i]>>]
  BY DEF Formatted
<1> HIDE DEF z
<1>3. CASE new = <<z>>
  BY <1>1, <1>3, OneRow
<1>4. CASE new = [i \in 1..Len(z) |-> <<z[i]>>]
  <2>1. Len(z) \in Nat /\ \A i \in 1..Len(z) : z[i] \in Nat
    BY <1>1 DEF Row
  <2>2. \A i \in 1..Len(z) : <<z[i]>> \in Row
    BY <2>1, OneChar
  <2>3. new \in [1..Len(z) -> Row]
    BY <1>4, <2>2
  <2> QED
    BY <2>1, <2>3, FunctionIsSeq DEF Texts
<1> QED
  BY <1>2, <1>3, <1>4

\* k rows from row y on replaced: the new rows put in, and the old ones behind them taken
\* out.
LEMMA RowsExchanged ==
  ASSUME NEW ls \in Texts, NEW y \in Nat \ {0}, NEW k \in Nat, NEW to \in Nat, to + 1 = y + k, to <= Len(ls),
         NEW new \in Texts, NEW n \in Nat, n = Len(new)
  PROVE  /\ Inserting(y, n) \o [i \in 1..k |-> Act("delete", y + n, ls[y + i - 1])] \in Acts
         /\ Trail(ls, Inserting(y, n) \o [i \in 1..k |-> Act("delete", y + n, ls[y + i - 1])],
                  Splice(ls, y, to, new))
<1> DEFINE m == Splice(ls, y, y - 1, new)
           t == Splice(ls, y, to, new)
           x == y + n
           old == [i \in 1..k |-> Act("delete", x, ls[y + i - 1])]
<1>1. /\ Len(ls) \in Nat /\ y \in 1..Len(ls) + 1 /\ y <= to + 1
      /\ x \in Nat \ {0} /\ x = y + n /\ x + k - 1 = to + n /\ x + k = to + n + 1
  BY DEF Texts
<1>2. Spans(ls, y, to)
  BY <1>1 DEF Spans
<1>3. Same(m, Splice(ls, y, y - 1, new))
  BY DEF Same
<1> HIDE DEF x
<1>4. /\ Inserting(y, n) \in Acts /\ Trail(ls, Inserting(y, n), m)
  <2>1. y \in Int /\ n \in Nat
    OBVIOUS
  <2>2. Inserting(y, n) \in Acts
    BY <2>1, RunsTyped
  <2>3. Trail(ls, Inserting(y, Len(new)), Splice(ls, y, y - 1, new))
    BY <1>1, RowsInserted
  <2>4. Trail(ls, Inserting(y, n), Splice(ls, y, y - 1, new))
    BY <2>3
  <2> QED
    BY <2>2, <2>4
<1> HIDE DEF m, t, old
<1>5. /\ m \in Texts /\ to + n <= Len(m)
      /\ \A i \in y + n..to + n : m[i] = ls[i - n]
      /\ Same(Splice(m, y + n, to + n, <<>>), Splice(ls, y, to, new))
  <2>1. /\ m \in Texts /\ to + n <= Len(m) /\ MovedDown(m, ls, y, to, n)
        /\ Same(Splice(m, y + n, to + n, <<>>), Splice(ls, y, to, new))
    BY <1>2, <1>3, InAndOut, Zenon
  <2> QED
    BY <2>1, Zenon DEF MovedDown
<1>6. Len(m) \in Nat
  BY <1>5 DEF Texts
<1>7. old = Removing(m, x, k)
  <2>1. \A i \in 1..k : x + i - 1 \in y + n..to + n /\ (x + i - 1) - n = y + i - 1
    BY <1>1
  <2>2. \A i \in 1..k : ls[y + i - 1] = m[x + i - 1]
    BY <1>5, <2>1
  <2>3. \A i \in 1..k : Act("delete", x, ls[y + i - 1]) = Act("delete", x, m[x + i - 1])
    BY <2>2
  <2> QED
    BY <2>3, Zenon DEF Removing, old
<1>8. old \in Acts /\ Trail(m, old, t)
  <2>1. x + k <= Len(m) + 1
    BY <1>1, <1>5, <1>6
  <2>2. /\ Removing(m, x, k) \in Acts
        /\ Trail(m, Removing(m, x, k), Splice(m, x, x + k - 1, <<>>))
    BY <1>1, <1>5, <2>1, RowsRemoved
  <2>3. Splice(m, x, x + k - 1, <<>>) = t
    BY <1>1, <1>5 DEF Same, t
  <2> QED
    BY <1>7, <2>2, <2>3
<1>9. Inserting(y, n) \o old \in Acts /\ Trail(ls, Inserting(y, n) \o old, t)
  BY <1>4, <1>8, TrailJoined, Zenon
<1> QED
  BY <1>9 DEF old, t, x

\* format_range and format_paragraph on the working copy d.
Exchanged(x, d, ls, from, to, new, n) ==
  x = [d EXCEPT !.ls = Splice(@, from, to, new),
                !.acts = [i \in 1..n |-> Act("insert", from + i - 1, <<>>)]
                         \o [i \in 1..(to - from + 1) |-> Act("delete", from + n, ls[from + i - 1])],
                !.cur = At(from, 0)]

LEMMA FormatOn ==
  ASSUME NEW a, NEW d, Since(a, d), d.acts = <<>>, NEW ls, ls = d.ls,
         NEW from \in DOMAIN ls, NEW to \in from..Len(ls),
         NEW new \in Texts, NEW n, n = Len(new), NEW x, Exchanged(x, d, ls, from, to, new, n)
  PROVE  Since(a, x) /\ Becomes(x, Splice(ls, from, to, new), At(from, 0), d.sel)
<1> DEFINE k == to - from + 1
           t == Splice(ls, from, to, new)
           B == Inserting(from, n) \o [i \in 1..k |-> Act("delete", from + n, ls[from + i - 1])]
           p == At(from, 0)
           q == [d EXCEPT !.ls = t]
           r == [q EXCEPT !.acts = B]
           s == [r EXCEPT !.cur = p]
<1>1. /\ ls \in Texts /\ d.cur \in Places /\ d.sel \in Marks /\ d.acts \in Acts
      /\ Trail(a, d.acts, ls) /\ IsCopy(d, ls, d.cur, d.sel, d.acts)
  BY CopyHas DEF IsCopy
<1>2. /\ from \in Nat \ {0} /\ k \in Nat /\ to \in Nat /\ to + 1 = from + k /\ to <= Len(ls) /\ n \in Nat
  BY <1>1 DEF Texts
<1>3. p \in Places
  BY <1>2, AtTyped
<1> HIDE DEF k
<1>4. B \in Acts /\ Trail(ls, B, t)
  BY <1>1, <1>2, RowsExchanged
<1>5. Trail(a, B, t)
  BY <1>1, <1>4, TrailNone
<1> HIDE DEF B, p, t
<1>11. s = x
  BY Zenon DEF t, B, p, Inserting, k, Exchanged
<1>12. IsCopy(q, t, d.cur, d.sel, d.acts)
  BY <1>1, PartSet, Zenon
<1> HIDE DEF q
<1>13. IsCopy(r, t, d.cur, d.sel, B)
  BY <1>12, PartSet, Zenon
<1> HIDE DEF r
<1>14. IsCopy(s, t, p, d.sel, B)
  BY <1>13, PartSet, Zenon
<1> HIDE DEF s
<1>15. Since(a, s) /\ Becomes(s, t, p, d.sel)
  BY <1>1, <1>3, <1>4, <1>5, <1>14, CopyIs DEF Becomes
<1> QED
  BY <1>11, <1>15, Zenon DEF t, p

-----------------------------------------------------------------------------
(* The edits an agent proposes. *)

ProposedEdits == [kind : EditKinds, y : Nat \ {0}, gone : Nat, new : Texts]

\* n rows taken out and others put in their place.
LEMMA RowsOutAndIn ==
  ASSUME NEW a, NEW p \in Acts, NEW ls \in Texts, Trail(a, p, ls), NEW y \in Nat \ {0}, NEW n \in Nat,
         y + n <= Len(ls) + 1, NEW new \in Texts, NEW to, to = y + n - 1
  PROVE  /\ p \o Removing(ls, y, n) \o Inserting(y, Len(new)) \in Acts
         /\ Trail(a, p \o Removing(ls, y, n) \o Inserting(y, Len(new)), Splice(ls, y, to, new))
<1> DEFINE m == Splice(ls, y, to, <<>>)
           R == Removing(ls, y, n)
           I == Inserting(y, Len(new))
           t == Splice(ls, y, to, new)
<1>0. Len(ls) \in Nat /\ to \in Nat /\ Spans(ls, y, to) /\ Len(new) \in Nat
  BY DEF Texts, Spans
<1>1. R \in Acts /\ Trail(ls, R, m)
  BY RowsRemoved
<1>2. y \in 1..Len(m) + 1 /\ Same(Splice(m, y, y - 1, new), t)
  BY <1>0, OutAndIn, Zenon
<1>3. m \in Texts
  BY <1>1, TrailTyped
<1>4. I \in Acts
  BY <1>0, RunsTyped
<1> HIDE DEF m, R, t
<1>5. Trail(m, I, t)
  <2>1. Trail(m, I, Splice(m, y, y - 1, new))
    BY <1>2, <1>3, RowsInserted
  <2> QED
    BY <1>2, <2>1, Zenon DEF Same
<1> HIDE DEF I
<1>6. p \o R \in Acts /\ Trail(a, p \o R, m)
  BY <1>1, TrailJoined
<1>7. p \o R \o I \in Acts /\ Trail(a, p \o R \o I, t)
  <2> DEFINE q == p \o R
  <2>1. q \in Acts /\ Trail(a, q, m)
    BY <1>6
  <2> HIDE DEF q
  <2>2. q \o I \in Acts /\ Trail(a, q \o I, t)
    BY <1>4, <1>5, <2>1, TrailJoined
  <2> QED
    BY <2>2 DEF q
<1> QED
  BY <1>7 DEF R, I, t

LEMMA ShiftedTyped ==
  ASSUME NEW p \in Places, NEW y \in Nat \ {0}, NEW gone \in Nat, NEW added \in Nat
  PROVE  /\ Shifted(p, y, gone, added) \in Places
         /\ p.y >= 1 => Shifted(p, y, gone, added).y >= 1
BY AtTyped DEF Shifted, Places, At

\* Places that are set are on rows that count from 1.
Upright(d) == \A p \in {d.cur, d.sel.s, d.sel.e} : p = NoMark \/ p.y >= 1

\* Where an edit that takes out n rows leaves a place.
Moved(p, e, n) == IF p = NoMark THEN p ELSE Shifted(p, e.y, n, Len(e.new))

\* One edit an agent proposes.
LEMMA ApplyEditOn ==
  ASSUME NEW a, NEW d, Since(a, d), NEW e \in ProposedEdits
  PROVE  /\ Since(a, ApplyEdit(d, e)) /\ (Upright(d) => Upright(ApplyEdit(d, e)))
         /\ \/ ApplyEdit(d, e) = d
            \/ \E n \in Nat : /\ e.y + n <= Len(d.ls) + 1 /\ (e.kind = "add" => n = 0)
                             /\ Becomes(ApplyEdit(d, e), Splice(d.ls, e.y, e.y + n - 1, e.new),
                                        Moved(d.cur, e, n), [s |-> Moved(d.sel.s, e, n), e |-> Moved(d.sel.e, e, n)])
<1> DEFINE ls == d.ls
           y == e.y
           new == e.new
           last == IF e.kind = "add" THEN Len(ls) + 1 ELSE Len(ls)
           n == IF e.kind = "add" THEN 0 ELSE Smaller(e.gone, Len(ls) + 1 - y)
           Shift(p) == IF p = NoMark THEN p ELSE Shifted(p, y, n, Len(new))
           to == y + n - 1
           t == Splice(ls, y, to, new)
           c == Shift(d.cur)
           ms == [s |-> Shift(d.sel.s), e |-> Shift(d.sel.e)]
           B == d.acts \o Removing(ls, y, n) \o Inserting(y, Len(new))
           q == [d EXCEPT !.ls = t]
           r == [q EXCEPT !.acts = B]
           s == [r EXCEPT !.cur = c]
           x == [s EXCEPT !.sel = ms]
<1>1. /\ ls \in Texts /\ d.cur \in Places /\ d.sel \in Marks /\ d.acts \in Acts
      /\ Trail(a, d.acts, ls) /\ IsCopy(d, ls, d.cur, d.sel, d.acts)
  BY CopyHas DEF IsCopy
<1>2. Len(ls) \in Nat /\ y \in Nat \ {0} /\ new \in Texts /\ Len(new) \in Nat /\ e.gone \in Nat
  BY <1>1 DEF ProposedEdits, Texts
<1>3. CASE y > last
  <2>1. ApplyEdit(d, e) = d
    BY <1>3 DEF ApplyEdit
  <2> QED
    BY <2>1
<1>4. CASE ~(y > last)
  <2>1. n \in Nat /\ y + n <= Len(ls) + 1
    BY <1>2, <1>4 DEF Smaller
  <2>2. \A p \in Places : Shift(p) \in Places /\ (p = NoMark \/ p.y >= 1 => Shift(p) = NoMark \/ Shift(p).y >= 1)
    BY <1>2, <2>1, ShiftedTyped
  <2>3. /\ c \in Places /\ ms \in Marks
        /\ Upright(d) => \A p \in {c, ms.s, ms.e} : p = NoMark \/ p.y >= 1
    BY <1>1, <2>2 DEF Marks, Upright
  <2>4. ApplyEdit(d, e) = [d EXCEPT !.ls = t, !.acts = B, !.cur = c, !.sel = ms]
    BY <1>4, Zenon DEF ApplyEdit, Removing, Inserting
  <2>5. x = [d EXCEPT !.ls = t, !.acts = B, !.cur = c, !.sel = ms]
    BY Zenon
  <2> HIDE DEF ls, y, new, n, c, ms, to
  <2>6. B \in Acts /\ Trail(a, B, t)
    <3>1. to = y + n - 1
      BY DEF to
    <3> QED
      BY <1>1, <1>2, <2>1, <3>1, RowsOutAndIn, Zenon
  <2> HIDE DEF B, t
  <2>7. IsCopy(q, t, d.cur, d.sel, d.acts)
    BY <1>1, PartSet, Zenon
  <2> HIDE DEF q
  <2>8. IsCopy(r, t, d.cur, d.sel, B)
    BY <2>7, PartSet, Zenon
  <2> HIDE DEF r
  <2>9. IsCopy(s, t, c, d.sel, B)
    BY <2>8, PartSet, Zenon
  <2> HIDE DEF s
  <2>10. IsCopy(x, t, c, ms, B)
    BY <2>9, PartSet, Zenon
  <2> HIDE DEF x
  <2>11. Since(a, x) /\ x.ls = t /\ x.cur = c /\ x.sel = ms
    BY <2>3, <2>6, <2>10, CopyIs
  <2>12. x = ApplyEdit(d, e)
    BY <2>4, <2>5, Zenon
  <2>13. Becomes(x, Splice(d.ls, e.y, e.y + n - 1, e.new), Moved(d.cur, e, n),
                 [s |-> Moved(d.sel.s, e, n), e |-> Moved(d.sel.e, e, n)])
    BY <2>11, Zenon DEF Becomes, Moved, t, c, ms, to, ls, y, new
  <2>14. n \in Nat /\ e.y + n <= Len(d.ls) + 1 /\ (e.kind = "add" => n = 0)
    BY <2>1 DEF n, ls, y
  <2> QED
    BY <2>3, <2>11, <2>12, <2>13, <2>14 DEF Upright
<1> QED
  BY <1>3, <1>4

\* Proposed applies the edits one by one.
Applies(f, es) == f = [k \in 0..Len(es) |-> IF k = 0 THEN Working ELSE ApplyEdit(f[k - 1], es[k])]

\* What every edit of a proposal keeps, the proposal keeps.
LEMMA ProposedIn ==
  ASSUME NEW es \in Seq(ProposedEdits), NEW S, Working \in S,
         \A k \in DOMAIN es, d \in S : ApplyEdit(d, es[k]) \in S
  PROVE  Proposed(es) \in S
<1> DEFINE n == Len(es)
           F == [k \in 1..n |-> [d \in S |-> ApplyEdit(d, es[k])]]
<1>1. n \in Nat /\ DOMAIN es = 1..n
  OBVIOUS
<1>2. \A k \in 1..n, d \in S : ApplyEdit(d, es[k]) \in S
  BY <1>1
<1>3. F \in [1..n -> [S -> S]] /\ \A k \in 1..n, d \in S : F[k][d] = ApplyEdit(d, es[k])
  BY <1>2
<1> HIDE DEF F
<1>4. PICK g : Along(g, S, n, Working, F)
  BY <1>1, <1>3, Recursion
<1>5. \A k \in 1..n : k - 1 \in 0..n /\ k \in 0..n /\ k # 0
  BY <1>1
<1>6. Applies(g, es)
  <2>1. g = [k \in 0..n |-> g[k]]
    BY <1>4, Zenon DEF Along
  <2>2. \A k \in 0..n : g[k] = IF k = 0 THEN Working ELSE ApplyEdit(g[k - 1], es[k])
    <3>1. \A k \in 0..n : k = 0 \/ k \in 1..n
      BY <1>1
    <3> QED
      BY <1>3, <1>4, <1>5, <3>1 DEF Along
  <2>3. [k \in 0..n |-> g[k]] = [k \in 0..n |-> IF k = 0 THEN Working ELSE ApplyEdit(g[k - 1], es[k])]
    BY <2>2, Zenon
  <2> QED
    BY <2>1, <2>3, Zenon DEF Applies
<1> DEFINE c == CHOOSE f : Applies(f, es)
<1>7. Applies(c, es)
  BY <1>6, Zenon
<1>8. Proposed(es) = c[n]
  BY Zenon DEF Proposed, Applies
<1> HIDE DEF c
<1>9. \A k \in 0..n : c[k] = IF k = 0 THEN Working ELSE ApplyEdit(c[k - 1], es[k])
  BY <1>7 DEF Applies
<1> DEFINE T == {k \in 0..n : c[k] \in S}
<1>10. \A k \in 0..n : k \in T
  <2>1. 0 \in T
    BY <1>1, <1>9
  <2>2. \A k \in 1..n : k - 1 \in T => k \in T
    BY <1>2, <1>5, <1>9
  <2> HIDE DEF T
  <2> QED
    BY <1>1, <2>1, <2>2, CountingUp
<1>11. n \in 0..n
  BY <1>1
<1> QED
  BY <1>8, <1>10, <1>11

LEMMA ProposedOn ==
  ASSUME NEW es \in Seq(ProposedEdits), NEW a, Since(a, Working), Upright(Working)
  PROVE  Since(a, Proposed(es)) /\ Upright(Proposed(es))
<1> DEFINE S == {d \in Copies : Since(a, d) /\ Upright(d)}
<1>1. \A d : d \in S <=> Since(a, d) /\ Upright(d)
  BY DEF Since
<1>2. \A k \in DOMAIN es : es[k] \in ProposedEdits
  OBVIOUS
<1>3. \A k \in DOMAIN es, d \in S : ApplyEdit(d, es[k]) \in S
  BY <1>1, <1>2, ApplyEditOn
<1>4. Working \in S
  BY <1>1
<1> HIDE DEF S
<1>5. Proposed(es) \in S
  BY <1>3, <1>4, ProposedIn
<1> QED
  BY <1>1, <1>5

-----------------------------------------------------------------------------
(* The last and the first action of a trail. *)

\* A trail without its last action.
LEMMA TrailEnds ==
  ASSUME NEW a, NEW c, NEW p \in Acts, NEW f \in Actions, Trail(a, Append(p, f), c)
  PROVE  \E m \in Texts : Trail(a, p, m) /\ Undoes(c, f, m)
<1> DEFINE n == Len(p)
           q == Append(p, f)
<1>1. n \in Nat /\ Len(q) = n + 1 /\ q[n + 1] = f /\ \A k \in 1..n : q[k] = p[k]
  BY DEF Acts
<1> HIDE DEF q
<1>2. PICK t \in [0..n + 1 -> Texts] : Walks(t, q) /\ t[0] = a /\ t[n + 1] = c
  BY <1>1 DEF Trail, q
<1> HIDE DEF n
<1>3. t[n] \in Texts /\ n + 1 \in 1..n + 1 /\ n + 1 - 1 = n /\ n \in 0..n
  BY <1>1, <1>2
<1>4. Undoes(c, f, t[n])
  <2>1. Revertible(t[n + 1], q[n + 1]) /\ RevertText(t[n + 1], q[n + 1]) = t[n + 1 - 1]
    BY <1>1, <1>2, <1>3 DEF Walks
  <2> QED
    BY <1>1, <1>2, <1>3, <2>1 DEF Undoes
<1> DEFINE u == [k \in 0..n |-> t[k]]
<1>5. /\ u \in [0..n -> Texts] /\ u[0] = a /\ u[n] = t[n]
      /\ \A k \in 1..n : u[k] = t[k] /\ u[k - 1] = t[k - 1]
  BY <1>1, <1>2
<1> HIDE DEF u
<1>6. Walks(u, p)
  <2>1. \A k \in 1..n : k \in 1..n + 1
    BY <1>1
  <2> QED
    BY <1>1, <1>2, <1>5, <2>1 DEF Walks, n
<1>7. Trail(a, p, t[n])
  BY <1>5, <1>6 DEF Trail, n
<1> QED
  BY <1>3, <1>4, <1>7

LEMMA TrailOfOne ==
  ASSUME NEW a, NEW c, NEW e \in Actions, Trail(a, <<e>>, c)
  PROVE  a \in Texts /\ c \in Texts /\ Undoes(c, e, a)
<1> DEFINE p == <<>>
<1>1. p \in Acts /\ <<e>> = Append(p, e) /\ <<e>> \in Acts
  BY DEF Acts
<1>2. a \in Texts /\ c \in Texts
  BY <1>1, TrailTyped
<1>3. PICK m \in Texts : Trail(a, p, m) /\ Undoes(c, e, m)
  BY <1>1, TrailEnds
<1>4. a = m
  BY <1>3, TrailNone
<1> QED
  BY <1>2, <1>3, <1>4

\* One row was replaced: the text is the one before but for that row.
LEMMA ReplaceTrail ==
  ASSUME NEW b, NEW c, NEW e \in Actions, e.kind = "replace", Trail(b, <<e>>, c)
  PROVE  /\ e.y \in DOMAIN b /\ DOMAIN c = DOMAIN b /\ Len(c) = Len(b)
         /\ \E z \in Row : RowSet(c, b, e.y, z)
<1> DEFINE y == e.y
<1>1. b \in Texts /\ c \in Texts /\ Undoes(c, e, b)
  BY TrailOfOne
<1>2. y \in DOMAIN c /\ b = [c EXCEPT ![y] = e.saved]
  BY <1>1 DEF Undoes, Revertible, RevertText
<1>3. DOMAIN b = DOMAIN c /\ Len(b) = Len(c) /\ c[y] \in Row /\ y \in DOMAIN b
  BY <1>1, <1>2, RowReplaced DEF Texts, Actions
<1>4. [b EXCEPT ![y] = c[y]] = c
  <2>1. c = [i \in DOMAIN c |-> c[i]]
    BY <1>1 DEF Texts
  <2>2. \A i \in DOMAIN c : [b EXCEPT ![y] = c[y]][i] = c[i]
    BY <1>2, <1>3
  <2>3. [b EXCEPT ![y] = c[y]] = [i \in DOMAIN c |-> [b EXCEPT ![y] = c[y]][i]]
    BY <1>3
  <2> QED
    BY <2>1, <2>2, <2>3
<1> QED
  BY <1>3, <1>4 DEF RowSet

\* A row put in behind row y does not touch row y.
LEMMA RowBefore ==
  ASSUME NEW ls \in Texts, NEW y \in DOMAIN ls, NEW z \in Row, NEW s \in Row
  PROVE  Same(Splice([ls EXCEPT ![y] = z], y + 1, y, <<s>>), [Splice(ls, y + 1, y, <<s>>) EXCEPT ![y] = z])
<1> DEFINE m == [ls EXCEPT ![y] = z]
           w == <<s>>
           p == Splice(m, y + 1, y, w)
           q == Splice(ls, y + 1, y, w)
           r == [q EXCEPT ![y] = z]
<1>0. Len(ls) \in Nat /\ y \in 1..Len(ls) /\ w \in Texts /\ Len(w) = 1
  BY DEF Texts
<1>1. m \in Texts /\ Len(m) = Len(ls) /\ \A i \in 1..Len(ls) : m[i] = IF i = y THEN z ELSE ls[i]
  BY RowReplaced
<1> HIDE DEF m, w
<1>2. Spans(m, y + 1, y) /\ Spans(ls, y + 1, y)
  BY <1>0, <1>1 DEF Spans
<1>3. p \in Texts /\ Spliced(p, m, y + 1, y, w, 1)
  BY <1>0, <1>1, <1>2, SpliceIs, Zenon
<1>4. q \in Texts /\ Spliced(q, ls, y + 1, y, w, 1)
  BY <1>0, <1>2, SpliceIs, Zenon
<1> HIDE DEF p, q
<1>5. Len(p) = Len(ls) + 1 /\ Len(q) = Len(ls) + 1
  BY <1>0, <1>1, <1>3, <1>4 DEF Spliced
<1>6. y \in DOMAIN q
  BY <1>0, <1>4, <1>5 DEF Texts
<1>7. /\ r \in Texts /\ Len(r) = Len(ls) + 1
      /\ \A i \in 1..Len(ls) + 1 : r[i] = IF i = y THEN z ELSE q[i]
  <2>1. r \in Texts /\ Len(r) = Len(q) /\ \A i \in 1..Len(q) : r[i] = IF i = y THEN z ELSE q[i]
    BY <1>4, <1>6, RowReplaced
  <2> HIDE DEF r
  <2> QED
    BY <1>5, <2>1
<1> HIDE DEF r
<1>8. ASSUME NEW i \in 1..y PROVE p[i] = r[i]
  <2>1. i \in 1..(y + 1) - 1 /\ i \in 1..Len(ls) /\ i \in 1..Len(ls) + 1
    BY <1>0
  <2> QED
    BY <1>1, <1>3, <1>4, <1>7, <2>1 DEF Spliced
<1>9. ASSUME NEW i \in {y + 1} PROVE p[i] = r[i]
  <2>1. i \in y + 1..(y + 1) + 1 - 1 /\ i # y /\ i \in 1..Len(ls) + 1
    BY <1>0
  <2> QED
    BY <1>3, <1>4, <1>7, <2>1 DEF Spliced
<1>10. ASSUME NEW i \in y + 2..Len(ls) + 1 PROVE p[i] = r[i]
  <2> DEFINE j == (i + y + 1) - ((y + 1) + 1)
  <2>1. /\ i \in (y + 1) + 1..(Len(ls) + 1 + (y + 1)) - (y + 1)
        /\ j \in 1..Len(ls) /\ j # y /\ i # y /\ i \in 1..Len(ls) + 1
    BY <1>0
  <2>2. p[i] = m[j] /\ q[i] = ls[j]
    BY <1>1, <1>3, <1>4, <2>1 DEF Spliced
  <2> QED
    BY <1>1, <1>7, <2>1, <2>2
<1>11. \A i \in 1..Len(p) : i \in 1..y \/ i \in {y + 1} \/ i \in y + 2..Len(ls) + 1
  BY <1>0, <1>5
<1>12. p = r
  BY <1>3, <1>5, <1>7, <1>8, <1>9, <1>10, <1>11, SameRows
<1> QED
  BY <1>12 DEF Same, m, w, p, q, r

\* The actions of a group whose other rows were joined to row y of the text.
Joins(acts) ==
  /\ acts # <<>> /\ acts[1].kind = "replace"
  /\ \A k \in 2..Len(acts) : acts[k].kind = "delete" /\ acts[k].y = acts[1].y + 1

LEMMA BehindReverted ==
  ASSUME NEW ls, NEW e, e.kind = "delete", NEW y \in Int, e.y = y + 1, y + 1 <= Len(ls) + 1
  PROVE  RevertText(ls, e) = Splice(ls, y + 1, y, <<e.saved>>)
<1> DEFINE x == e.y
<1>1. x = y + 1 /\ x - 1 = y /\ x <= Len(ls) + 1
  OBVIOUS
<1>2. RevertText(ls, e) = IF x <= Len(ls) + 1 THEN Splice(ls, x, x - 1, <<e.saved>>) ELSE ls
  BY DEF RevertText
<1> HIDE DEF x
<1> QED
  BY <1>1, <1>2

\* What such a group brings back does not depend on row y.
LEMMA RowIsFree ==
  ASSUME NEW a, NEW b, NEW p \in Acts, Joins(p), Trail(a, p, b), NEW z \in Row
  PROVE  p[1].y \in DOMAIN b /\ Trail(a, p, [b EXCEPT ![p[1].y] = z])
<1> DEFINE n == Len(p)
           y == p[1].y
<1>0. /\ n \in Nat \ {0} /\ 1 \in 1..n /\ \A k \in 1..n : p[k] \in Actions
      /\ \A k \in 2..n : p[k].kind = "delete" /\ p[k].y = y + 1
      /\ p[1].kind = "replace" /\ y \in Int
  <2>1. n \in Nat \ {0}
    BY DEF Acts, Joins
  <2>2. 1 \in 1..n /\ \A k \in 1..n : p[k] \in Actions
    BY <2>1 DEF Acts
  <2>3. y \in Int
    BY <2>2 DEF Actions
  <2> QED
    BY <2>1, <2>2, <2>3 DEF Joins
<1>1. PICK t \in [0..n -> Texts] : Walks(t, p) /\ t[0] = a /\ t[n] = b
  BY DEF Trail
<1>2. \A k \in 1..n : Revertible(t[k], p[k]) /\ RevertText(t[k], p[k]) = t[k - 1]
  BY <1>1 DEF Walks
<1> HIDE DEF n, y
<1>3. \A k \in 1..n : t[k] \in Texts /\ DOMAIN t[k] = 1..Len(t[k]) /\ Len(t[k]) \in Nat
  BY <1>0, <1>1 DEF Texts
<1>4. y \in DOMAIN t[1] /\ t[0] = [t[1] EXCEPT ![y] = p[1].saved]
  <2>1. 1 - 1 = 0 /\ p[1].y = y
    BY DEF y
  <2> QED
    BY <1>0, <1>2, <2>1 DEF Revertible, RevertText
<1>5. y \in Nat \ {0}
  BY <1>0, <1>3, <1>4
<1>6. ASSUME NEW k \in 2..n
      PROVE  /\ y \in DOMAIN t[k] /\ y + 1 <= Len(t[k]) + 1
             /\ t[k - 1] = Splice(t[k], y + 1, y, <<p[k].saved>>)
  <2>1. k \in 1..n /\ p[k].kind = "delete" /\ p[k].y = y + 1 /\ y + 1 - 1 = y
    BY <1>0, <1>5
  <2>2. y + 1 \in 1..Len(t[k]) + 1
    BY <1>2, <2>1 DEF Revertible
  <2>3. y \in DOMAIN t[k] /\ y + 1 <= Len(t[k]) + 1
    BY <1>3, <1>5, <2>1, <2>2
  <2>4. t[k - 1] = Splice(t[k], y + 1, y, <<p[k].saved>>)
    BY <1>0, <1>2, <2>1, <2>3, BehindReverted
  <2> QED
    BY <2>3, <2>4
<1>7. \A k \in 1..n : y \in DOMAIN t[k]
  <2>1. \A k \in 1..n : k = 1 \/ k \in 2..n
    BY <1>0
  <2> QED
    BY <1>4, <1>6, <2>1
<1> DEFINE u == [k \in 0..n |-> IF k = 0 THEN t[0] ELSE [t[k] EXCEPT ![y] = z]]
<1>8. /\ u \in [0..n -> Texts] /\ u[0] = a
      /\ \A k \in 1..n : RowSet(u[k], t[k], y, z) /\ u[k] \in Texts
  <2>1. \A k \in 1..n : [t[k] EXCEPT ![y] = z] \in Texts
    BY <1>3, <1>7, RowReplaced
  <2>2. \A k \in 0..n : k = 0 \/ k \in 1..n
    BY <1>0
  <2>3. t[0] \in Texts /\ 0 \in 0..n /\ \A k \in 1..n : k \in 0..n /\ k # 0
    BY <1>0, <1>1
  <2>4. u \in [0..n -> Texts]
    BY <2>1, <2>2, <2>3
  <2> QED
    BY <1>1, <2>1, <2>3, <2>4 DEF RowSet
<1> HIDE DEF u
<1>9. ASSUME NEW k \in 1..n PROVE Undoes(u[k], p[k], u[k - 1])
  <2>0. /\ RowSet(u[k], t[k], y, z) /\ u[k] \in Texts /\ t[k] \in Texts /\ y \in DOMAIN t[k]
        /\ p[k] \in Actions /\ p[k].saved \in Row
    BY <1>0, <1>3, <1>7, <1>8 DEF Actions
  <2>1. DOMAIN u[k] = DOMAIN t[k] /\ Len(u[k]) = Len(t[k])
    BY <2>0, RowReplaced DEF RowSet
  <2>2. CASE k = 1
    <3>1. p[k].kind = "replace" /\ p[k].y = y /\ k - 1 = 0 /\ u[k - 1] = t[0]
      BY <1>0, <1>1, <1>8, <2>2 DEF y
    <3>2. Revertible(u[k], p[k])
      BY <2>0, <2>1, <3>1 DEF Revertible
    <3>3. [u[k] EXCEPT ![y] = p[k].saved] = [t[k] EXCEPT ![y] = p[k].saved]
      BY <2>0 DEF RowSet, Texts
    <3>4. RevertText(u[k], p[k]) = t[0]
      BY <1>4, <2>0, <2>1, <2>2, <3>1, <3>3 DEF RevertText
    <3> QED
      BY <3>1, <3>2, <3>4 DEF Undoes
  <2>3. CASE k # 1
    <3>1. /\ k \in 2..n /\ k - 1 \in 1..n /\ p[k].kind = "delete" /\ p[k].y = y + 1
          /\ y + 1 - 1 = y /\ RowSet(u[k - 1], t[k - 1], y, z)
      BY <1>0, <1>5, <1>8, <2>3
    <3>2. y + 1 \in 1..Len(u[k]) + 1 /\ y + 1 <= Len(u[k]) + 1
      <4>1. Len(t[k]) \in Nat /\ y + 1 <= Len(t[k]) + 1
        BY <1>3, <1>6, <3>1
      <4> QED
        BY <1>5, <2>1, <4>1
    <3>3. Revertible(u[k], p[k])
      BY <3>1, <3>2 DEF Revertible
    <3>4. RevertText(u[k], p[k]) = Splice(u[k], y + 1, y, <<p[k].saved>>)
      BY <1>0, <3>1, <3>2, BehindReverted
    <3>5. Same(Splice([t[k] EXCEPT ![y] = z], y + 1, y, <<p[k].saved>>),
               [Splice(t[k], y + 1, y, <<p[k].saved>>) EXCEPT ![y] = z])
      BY <2>0, RowBefore
    <3>6. u[k - 1] = [Splice(t[k], y + 1, y, <<p[k].saved>>) EXCEPT ![y] = z]
      BY <1>6, <3>1, Zenon DEF RowSet
    <3>7. RevertText(u[k], p[k]) = u[k - 1]
      BY <2>0, <3>4, <3>5, <3>6, Zenon DEF RowSet, Same
    <3> QED
      BY <3>3, <3>7 DEF Undoes
  <2> QED
    BY <2>2, <2>3
<1>10. Walks(u, p)
  BY <1>9 DEF Walks, Undoes, n
<1>11. y \in DOMAIN b /\ u[n] = [b EXCEPT ![y] = z]
  <2>1. n \in 1..n
    BY <1>0
  <2> QED
    BY <1>1, <1>7, <1>8, <2>1 DEF RowSet
<1>12. Trail(a, p, u[n])
  BY <1>8, <1>10 DEF Trail, n
<1> QED
  BY <1>11, <1>12 DEF y

-----------------------------------------------------------------------------
(* Groups merged into the one before. *)

\* One action taken over into a group.
Taken(p, e) == IF e.kind = "replace" /\ Saves(p, e.y) THEN p ELSE Append(p, e)

Folds(f, p, q) ==
  f = [k \in 0..Len(q) |->
         IF k = 0 THEN p
         ELSE IF q[k].kind = "replace" /\ Saves(f[k - 1], q[k].y) THEN f[k - 1]
         ELSE Append(f[k - 1], q[k])]

LEMMA FoldedIs ==
  ASSUME NEW p \in Acts, NEW q \in Acts
  PROVE  \E c : c[0] = p /\ (\A k \in 1..Len(q) : c[k] = Taken(c[k - 1], q[k])) /\ Folded(p, q) = c[Len(q)]
<1> DEFINE n == Len(q)
           F == [k \in 1..n |-> [r \in Acts |-> Taken(r, q[k])]]
<1>1. n \in Nat /\ \A k \in 1..n : q[k] \in Actions
  BY DEF Acts
<1>2. \A k \in 1..n, r \in Acts : Taken(r, q[k]) \in Acts
  BY <1>1 DEF Taken, Acts
<1>3. F \in [1..n -> [Acts -> Acts]] /\ \A k \in 1..n, r \in Acts : F[k][r] = Taken(r, q[k])
  BY <1>2
<1> HIDE DEF F
<1>4. PICK g : Along(g, Acts, n, p, F)
  BY <1>1, <1>3, Recursion
<1>5. \A k \in 1..n : k - 1 \in 0..n /\ k \in 0..n /\ k # 0
  BY <1>1
<1>6. Folds(g, p, q)
  <2>1. g = [k \in 0..n |-> g[k]]
    BY <1>4, Zenon DEF Along
  <2>2. \A k \in 0..n : g[k] = IF k = 0 THEN p
                               ELSE IF q[k].kind = "replace" /\ Saves(g[k - 1], q[k].y) THEN g[k - 1]
                               ELSE Append(g[k - 1], q[k])
    <3>1. \A k \in 0..n : k = 0 \/ k \in 1..n
      BY <1>1
    <3>2. g[0] = p /\ \A k \in 1..n : g[k] = Taken(g[k - 1], q[k])
      BY <1>3, <1>4, <1>5 DEF Along
    <3> QED
      BY <1>5, <3>1, <3>2 DEF Taken
  <2>3. [k \in 0..n |-> g[k]] =
          [k \in 0..n |-> IF k = 0 THEN p
                          ELSE IF q[k].kind = "replace" /\ Saves(g[k - 1], q[k].y) THEN g[k - 1]
                          ELSE Append(g[k - 1], q[k])]
    BY <2>2, Zenon
  <2> QED
    BY <2>1, <2>3, Zenon DEF Folds
<1> DEFINE c == CHOOSE f : Folds(f, p, q)
<1>7. Folds(c, p, q)
  BY <1>6, Zenon
<1>8. Folded(p, q) = c[n]
  BY Zenon DEF Folded, Folds
<1> HIDE DEF c
<1>9. c[0] = p
  <2>1. 0 \in 0..n
    BY <1>1
  <2> QED
    BY <1>7, <2>1 DEF Folds
<1>10. \A k \in 1..n : c[k] = Taken(c[k - 1], q[k])
  BY <1>5, <1>7 DEF Folds, Taken
<1> QED
  BY <1>8, <1>9, <1>10

LEMMA FoldedOne ==
  ASSUME NEW p \in Acts, NEW e \in Actions
  PROVE  Folded(p, <<e>>) = Taken(p, e)
<1> DEFINE q == <<e>>
<1>1. q \in Acts /\ Len(q) = 1 /\ q[1] = e
  BY DEF Acts
<1> HIDE DEF q
<1>2. PICK c : c[0] = p /\ (\A k \in 1..Len(q) : c[k] = Taken(c[k - 1], q[k])) /\ Folded(p, q) = c[Len(q)]
  BY <1>1, FoldedIs
<1>3. 1 \in 1..Len(q) /\ 1 - 1 = 0
  BY <1>1
<1> QED
  BY <1>1, <1>2, <1>3 DEF q

LEMMA FoldedTwo ==
  ASSUME NEW p \in Acts, NEW e \in Actions, NEW f \in Actions
  PROVE  Folded(p, Append(<<e>>, f)) = Taken(Taken(p, e), f)
<1> DEFINE q == Append(<<e>>, f)
<1>1. q \in Acts /\ Len(q) = 2 /\ q[1] = e /\ q[2] = f
  BY DEF Acts
<1> HIDE DEF q
<1>2. PICK c : c[0] = p /\ (\A k \in 1..Len(q) : c[k] = Taken(c[k - 1], q[k])) /\ Folded(p, q) = c[Len(q)]
  BY <1>1, FoldedIs
<1>3. 1 \in 1..Len(q) /\ 1 - 1 = 0 /\ 2 \in 1..Len(q) /\ 2 - 1 = 1
  BY <1>1
<1>4. c[1] = Taken(p, e)
  BY <1>1, <1>2, <1>3
<1>5. c[2] = Taken(c[1], f)
  BY <1>1, <1>2, <1>3
<1> QED
  BY <1>1, <1>2, <1>4, <1>5 DEF q

-----------------------------------------------------------------------------
(* What a group of each kind that may be merged records. *)

Replaces(q) == \E e \in Actions : e.kind = "replace" /\ q = <<e>>

ReplacesAndJoins(q) ==
  \E e \in Actions, f \in Actions :
    e.kind = "replace" /\ f.kind = "delete" /\ f.y = e.y + 1 /\ q = Append(<<e>>, f)

DeletesOne(q, b, c) ==
  \E e \in Actions : q = <<e>> /\ \/ e.kind = "delete" /\ Len(b) > 1
                                  \/ e.kind = "replace" /\ e.y = 1 /\ Len(c) = 1

\* A new group that leads from c back to b.
Fresh(type, q, b, c) ==
  /\ type = "typing" => Replaces(q)
  /\ type = "backspace" => Replaces(q) \/ ReplacesAndJoins(q)
  /\ type = "delete_line" => DeletesOne(q, b, c)

EmptiesLast(p, b) == p # <<>> /\ Last(p).kind = "replace" /\ Last(p).y = 1 /\ Len(b) = 1

Deletions(p) == p # <<>> /\ \A k \in 1..Len(p) : p[k].kind = "delete"

\* A group on the stack, whatever was merged into it.
Shaped(type, p, b) ==
  /\ type = "typing" => Replaces(p)
  /\ type = "backspace" => Joins(p)
  /\ type = "delete_line" => Deletions(p) \/ EmptiesLast(p, b)

LEMMA ReplaceJoins == \A q : Replaces(q) => Joins(q)
<1> SUFFICES ASSUME NEW e \in Actions, e.kind = "replace" PROVE Joins(<<e>>)
  BY DEF Replaces
<1>1. Len(<<e>>) = 1 /\ <<e>>[1] = e /\ 2..1 = {}
  OBVIOUS
<1> QED
  BY <1>1 DEF Joins

LEMMA TwoJoin == \A q : ReplacesAndJoins(q) => Joins(q)
<1> SUFFICES ASSUME NEW e \in Actions, NEW f \in Actions, e.kind = "replace",
                    f.kind = "delete", f.y = e.y + 1
             PROVE  Joins(Append(<<e>>, f))
  BY DEF ReplacesAndJoins
<1> DEFINE q == Append(<<e>>, f)
<1>1. Len(q) = 2 /\ q[1] = e /\ q[2] = f /\ q # <<>>
  OBVIOUS
<1> HIDE DEF q
<1>2. \A k \in 2..Len(q) : k = 2
  BY <1>1
<1> QED
  BY <1>1, <1>2 DEF Joins, q

LEMMA FreshIsShaped ==
  ASSUME NEW type, NEW q, NEW b, NEW c, Fresh(type, q, b, c)
  PROVE  Shaped(type, q, c)
<1>1. ASSUME NEW e \in Actions, e.kind = "delete" PROVE Deletions(<<e>>)
  BY <1>1 DEF Deletions
<1>2. ASSUME NEW e \in Actions, e.kind = "replace", e.y = 1, Len(c) = 1 PROVE EmptiesLast(<<e>>, c)
  BY <1>2 DEF EmptiesLast, Last
<1>3. DeletesOne(q, b, c) => Deletions(q) \/ EmptiesLast(q, c)
  BY <1>1, <1>2 DEF DeletesOne
<1> QED
  BY <1>3, ReplaceJoins, TwoJoin DEF Fresh, Shaped

LEMMA JoinsSave ==
  ASSUME NEW p \in Acts, Joins(p)
  PROVE  Saves(p, p[1].y)
<1>1. 1 \in DOMAIN p
  BY DEF Joins, Acts
<1> QED
  BY <1>1 DEF Joins, Saves

\* A row that the group saved already is replaced again.
LEMMA ReplacedAgain ==
  ASSUME NEW a, NEW b, NEW c, NEW p \in Acts, Trail(a, p, b), Joins(p),
         NEW e \in Actions, e.kind = "replace", e.y = p[1].y, Trail(b, <<e>>, c)
  PROVE  Trail(a, p, c) /\ Taken(p, e) = p
<1>1. PICK z \in Row : RowSet(c, b, e.y, z)
  BY ReplaceTrail
<1>2. Trail(a, p, [b EXCEPT ![p[1].y] = z])
  BY RowIsFree
<1>3. Trail(a, p, c)
  BY <1>1, <1>2, Zenon DEF RowSet
<1>4. Taken(p, e) = p
  BY JoinsSave DEF Taken
<1> QED
  BY <1>3, <1>4

\* A row is joined to the one that the group saved.
LEMMA JoinedAgain ==
  ASSUME NEW a, NEW b, NEW c, NEW p \in Acts, Trail(a, p, b), Joins(p),
         NEW f \in Actions, f.kind = "delete", f.y = p[1].y + 1, Trail(b, <<f>>, c)
  PROVE  Append(p, f) \in Acts /\ Trail(a, Append(p, f), c) /\ Joins(Append(p, f))
<1>1. c \in Texts /\ Undoes(c, f, b)
  BY TrailOfOne
<1>2. Append(p, f) \in Acts /\ Trail(a, Append(p, f), c)
  BY <1>1, OneMore
<1>3. Joins(Append(p, f))
  <2> DEFINE q == Append(p, f)
             n == Len(p)
  <2>1. /\ n \in Nat \ {0} /\ Len(q) = n + 1 /\ q[n + 1] = f /\ \A k \in 1..n : q[k] = p[k]
    BY DEF Acts, Joins
  <2> HIDE DEF q
  <2>2. q # <<>> /\ q[1] = p[1]
    BY <2>1
  <2>3. ASSUME NEW k \in 2..n + 1 PROVE q[k].kind = "delete" /\ q[k].y = q[1].y + 1
    <3>1. k = n + 1 \/ k \in 2..n
      BY <2>1
    <3>2. CASE k = n + 1
      BY <2>1, <2>2, <3>2
    <3>3. CASE k \in 2..n
      <4>1. q[k] = p[k]
        BY <2>1, <3>3
      <4> QED
        BY <2>2, <3>3, <4>1 DEF Joins
    <3> QED
      BY <3>1, <3>2, <3>3
  <2>4. q[1].kind = "replace"
    BY <2>2 DEF Joins
  <2> QED
    BY <2>1, <2>2, <2>3, <2>4 DEF Joins, q
<1> QED
  BY <1>2, <1>3

\* A line is deleted where others were.
LEMMA DeletedAgain ==
  ASSUME NEW a, NEW b, NEW c, NEW p \in Acts, Trail(a, p, b), Deletions(p) \/ EmptiesLast(p, b),
         NEW e \in Actions, Trail(b, <<e>>, c),
         \/ e.kind = "delete" /\ Len(b) > 1
         \/ e.kind = "replace" /\ e.y = 1 /\ Len(c) = 1
  PROVE  /\ Taken(p, e) \in Acts /\ Trail(a, Taken(p, e), c)
         /\ Deletions(Taken(p, e)) \/ EmptiesLast(Taken(p, e), c)
<1> DEFINE n == Len(p)
           q == Append(p, e)
<1>0. /\ n \in Nat \ {0} /\ Len(q) = n + 1 /\ q[n + 1] = e /\ \A k \in 1..n : q[k] = p[k]
      /\ DOMAIN p = 1..n
  BY DEF Acts, Deletions, EmptiesLast
<1>1. CASE Deletions(p)
  <2>1. ~Saves(p, e.y)
    BY <1>0, <1>1 DEF Saves, Deletions
  <2>2. Taken(p, e) = q
    BY <2>1 DEF Taken
  <2>3. c \in Texts /\ Undoes(c, e, b)
    BY TrailOfOne
  <2>4. q \in Acts /\ Trail(a, q, c)
    BY <2>3, OneMore
  <2> HIDE DEF q
  <2>5. q # <<>> /\ Last(q) = e
    BY <1>0 DEF Last
  <2>6. CASE e.kind = "delete"
    <3>1. \A k \in 1..n + 1 : k = n + 1 \/ k \in 1..n
      BY <1>0
    <3>2. Deletions(q)
      BY <1>0, <1>1, <2>5, <2>6, <3>1 DEF Deletions
    <3> QED
      BY <2>2, <2>4, <3>2
  <2>7. CASE e.kind # "delete"
    <3>1. EmptiesLast(q, c)
      BY <2>5, <2>7 DEF EmptiesLast
    <3> QED
      BY <2>2, <2>4, <3>1
  <2> QED
    BY <2>6, <2>7
<1>2. CASE EmptiesLast(p, b)
  <2>1. e.kind = "replace" /\ e.y = 1 /\ Len(c) = 1
    BY <1>2 DEF EmptiesLast
  <2>2. n \in DOMAIN p /\ Last(p) = p[n] /\ p # <<>>
    BY <1>0, <1>2 DEF Last, EmptiesLast
  <2>3. Saves(p, e.y)
    BY <1>2, <2>1, <2>2 DEF Saves, EmptiesLast
  <2>4. Taken(p, e) = p
    BY <2>1, <2>3 DEF Taken
  <2>5. PICK z \in Row : RowSet(c, b, e.y, z)
    BY <2>1, ReplaceTrail
  <2>6. Trail(a, p, [b EXCEPT ![Last(p).y] = z])
    BY <1>2, <2>2, LastIsFree DEF EmptiesLast
  <2>7. Last(p).y = e.y
    BY <1>2, <2>1 DEF EmptiesLast
  <2>8. Trail(a, p, c)
    BY <2>5, <2>6, <2>7, Zenon DEF RowSet
  <2>9. EmptiesLast(p, c)
    BY <1>2, <2>1 DEF EmptiesLast
  <2> QED
    BY <2>4, <2>8, <2>9
<1> QED
  BY <1>1, <1>2

\* A group merged into the one before it.
LEMMA FoldedTrail ==
  ASSUME NEW a, NEW b, NEW c, NEW type \in {"typing", "backspace", "delete_line"},
         NEW p \in Acts, Trail(a, p, b), Shaped(type, p, b),
         NEW q \in Acts, Trail(b, q, c), Fresh(type, q, b, c), p[1].y = q[1].y
  PROVE  Folded(p, q) \in Acts /\ Trail(a, Folded(p, q), c) /\ Shaped(type, Folded(p, q), c)
<1>1. ASSUME Joins(p), Replaces(q)
      PROVE  Folded(p, q) = p /\ Trail(a, p, c)
  <2>1. PICK e \in Actions : e.kind = "replace" /\ q = <<e>>
    BY <1>1 DEF Replaces
  <2>2. e.y = p[1].y
    BY <2>1
  <2>3. Trail(a, p, c) /\ Taken(p, e) = p
    BY <1>1, <2>1, <2>2, ReplacedAgain
  <2> QED
    BY <2>1, <2>3, FoldedOne
<1>2. CASE type = "typing"
  <2>1. Replaces(p) /\ Replaces(q)
    BY <1>2 DEF Shaped, Fresh
  <2>2. Folded(p, q) = p /\ Trail(a, p, c)
    BY <1>1, <2>1, ReplaceJoins
  <2> QED
    BY <1>2, <2>1, <2>2 DEF Shaped
<1>3. CASE type = "backspace"
  <2>1. Joins(p) /\ (Replaces(q) \/ ReplacesAndJoins(q))
    BY <1>3 DEF Shaped, Fresh
  <2>2. CASE Replaces(q)
    <3>1. Folded(p, q) = p /\ Trail(a, p, c)
      BY <1>1, <2>1, <2>2
    <3> QED
      BY <1>3, <2>1, <3>1 DEF Shaped
  <2>3. CASE ReplacesAndJoins(q)
    <3>1. PICK e \in Actions, f \in Actions :
            e.kind = "replace" /\ f.kind = "delete" /\ f.y = e.y + 1 /\ q = Append(<<e>>, f)
      BY <2>3 DEF ReplacesAndJoins
    <3> DEFINE r == <<e>>
    <3>2. r \in Acts /\ q[1] = e
      BY <3>1 DEF Acts
    <3>3. PICK m \in Texts : Trail(b, r, m) /\ Undoes(c, f, m)
      BY <3>1, <3>2, TrailEnds
    <3>4. Trail(a, p, m) /\ Taken(p, e) = p
      BY <2>1, <3>1, <3>2, <3>3, ReplacedAgain
    <3>5. c \in Texts
      BY TrailTyped
    <3>6. Trail(m, <<f>>, c)
      BY <3>3, <3>5, TrailOne DEF Undoes
    <3>7. Append(p, f) \in Acts /\ Trail(a, Append(p, f), c) /\ Joins(Append(p, f))
      <4>1. f.kind = "delete" /\ f.y = p[1].y + 1
        BY <3>1, <3>2
      <4> QED
        BY <2>1, <3>4, <3>6, <4>1, JoinedAgain, Zenon
    <3>8. Taken(p, f) = Append(p, f)
      BY <3>1 DEF Taken
    <3>9. Folded(p, q) = Append(p, f)
      BY <3>1, <3>4, <3>8, FoldedTwo
    <3> QED
      BY <1>3, <3>7, <3>9 DEF Shaped
  <2> QED
    BY <2>1, <2>2, <2>3
<1>4. CASE type = "delete_line"
  <2>1. Deletions(p) \/ EmptiesLast(p, b)
    BY <1>4 DEF Shaped
  <2>2. PICK e \in Actions : /\ q = <<e>>
                             /\ \/ e.kind = "delete" /\ Len(b) > 1
                                \/ e.kind = "replace" /\ e.y = 1 /\ Len(c) = 1
    <3>1. DeletesOne(q, b, c)
      BY <1>4, Zenon DEF Fresh
    <3> QED
      BY <3>1, Zenon DEF DeletesOne
  <2>3. /\ Taken(p, e) \in Acts /\ Trail(a, Taken(p, e), c)
        /\ Deletions(Taken(p, e)) \/ EmptiesLast(Taken(p, e), c)
    BY <2>1, <2>2, DeletedAgain
  <2>4. Folded(p, q) = Taken(p, e)
    BY <2>2, FoldedOne
  <2> QED
    BY <1>4, <2>3, <2>4 DEF Shaped
<1> QED
  BY <1>2, <1>3, <1>4

-----------------------------------------------------------------------------
(* The texts that groups lead back to, one after the other. *)

\* TextBefore takes the actions back one by one.
Backs(f, ls, acts) ==
  f = [k \in 0..Len(acts) |-> IF k = 0 THEN ls ELSE RevertText(f[k - 1], acts[Len(acts) + 1 - k])]

LEMMA TextBeforeIs ==
  ASSUME NEW a, NEW b, NEW acts \in Acts, Trail(a, acts, b)
  PROVE  TextBefore(b, acts) = a
<1> DEFINE n == Len(acts)
<1>1. n \in Nat
  BY DEF Acts
<1>2. PICK t \in [0..n -> Texts] : Walks(t, acts) /\ t[0] = a /\ t[n] = b
  BY DEF Trail
<1>3. \A k \in 1..n : RevertText(t[k], acts[k]) = t[k - 1]
  BY <1>2 DEF Walks
<1> DEFINE Step(f) == [k \in 0..n |-> IF k = 0 THEN b ELSE RevertText(f[k - 1], acts[n + 1 - k])]
<1>4. \A f : Backs(f, b, acts) <=> f = Step(f)
  BY Zenon DEF Backs
<1> DEFINE g == [k \in 0..n |-> t[n - k]]
<1>5. \A k \in 1..n : /\ k \in 0..n /\ k - 1 \in 0..n /\ k # 0
                      /\ n + 1 - k \in 1..n /\ n + 1 - k - 1 = n - k /\ n - (k - 1) = n + 1 - k
  BY <1>1
<1> HIDE DEF n
<1>0. \A k \in 1..n : RevertText(t[n + 1 - k], acts[n + 1 - k]) = t[n - k]
  <2> SUFFICES ASSUME NEW k \in 1..n PROVE RevertText(t[n + 1 - k], acts[n + 1 - k]) = t[n - k]
    OBVIOUS
  <2> DEFINE j == n + 1 - k
  <2>1. j \in 1..n /\ j - 1 = n - k
    BY <1>1
  <2> HIDE DEF j
  <2>2. RevertText(t[j], acts[j]) = t[n - k]
    BY <1>3, <2>1
  <2> QED
    BY <2>2 DEF j
<1>6. g = Step(g)
  <2>1. g[0] = b
    BY <1>1, <1>2
  <2>2. \A k \in 1..n : g[k] = RevertText(g[k - 1], acts[n + 1 - k])
    <3> SUFFICES ASSUME NEW k \in 1..n PROVE g[k] = RevertText(g[k - 1], acts[n + 1 - k])
      OBVIOUS
    <3>1. g[k] = t[n - k] /\ g[k - 1] = t[n + 1 - k]
      BY <1>5
    <3> QED
      BY <1>0, <3>1
  <2>3. \A k \in 0..n : g[k] = IF k = 0 THEN b ELSE RevertText(g[k - 1], acts[n + 1 - k])
    <3>1. \A k \in 0..n : k = 0 \/ k \in 1..n
      BY <1>1
    <3> HIDE DEF g
    <3> QED
      BY <1>5, <2>1, <2>2, <3>1
  <2>4. g = [k \in 0..n |-> g[k]]
    OBVIOUS
  <2> HIDE DEF g
  <2>5. [k \in 0..n |-> g[k]] = Step(g)
    BY <2>3, Zenon
  <2> QED
    BY <2>4, <2>5, Zenon
<1>7. \E f : Backs(f, b, acts)
  BY <1>4, <1>6, Zenon
<1> DEFINE c == CHOOSE f : Backs(f, b, acts)
<1>8. Backs(c, b, acts)
  BY <1>7, Zenon
<1>9. TextBefore(b, acts) = c[n]
  BY Zenon DEF TextBefore, Backs, n
<1> HIDE DEF c
<1>10. c[0] = b /\ \A k \in 1..n : c[k] = RevertText(c[k - 1], acts[n + 1 - k])
  <2>1. c = Step(c)
    BY <1>4, <1>8
  <2>2. 0 \in 0..n
    BY <1>1
  <2> QED
    BY <1>5, <2>1, <2>2
<1> DEFINE T == {k \in 0..n : c[k] = t[n - k]}
<1>11. 0 \in T
  BY <1>1, <1>2, <1>10
<1>12. \A k \in 1..n : k - 1 \in T => k \in T
  <2> SUFFICES ASSUME NEW k \in 1..n, k - 1 \in T PROVE k \in T
    OBVIOUS
  <2>1. c[k - 1] = t[n + 1 - k]
    BY <1>5
  <2>2. RevertText(t[n + 1 - k], acts[n + 1 - k]) = t[n - k]
    BY <1>0
  <2>3. c[k] = t[n - k]
    BY <1>10, <2>1, <2>2
  <2> QED
    BY <1>5, <2>3
<1>13. \A k \in 0..n : k \in T
  <2> HIDE DEF T
  <2> QED
    BY <1>1, <1>11, <1>12, CountingUp
<1>14. n \in 0..n /\ n - n = 0
  BY <1>1
<1> QED
  BY <1>2, <1>9, <1>13, <1>14

\* The text a group on the stack leads to: that before the next group, or the present one.
Follows(stack, ls, k) == IF k = Len(stack) THEN ls ELSE stack[k + 1].was

\* LinesAtUndo goes back group by group.
Shows(f, k) ==
  f = [i \in 0..k |-> IF i = 0 THEN lines
                      ELSE TextBefore(f[i - 1], undoStack[Len(undoStack) + 1 - i].acts)]

LEMMA ShownAtUndo ==
  ASSUME NEW m, m = Len(undoStack), m \in Nat, NEW k \in 1..m,
         \A i \in 1..m : TextBefore(Follows(undoStack, lines, i), undoStack[i].acts) = undoStack[i].was
  PROVE  LinesAtUndo(k) = undoStack[m - k + 1].was
<1> DEFINE Step(f) == [i \in 0..k |-> IF i = 0 THEN lines ELSE TextBefore(f[i - 1], undoStack[m + 1 - i].acts)]
           g == [i \in 0..k |-> IF i = 0 THEN lines ELSE undoStack[m + 1 - i].was]
<1>1. \A f : Shows(f, k) <=> f = Step(f)
  BY Zenon DEF Shows
<1>2. \A i \in 1..k : i \in 0..k /\ i - 1 \in 0..k /\ i # 0 /\ m + 1 - i \in 1..m
  OBVIOUS
<1>3. \A i \in 1..k : g[i - 1] = Follows(undoStack, lines, m + 1 - i)
  <2> SUFFICES ASSUME NEW i \in 1..k PROVE g[i - 1] = Follows(undoStack, lines, m + 1 - i)
    OBVIOUS
  <2>1. CASE i = 1
    BY <2>1 DEF Follows
  <2>2. CASE i # 1
    <3>1. m + 1 - (i - 1) = m + 1 - i + 1 /\ m + 1 - i # m /\ i - 1 # 0 /\ i - 1 \in 0..k
      BY <2>2
    <3> QED
      BY <3>1 DEF Follows
  <2> QED
    BY <2>1, <2>2
<1>4. \A i \in 1..k : g[i] = TextBefore(g[i - 1], undoStack[m + 1 - i].acts)
  <2>1. \A i \in 1..k : g[i] = undoStack[m + 1 - i].was
    BY <1>2
  <2> HIDE DEF g
  <2> QED
    BY <1>2, <1>3, <2>1
<1>5. g = Step(g)
  <2>1. g[0] = lines /\ g = [i \in 0..k |-> g[i]]
    OBVIOUS
  <2>2. \A i \in 0..k : i = 0 \/ i \in 1..k
    OBVIOUS
  <2> HIDE DEF g
  <2>3. \A i \in 0..k : g[i] = IF i = 0 THEN lines ELSE TextBefore(g[i - 1], undoStack[m + 1 - i].acts)
    BY <1>2, <1>4, <2>1, <2>2
  <2>4. [i \in 0..k |-> g[i]] = Step(g)
    BY <2>3, Zenon
  <2> QED
    BY <2>1, <2>4, Zenon
<1> HIDE DEF g
<1> DEFINE c == CHOOSE f : Shows(f, k)
<1>6. Shows(c, k)
  <2>1. \E f : Shows(f, k)
    BY <1>1, <1>5, Zenon
  <2> QED
    BY <2>1, Zenon
<1>7. LinesAtUndo(k) = c[k]
  BY Zenon DEF LinesAtUndo, Shows
<1> HIDE DEF c
<1>8. c[0] = lines /\ \A i \in 1..k : c[i] = TextBefore(c[i - 1], undoStack[m + 1 - i].acts)
  <2>1. c = Step(c)
    BY <1>1, <1>6, Zenon
  <2>2. 0 \in 0..k
    OBVIOUS
  <2>3. c[0] = lines
    BY <2>1, <2>2
  <2>4. \A i \in 1..k : c[i] = TextBefore(c[i - 1], undoStack[m + 1 - i].acts)
    BY <1>2, <2>1
  <2> QED
    BY <2>3, <2>4
<1>9. g[0] = lines
  BY DEF g
<1> DEFINE T == {i \in 0..k : c[i] = g[i]}
<1>10. \A i \in 0..k : i \in T
  <2>1. 0 \in T
    BY <1>8, <1>9
  <2>2. \A i \in 1..k : i - 1 \in T => i \in T
    BY <1>2, <1>4, <1>8
  <2>3. k \in Nat
    OBVIOUS
  <2> HIDE DEF T
  <2> QED
    BY <2>1, <2>2, <2>3, CountingUp
<1>11. k \in 0..k /\ k # 0 /\ m + 1 - k = m - k + 1
  OBVIOUS
<1>12. g[k] = undoStack[m + 1 - k].was
  BY <1>11 DEF g
<1> QED
  BY <1>7, <1>10, <1>11, <1>12

-----------------------------------------------------------------------------
(* undo() takes the actions of a group back. *)

\* What undo() works on.
Takings == [ls : Texts, sel : Marks, acts : Acts, bad : BOOLEAN]

IsTaking(x, ls, ms, acts, bad) == x = [ls |-> ls, sel |-> ms, acts |-> acts, bad |-> bad]

LEMMA TakingSet ==
  ASSUME NEW r, NEW L, NEW S, NEW A, NEW B, IsTaking(r, L, S, A, B), NEW z
  PROVE  /\ IsTaking([r EXCEPT !.ls = z], z, S, A, B)
         /\ IsTaking([r EXCEPT !.sel = z], L, z, A, B)
         /\ IsTaking([r EXCEPT !.acts = z], L, S, z, B)
         /\ IsTaking([r EXCEPT !.bad = z], L, S, A, z)
<1>1. r = [ls |-> L, sel |-> S, acts |-> A, bad |-> B]
  BY DEF IsTaking
<1>2. [r EXCEPT !.ls = z] = [ls |-> z, sel |-> S, acts |-> A, bad |-> B]
  BY <1>1
<1>3. [r EXCEPT !.sel = z] = [ls |-> L, sel |-> z, acts |-> A, bad |-> B]
  BY <1>1
<1>4. [r EXCEPT !.acts = z] = [ls |-> L, sel |-> S, acts |-> z, bad |-> B]
  BY <1>1
<1>5. [r EXCEPT !.bad = z] = [ls |-> L, sel |-> S, acts |-> A, bad |-> z]
  BY <1>1
<1> QED
  BY <1>2, <1>3, <1>4, <1>5 DEF IsTaking

LEMMA TakingParts ==
  ASSUME NEW r, NEW L, NEW S, NEW A, NEW B, IsTaking(r, L, S, A, B)
  PROVE  r.ls = L /\ r.sel = S /\ r.acts = A /\ r.bad = B
BY DEF IsTaking

LEMMA TakingHas ==
  ASSUME NEW d \in Takings
  PROVE  /\ d.ls \in Texts /\ d.sel \in Marks /\ d.acts \in Acts /\ d.bad \in BOOLEAN
         /\ IsTaking(d, d.ls, d.sel, d.acts, d.bad)
BY DEF Takings, IsTaking

LEMMA TakingIs ==
  ASSUME NEW L \in Texts, NEW S \in Marks, NEW A \in Acts, NEW B \in BOOLEAN, NEW r, IsTaking(r, L, S, A, B)
  PROVE  r \in Takings
BY DEF Takings, IsTaking

LEMMA InFront ==
  ASSUME NEW e \in Actions, NEW p \in Acts
  PROVE  <<e>> \o p \in Acts
BY DEF Acts

\* Deleting a row sets no marker.
LEMMA NoneStays ==
  ASSUME NEW ls, NEW y \in Nat \ {0}
  PROVE  ForLineDelete(NoSel, ls, y) = NoSel
<1> DEFINE to == [m \in {NoMark} |->
                    IF m.y = y
                    THEN IF y < Len(ls) THEN At(y, 0)
                         ELSE IF y - 1 \in DOMAIN ls THEN At(y - 1, Len(ls[y - 1])) ELSE NoMark
                    ELSE IF m.y > y THEN At(m.y - 1, m.x) ELSE m]
<1>1. NoSel.s = NoMark /\ NoSel.e = NoMark /\ {NoMark, NoMark} = {NoMark}
  BY DEF NoSel
<1>2. NoMark.y # y /\ ~(NoMark.y > y)
  BY DEF NoMark
<1>3. to[NoMark] = NoMark
  BY <1>2
<1>4. ForLineDelete(NoSel, ls, y) = IF NoMark \in {to[NoMark], to[NoMark]} THEN NoSel ELSE Adjust(NoSel, to)
  BY <1>1, Zenon DEF ForLineDelete
<1> HIDE DEF to
<1> QED
  BY <1>3, <1>4

\* The action recorded for e when it is taken back in the text ls.
InverseOf(ls, e) ==
  CASE e.kind = "replace" -> Act("replace", e.y, ls[e.y])
    [] e.kind = "insert"  -> Act("delete", e.y, ls[e.y])
    [] OTHER              -> Act("insert", e.y, <<>>)

\* One action that can be taken back.
LEMMA RevertOn ==
  ASSUME NEW d \in Takings, ~d.bad, NEW e \in Actions, Revertible(d.ls, e)
  PROVE  /\ Revert(d, e) \in Takings /\ ~Revert(d, e).bad
         /\ Revert(d, e).ls = RevertText(d.ls, e)
         /\ Revert(d, e).acts = <<InverseOf(d.ls, e)>> \o d.acts
         /\ OnText(d.sel, d.ls) => OnText(Revert(d, e).sel, Revert(d, e).ls)
         /\ d.sel = NoSel => Revert(d, e).sel = NoSel
<1> DEFINE ls == d.ls
           y == e.y
           m == Len(ls)
<1>1. /\ ls \in Texts /\ d.sel \in Marks /\ d.acts \in Acts /\ d.bad = FALSE
      /\ IsTaking(d, ls, d.sel, d.acts, FALSE)
  BY TakingHas
<1>2. /\ e.kind \in {"replace", "insert", "delete"} /\ y \in Int /\ e.saved \in Row
      /\ m \in Nat /\ DOMAIN ls = 1..m
  BY <1>1 DEF Actions, Kinds, Texts
<1>3. CASE e.kind = "replace"
  <2> DEFINE t == [ls EXCEPT ![y] = e.saved]
             A == <<Act("replace", y, ls[y])>> \o d.acts
             q == [d EXCEPT !.ls = t]
             x == [q EXCEPT !.acts = A]
  <2>1. y \in DOMAIN ls
    BY <1>3 DEF Revertible
  <2>2. Revert(d, e) = [d EXCEPT !.ls[y] = e.saved, !.acts = A]
    BY <1>3, Zenon DEF Revert
  <2>3. x = [d EXCEPT !.ls[y] = e.saved, !.acts = A]
    BY Zenon
  <2>4. RevertText(ls, e) = t
    BY <1>3, <2>1 DEF RevertText
  <2>5. t \in Texts /\ DOMAIN t = DOMAIN ls
    BY <1>1, <1>2, <2>1, RowReplaced
  <2>6. A \in Acts
    <3>1. ls[y] \in Row
      BY <1>1, <2>1 DEF Texts
    <3>2. Act("replace", y, ls[y]) \in Actions
      BY <1>2, <3>1 DEF Act, Actions, Kinds
    <3> QED
      BY <1>1, <3>2, InFront
  <2> HIDE DEF t, A
  <2>7. IsTaking(q, t, d.sel, d.acts, FALSE)
    BY <1>1, TakingSet, Zenon
  <2> HIDE DEF q
  <2>8. IsTaking(x, t, d.sel, A, FALSE)
    BY <2>7, TakingSet, Zenon
  <2> HIDE DEF x
  <2>9. x \in Takings /\ x.ls = t /\ x.sel = d.sel /\ x.acts = A /\ x.bad = FALSE
    BY <1>1, <2>5, <2>6, <2>8, TakingIs, TakingParts
  <2>10. Revert(d, e) = x
    BY <2>2, <2>3, Zenon
  <2>11. OnText(d.sel, ls) => OnText(d.sel, t)
    BY <2>5 DEF OnText
  <2>12. A = <<InverseOf(ls, e)>> \o d.acts
    BY <1>3 DEF InverseOf, A
  <2> QED
    BY <2>4, <2>9, <2>10, <2>11, <2>12
<1>4. CASE e.kind = "insert"
  <2> DEFINE t == Splice(ls, y, y, <<>>)
             ms == ForLineDelete(d.sel, t, y)
             A == <<Act("delete", y, ls[y])>> \o d.acts
             q == [d EXCEPT !.ls = t]
             r == [q EXCEPT !.sel = ms]
             x == [r EXCEPT !.acts = A]
  <2>1. y \in DOMAIN ls
    BY <1>4 DEF Revertible
  <2>2. Revert(d, e) = [d EXCEPT !.ls = t, !.sel = ms, !.acts = A]
    BY <1>4, Zenon DEF Revert
  <2>3. x = [d EXCEPT !.ls = t, !.sel = ms, !.acts = A]
    BY Zenon
  <2>4. RevertText(ls, e) = t
    BY <1>4, <2>1 DEF RevertText
  <2>5. t \in Texts /\ Len(t) = m - 1
    BY <1>1, <1>2, <2>1, RowDeleted
  <2>6. A \in Acts
    <3>1. ls[y] \in Row
      BY <1>1, <2>1 DEF Texts
    <3>2. Act("delete", y, ls[y]) \in Actions
      BY <1>2, <3>1 DEF Act, Actions, Kinds
    <3> QED
      BY <1>1, <3>2, InFront
  <2> HIDE DEF t, A
  <2>7. y \in 1..Len(t) + 1 /\ 1..Len(t) + 1 = DOMAIN ls
    BY <1>2, <2>1, <2>5
  <2>8. ms \in Marks /\ (OnText(d.sel, ls) => OnText(ms, t))
    <3>1. \A z \in {d.sel} : OnText(z, ls) <=> \A v \in {z.s, z.e} \ {NoMark} : v.y \in 1..Len(t) + 1
      BY <2>7 DEF OnText
    <3> QED
      BY <1>1, <2>5, <2>7, <3>1, LineDeleteMoves
  <2> HIDE DEF ms
  <2>9. IsTaking(q, t, d.sel, d.acts, FALSE)
    BY <1>1, TakingSet, Zenon
  <2> HIDE DEF q
  <2>10. IsTaking(r, t, ms, d.acts, FALSE)
    BY <2>9, TakingSet, Zenon
  <2> HIDE DEF r
  <2>11. IsTaking(x, t, ms, A, FALSE)
    BY <2>10, TakingSet, Zenon
  <2> HIDE DEF x
  <2>12. x \in Takings /\ x.ls = t /\ x.sel = ms /\ x.acts = A /\ x.bad = FALSE
    BY <2>5, <2>6, <2>8, <2>11, TakingIs, TakingParts
  <2>13. Revert(d, e) = x
    BY <2>2, <2>3, Zenon
  <2>14. d.sel = NoSel => ms = NoSel
    <3>1. y \in Nat \ {0}
      BY <1>2, <2>1
    <3> QED
      BY <3>1, NoneStays DEF ms
  <2>15. A = <<InverseOf(ls, e)>> \o d.acts
    BY <1>4 DEF InverseOf, A
  <2> QED
    BY <2>4, <2>8, <2>12, <2>13, <2>14, <2>15
<1>5. CASE e.kind = "delete"
  <2> DEFINE t == Splice(ls, y, y - 1, <<e.saved>>)
             A == <<Act("insert", y, <<>>)>> \o d.acts
             q == [d EXCEPT !.ls = t]
             x == [q EXCEPT !.acts = A]
  <2>1. y \in 1..m + 1 /\ y <= m + 1
    BY <1>2, <1>5 DEF Revertible
  <2>2. Revert(d, e) = [d EXCEPT !.ls = t, !.acts = A]
    BY <1>5, Zenon DEF Revert
  <2>3. x = [d EXCEPT !.ls = t, !.acts = A]
    BY Zenon
  <2>4. RevertText(ls, e) = t
    BY <1>5, <2>1 DEF RevertText
  <2>5. t \in Texts /\ Len(t) = m + 1
    BY <1>1, <1>2, <2>1, RowInserted
  <2>6. A \in Acts
    <3>1. Act("insert", y, <<>>) \in Actions
      BY <1>2, NoChar DEF Act, Actions, Kinds
    <3> QED
      BY <1>1, <3>1, InFront
  <2> HIDE DEF t, A
  <2>7. DOMAIN ls \subseteq DOMAIN t
    BY <1>2, <2>5 DEF Texts
  <2>8. IsTaking(q, t, d.sel, d.acts, FALSE)
    BY <1>1, TakingSet, Zenon
  <2> HIDE DEF q
  <2>9. IsTaking(x, t, d.sel, A, FALSE)
    BY <2>8, TakingSet, Zenon
  <2> HIDE DEF x
  <2>10. x \in Takings /\ x.ls = t /\ x.sel = d.sel /\ x.acts = A /\ x.bad = FALSE
    BY <1>1, <2>5, <2>6, <2>9, TakingIs, TakingParts
  <2>11. Revert(d, e) = x
    BY <2>2, <2>3, Zenon
  <2>12. OnText(d.sel, ls) => OnText(d.sel, t)
    BY <2>7 DEF OnText
  <2>13. A = <<InverseOf(ls, e)>> \o d.acts
    BY <1>5 DEF InverseOf, A
  <2> QED
    BY <2>4, <2>10, <2>11, <2>12, <2>13
<1> QED
  BY <1>2, <1>3, <1>4, <1>5

LEMMA RevertTyped ==
  ASSUME NEW d \in Takings, NEW e \in Actions
  PROVE  Revert(d, e) \in Takings
<1>1. CASE d.bad \/ ~Revertible(d.ls, e)
  <2>1. Revert(d, e) = [d EXCEPT !.bad = TRUE]
    BY <1>1 DEF Revert
  <2>2. [d EXCEPT !.bad = TRUE] \in Takings
    BY DEF Takings
  <2> QED
    BY <2>1, <2>2
<1>2. CASE ~d.bad /\ Revertible(d.ls, e)
  BY <1>2, RevertOn
<1> QED
  BY <1>1, <1>2

\* Reverted takes the actions back one by one.
Reverts(f, acts) ==
  f = [k \in 0..Len(acts) |-> IF k = 0 THEN Untouched ELSE Revert(f[k - 1], acts[Len(acts) + 1 - k])]

LEMMA RevertsExist ==
  ASSUME NEW acts \in Acts, Untouched \in Takings
  PROVE  \E f : Reverts(f, acts)
<1> DEFINE n == Len(acts)
           F == [k \in 1..n |-> [d \in Takings |-> Revert(d, acts[n + 1 - k])]]
           Step(f) == [k \in 0..n |-> IF k = 0 THEN Untouched ELSE Revert(f[k - 1], acts[n + 1 - k])]
<1>1. n \in Nat /\ \A k \in 1..n : acts[k] \in Actions
  BY DEF Acts
<1>2. \A k \in 1..n : k \in 0..n /\ k - 1 \in 0..n /\ k # 0 /\ n + 1 - k \in 1..n
  BY <1>1
<1>3. \A f : Reverts(f, acts) <=> f = Step(f)
  BY Zenon DEF Reverts
<1> HIDE DEF n
<1>4. F \in [1..n -> [Takings -> Takings]] /\ \A k \in 1..n, d \in Takings : F[k][d] = Revert(d, acts[n + 1 - k])
  <2>1. \A k \in 1..n, d \in Takings : Revert(d, acts[n + 1 - k]) \in Takings
    BY <1>1, <1>2, RevertTyped
  <2> QED
    BY <2>1
<1> HIDE DEF F
<1>5. PICK g : Along(g, Takings, n, Untouched, F)
  BY <1>1, <1>4, Recursion
<1>6. g = Step(g)
  <2>1. g = [k \in 0..n |-> g[k]]
    BY <1>5, Zenon DEF Along
  <2>2. \A k \in 0..n : g[k] = IF k = 0 THEN Untouched ELSE Revert(g[k - 1], acts[n + 1 - k])
    <3>1. \A k \in 0..n : k = 0 \/ k \in 1..n
      BY <1>1
    <3>2. g[0] = Untouched
      BY <1>5 DEF Along
    <3>3. \A k \in 1..n : g[k] = Revert(g[k - 1], acts[n + 1 - k])
      BY <1>2, <1>4, <1>5 DEF Along
    <3> QED
      BY <1>2, <3>1, <3>2, <3>3
  <2>3. [k \in 0..n |-> g[k]] = Step(g)
    BY <2>2, Zenon
  <2> QED
    BY <2>1, <2>3, Zenon
<1> QED
  BY <1>3, <1>6, Zenon

\* What undo() comes to with a group, action by action.
LEMMA RevertedIs ==
  ASSUME NEW g, g.acts \in Acts, Untouched \in Takings
  PROVE  \E c : /\ c[0] = Untouched /\ Reverted(g) = c[Len(g.acts)]
                /\ \A k \in 1..Len(g.acts) : c[k] = Revert(c[k - 1], g.acts[Len(g.acts) + 1 - k])
<1> DEFINE acts == g.acts
           n == Len(acts)
<1>1. n \in Nat /\ 0 \in 0..n
  BY DEF Acts
<1>2. \A k \in 1..n : k \in 0..n /\ k # 0
  BY <1>1
<1> HIDE DEF n
<1> DEFINE c == CHOOSE f : Reverts(f, acts)
<1>3. Reverts(c, acts)
  <2>1. \E f : Reverts(f, acts)
    BY RevertsExist, Zenon
  <2> QED
    BY <2>1, Zenon
<1>4. Reverted(g) = c[n]
  BY Zenon DEF Reverted, Reverts, n
<1> HIDE DEF c, acts
<1>5. c = [k \in 0..n |-> IF k = 0 THEN Untouched ELSE Revert(c[k - 1], acts[n + 1 - k])]
  BY <1>3, Zenon DEF Reverts, n
<1>6. c[0] = Untouched
  BY <1>1, <1>5
<1>7. \A k \in 1..n : c[k] = Revert(c[k - 1], acts[n + 1 - k])
  BY <1>2, <1>5
<1> QED
  BY <1>4, <1>6, <1>7, Zenon DEF n, acts

\* undo() of a group that leads back from the text.
LEMMA RevertedOn ==
  ASSUME NEW g, NEW a, g.acts \in Acts, Trail(a, g.acts, lines), sel \in Marks
  PROVE  /\ Reverted(g).ls = a /\ ~Reverted(g).bad
         /\ Reverted(g).sel \in Marks
         /\ OnText(sel, lines) => OnText(Reverted(g).sel, a)
         /\ sel = NoSel => Reverted(g).sel = NoSel
<1> DEFINE acts == g.acts
           n == Len(acts)
<1>1. n \in Nat /\ acts \in Acts /\ \A k \in 1..n : acts[k] \in Actions
  BY DEF Acts
<1>2. PICK t \in [0..n -> Texts] : Walks(t, acts) /\ t[0] = a /\ t[n] = lines
  BY DEF Trail
<1>3. \A k \in 1..n : Revertible(t[k], acts[k]) /\ RevertText(t[k], acts[k]) = t[k - 1]
  BY <1>2 DEF Walks
<1>4. lines \in Texts
  BY TrailTyped
<1>5. /\ Untouched \in Takings /\ Untouched.ls = lines /\ Untouched.sel = sel /\ ~Untouched.bad
  BY <1>4 DEF Untouched, Takings, Acts
<1>6. \A k \in 1..n : k \in 0..n /\ k - 1 \in 0..n /\ k # 0 /\ n + 1 - k \in 1..n
  BY <1>1
<1> HIDE DEF n
<1>7. PICK c : /\ c[0] = Untouched /\ Reverted(g) = c[n]
               /\ \A k \in 1..n : c[k] = Revert(c[k - 1], acts[n + 1 - k])
  BY <1>5, RevertedIs DEF n
<1> HIDE DEF acts
<1> DEFINE Good(d, ls) == /\ d \in Takings /\ ~d.bad /\ d.ls = ls
                          /\ OnText(sel, lines) => OnText(d.sel, ls)
                          /\ sel = NoSel => d.sel = NoSel
           T == {k \in 0..n : Good(c[k], t[n - k])}
<1>12. 0 \in T
  BY <1>1, <1>2, <1>5, <1>7
<1>13. \A k \in 1..n : k - 1 \in T => k \in T
  <2> SUFFICES ASSUME NEW k \in 1..n, k - 1 \in T PROVE k \in T
    OBVIOUS
  <2> DEFINE j == n + 1 - k
             d == c[k - 1]
             e == acts[j]
  <2>1. j \in 1..n /\ j - 1 = n - k /\ n - (k - 1) = j
    BY <1>1
  <2>2. Good(d, t[j])
    BY <2>1
  <2>3. c[k] = Revert(d, e)
    BY <1>7
  <2> HIDE DEF j, d
  <2>4. e \in Actions /\ Revertible(d.ls, e) /\ RevertText(d.ls, e) = t[n - k]
    BY <1>1, <1>3, <2>1, <2>2
  <2> HIDE DEF e
  <2>5. Good(c[k], t[n - k])
    BY <2>2, <2>3, <2>4, RevertOn, ZenonT(60)
  <2> HIDE DEF Good
  <2> QED
    BY <1>6, <2>5
<1>14. \A k \in 0..n : k \in T
  <2> HIDE DEF T
  <2> QED
    BY <1>1, <1>12, <1>13, CountingUp
<1>15. n \in 0..n /\ n - n = 0
  BY <1>1
<1>16. Good(c[n], a)
  BY <1>2, <1>14, <1>15
<1> QED
  BY <1>7, <1>16, TakingHas
-----------------------------------------------------------------------------
(* Places of the text, and markers that follow a change of rows. *)

\* No marker, or, where there are marker commands, markers at places of the text.
MarksIn(ms, ls) ==
  ms = NoSel \/ ("mark" \in Ops /\ \A q \in {ms.s, ms.e} \ {NoMark} : InPlace(q, ls))

Placed(ls, c, ms) == InPlace(c, ls) /\ MarksIn(ms, ls)

LEMMA PlaceIs ==
  ASSUME NEW ls \in Texts, NEW p, InPlace(p, ls)
  PROVE  /\ p.y \in 1..Len(ls) /\ p.y \in Nat \ {0} /\ p.x \in Nat /\ p.x <= Len(ls[p.y])
         /\ Len(ls) \in Nat /\ Len(ls[p.y]) \in Nat /\ ls[p.y] \in Row /\ p # NoMark
BY LengthOfRow DEF InPlace, Texts, NoMark

LEMMA PlaceOf ==
  ASSUME NEW ls \in Texts, NEW p, NEW y, NEW x, p.y = y, p.x = x,
         y \in 1..Len(ls), x \in Nat, x <= Len(ls[y])
  PROVE  InPlace(p, ls)
<1>1. Len(ls[y]) \in Nat /\ y \in DOMAIN ls
  BY LengthOfRow DEF Texts
<1>2. x \in 0..Len(ls[y])
  BY <1>1
<1> QED
  BY <1>1, <1>2, Zenon DEF InPlace

\* Markers that each go to a place of the text ks, or are dropped.
LEMMA AdjustedIn ==
  ASSUME NEW ms \in Marks, NEW ls, NEW ks, MarksIn(ms, ls), NEW to,
         \A q \in {ms.s, ms.e} : q = NoMark => to[q] = NoMark,
         \A q \in {ms.s, ms.e} : InPlace(q, ls) => to[q] = NoMark \/ InPlace(to[q], ks)
  PROVE  MarksIn(Adjust(ms, to), ks) /\ MarksIn(NoSel, ks)
<1>1. MarksIn(NoSel, ks)
  BY DEF MarksIn
<1>2. CASE ms = NoSel
  <2>1. to[ms.s] = NoMark /\ to[ms.e] = NoMark
    BY <1>2 DEF NoSel
  <2>2. Adjust(ms, to) = NoSel
    BY <2>1 DEF Adjust, Sanitize, NoSel
  <2> QED
    BY <1>1, <2>2
<1>3. CASE ms # NoSel
  <2>1. "mark" \in Ops /\ \A q \in {ms.s, ms.e} \ {NoMark} : InPlace(q, ls)
    BY <1>3 DEF MarksIn
  <2>2. \A q \in {ms.s, ms.e} : to[q] = NoMark \/ InPlace(to[q], ks)
    BY <2>1
  <2> DEFINE new == [s |-> to[ms.s], e |-> to[ms.e]]
  <2>3. \A q \in {new.s, new.e} \ {NoMark} : InPlace(q, ks)
    BY <2>2
  <2>4. Adjust(ms, to) = IF new.s # NoMark /\ new.e # NoMark /\ ~Precedes(new.s, new.e) THEN NoSel ELSE new
    BY Zenon DEF Adjust, Sanitize
  <2> HIDE DEF new
  <2>5. MarksIn(new, ks)
    BY <2>1, <2>3 DEF MarksIn
  <2> QED
    BY <1>1, <2>4, <2>5
<1> QED
  BY <1>2, <1>3

\* Row y of ks is n longer than that of ls, and the others are as long.
Longer(ks, ls, y, n) ==
  /\ DOMAIN ks = DOMAIN ls
  /\ \A i \in DOMAIN ls : Len(ks[i]) = IF i = y THEN Len(ls[i]) + n ELSE Len(ls[i])

\* Row y of ls is two rows of ks, the first with the x characters before the split.
Parted(ks, ls, y, x) ==
  /\ Len(ks) = Len(ls) + 1
  /\ Len(ks[y]) = x /\ Len(ks[y + 1]) = Len(ls[y]) - x
  /\ \A i \in 1..Len(ls) : (i < y => Len(ks[i]) = Len(ls[i])) /\ (i > y => Len(ks[i + 1]) = Len(ls[i]))

LEMMA InsertMarks ==
  ASSUME NEW ls \in Texts, NEW ks \in Texts, NEW ms \in Marks, MarksIn(ms, ls),
         NEW at, InPlace(at, ls), NEW n \in Nat, Longer(ks, ls, at.y, n)
  PROVE  MarksIn(ForInsert(ms, at, n), ks)
<1> DEFINE go(m) == IF m.y = at.y /\ m.x >= at.x THEN At(m.y, m.x + n) ELSE m
           to == [m \in {ms.s, ms.e} |-> go(m)]
<1>1. /\ at.y \in 1..Len(ls) /\ at.x \in Nat /\ at.x <= Len(ls[at.y]) /\ Len(ls[at.y]) \in Nat
  BY PlaceIs
<1>2. go(NoMark) = NoMark
  BY <1>1 DEF NoMark
<1>3. ASSUME NEW m, InPlace(m, ls) PROVE InPlace(go(m), ks)
  <2>1. m.y \in DOMAIN ls /\ m.x \in Nat /\ m.x <= Len(ls[m.y]) /\ Len(ls[m.y]) \in Nat
    BY <1>3, PlaceIs DEF InPlace
  <2>2. m.y \in DOMAIN ks /\ Len(ks[m.y]) = IF m.y = at.y THEN Len(ls[m.y]) + n ELSE Len(ls[m.y])
    BY <2>1 DEF Longer
  <2>3. go(m).y = m.y /\ go(m).x \in Nat /\ go(m).x <= Len(ks[m.y])
    BY <1>1, <2>1, <2>2 DEF At
  <2>4. m.y \in 1..Len(ks)
    BY <2>2 DEF Texts
  <2> HIDE DEF go
  <2> QED
    BY <2>3, <2>4, PlaceOf, Zenon
<1> HIDE DEF go
<1>4. \A q \in {ms.s, ms.e} : to[q] = go(q)
  OBVIOUS
<1>5. ForInsert(ms, at, n) = Adjust(ms, to)
  BY Zenon DEF ForInsert, go
<1> HIDE DEF to
<1>6. \A q \in {ms.s, ms.e} : q = NoMark => to[q] = NoMark
  BY <1>2, <1>4, Zenon
<1>7. \A q \in {ms.s, ms.e} : InPlace(q, ls) => to[q] = NoMark \/ InPlace(to[q], ks)
  BY <1>3, <1>4, Zenon
<1> QED
  BY <1>5, <1>6, <1>7, AdjustedIn, Zenon

LEMMA DeleteMarks ==
  ASSUME NEW ls \in Texts, NEW ks \in Texts, NEW ms \in Marks, MarksIn(ms, ls),
         NEW at, InPlace(at, ls), NEW n \in Nat, at.x + n <= Len(ls[at.y]), Longer(ks, ls, at.y, -n)
  PROVE  MarksIn(ForDelete(ms, at, n), ks)
<1> DEFINE go(m) == IF m.y = at.y /\ m.x > at.x THEN At(m.y, Larger(m.x - n, at.x)) ELSE m
           to == [m \in {ms.s, ms.e} |-> go(m)]
<1>1. /\ at.y \in 1..Len(ls) /\ at.x \in Nat /\ at.x <= Len(ls[at.y]) /\ Len(ls[at.y]) \in Nat
  BY PlaceIs
<1>2. go(NoMark) = NoMark
  BY <1>1 DEF NoMark
<1>3. ASSUME NEW m, InPlace(m, ls) PROVE InPlace(go(m), ks)
  <2>1. m.y \in DOMAIN ls /\ m.x \in Nat /\ m.x <= Len(ls[m.y]) /\ Len(ls[m.y]) \in Nat
    BY <1>3, PlaceIs DEF InPlace
  <2>2. m.y \in DOMAIN ks /\ Len(ks[m.y]) = IF m.y = at.y THEN Len(ls[m.y]) + (-n) ELSE Len(ls[m.y])
    BY <2>1 DEF Longer
  <2>3. go(m).y = m.y /\ go(m).x \in Nat /\ go(m).x <= Len(ks[m.y])
    BY <1>1, <2>1, <2>2, SMTT(30) DEF At, Larger
  <2>4. m.y \in 1..Len(ks)
    BY <2>2 DEF Texts
  <2> HIDE DEF go
  <2> QED
    BY <2>3, <2>4, PlaceOf, Zenon
<1> HIDE DEF go
<1>4. \A q \in {ms.s, ms.e} : to[q] = go(q)
  OBVIOUS
<1>5. ForDelete(ms, at, n) = Adjust(ms, to)
  BY Zenon DEF ForDelete, go
<1> HIDE DEF to
<1>6. \A q \in {ms.s, ms.e} : q = NoMark => to[q] = NoMark
  BY <1>2, <1>4, Zenon
<1>7. \A q \in {ms.s, ms.e} : InPlace(q, ls) => to[q] = NoMark \/ InPlace(to[q], ks)
  BY <1>3, <1>4, Zenon
<1> QED
  BY <1>5, <1>6, <1>7, AdjustedIn, Zenon

LEMMA SplitMarks ==
  ASSUME NEW ls \in Texts, NEW ks \in Texts, NEW ms \in Marks, MarksIn(ms, ls),
         NEW at, InPlace(at, ls), Parted(ks, ls, at.y, at.x)
  PROVE  MarksIn(ForSplit(ms, at), ks)
<1> DEFINE go(m) == IF m.y = at.y /\ m.x >= at.x THEN At(m.y + 1, m.x - at.x)
                    ELSE IF m.y > at.y THEN At(m.y + 1, m.x) ELSE m
           to == [m \in {ms.s, ms.e} |-> go(m)]
<1>1. /\ at.y \in 1..Len(ls) /\ at.x \in Nat /\ at.x <= Len(ls[at.y]) /\ Len(ls[at.y]) \in Nat
      /\ Len(ls) \in Nat /\ DOMAIN ks = 1..Len(ls) + 1
  BY PlaceIs DEF Parted, Texts
<1>2. go(NoMark) = NoMark
  BY <1>1 DEF NoMark
<1>3. ASSUME NEW m, InPlace(m, ls) PROVE InPlace(go(m), ks)
  <2>1. m.y \in 1..Len(ls) /\ m.x \in Nat /\ m.x <= Len(ls[m.y]) /\ Len(ls[m.y]) \in Nat
    BY <1>3, PlaceIs
  <2>2. CASE m.y = at.y /\ m.x >= at.x
    <3>1. go(m).y = at.y + 1 /\ go(m).x = m.x - at.x
      BY <2>2 DEF At
    <3>2. at.y + 1 \in 1..Len(ks)
      BY <1>1 DEF Parted
    <3>3. Len(ks[at.y + 1]) = Len(ls[at.y]) - at.x
      BY DEF Parted
    <3>4. m.x - at.x \in Nat /\ m.x - at.x <= Len(ks[at.y + 1])
      BY <1>1, <2>1, <2>2, <3>3
    <3> HIDE DEF go
    <3> QED
      BY <3>1, <3>2, <3>4, PlaceOf, Zenon
  <2>3. CASE m.y > at.y
    <3>1. go(m).y = m.y + 1 /\ go(m).x = m.x
      BY <1>1, <2>1, <2>3 DEF At
    <3>2. Len(ks[m.y + 1]) = Len(ls[m.y])
      BY <2>1, <2>3 DEF Parted
    <3> QED
      BY <1>1, <2>1, <3>1, <3>2 DEF InPlace
  <2>4. CASE m.y = at.y /\ ~(m.x >= at.x)
    <3>1. go(m) = m
      BY <1>1, <2>4
    <3> QED
      BY <1>1, <2>1, <2>4, <3>1 DEF InPlace, Parted
  <2>5. CASE m.y < at.y
    <3>1. go(m) = m
      BY <1>1, <2>1, <2>5
    <3>2. Len(ks[m.y]) = Len(ls[m.y])
      BY <2>1, <2>5 DEF Parted
    <3> QED
      BY <1>1, <2>1, <3>1, <3>2 DEF InPlace
  <2> QED
    BY <1>1, <2>1, <2>2, <2>3, <2>4, <2>5
<1> HIDE DEF go
<1>4. \A q \in {ms.s, ms.e} : to[q] = go(q)
  OBVIOUS
<1>5. ForSplit(ms, at) = Adjust(ms, to)
  BY Zenon DEF ForSplit, go
<1> HIDE DEF to
<1>6. \A q \in {ms.s, ms.e} : q = NoMark => to[q] = NoMark
  BY <1>2, <1>4, Zenon
<1>7. \A q \in {ms.s, ms.e} : InPlace(q, ls) => to[q] = NoMark \/ InPlace(to[q], ks)
  BY <1>3, <1>4, Zenon
<1> QED
  BY <1>5, <1>6, <1>7, AdjustedIn, Zenon

\* Joining is splitting taken back.
LEMMA JoinMarks ==
  ASSUME NEW ls \in Texts, NEW ks \in Texts, NEW ms \in Marks, MarksIn(ms, ls),
         NEW y \in 2..Len(ls), NEW n \in Nat, Parted(ls, ks, y - 1, n)
  PROVE  MarksIn(ForJoin(ms, y, n), ks)
<1> DEFINE go(m) == IF m.y = y THEN At(y - 1, m.x + n)
                    ELSE IF m.y > y THEN At(m.y - 1, m.x) ELSE m
           to == [m \in {ms.s, ms.e} |-> go(m)]
<1>1. /\ Len(ls) = Len(ks) + 1 /\ Len(ks) \in Nat /\ DOMAIN ks = 1..Len(ks) /\ y \in Nat
      /\ y - 1 \in 1..Len(ks) /\ (y - 1) + 1 = y /\ \A i \in 1..Len(ks) : Len(ks[i]) \in Nat
  BY LengthOfRow, SMTT(30) DEF Parted, Texts
<1>2. go(NoMark) = NoMark
  BY <1>1 DEF NoMark
<1>3. ASSUME NEW m, InPlace(m, ls) PROVE InPlace(go(m), ks)
  <2>1. m.y \in 1..Len(ls) /\ m.x \in Nat /\ m.x <= Len(ls[m.y]) /\ Len(ls[m.y]) \in Nat
    BY <1>3, PlaceIs
  <2>2. CASE m.y = y
    <3>1. go(m).y = y - 1 /\ go(m).x = m.x + n
      BY <2>2 DEF At
    <3>2. Len(ls[y]) = Len(ks[y - 1]) - n
      BY <1>1 DEF Parted
    <3> QED
      BY <1>1, <2>1, <2>2, <3>1, <3>2 DEF InPlace
  <2>3. CASE m.y > y
    <3> DEFINE j == m.y - 1
    <3>1. go(m).y = j /\ go(m).x = m.x
      BY <1>1, <2>1, <2>3 DEF At
    <3>2. j \in 1..Len(ks) /\ j > y - 1 /\ j + 1 = m.y
      BY <1>1, <2>1, <2>3
    <3>3. Len(ls[j + 1]) = Len(ks[j])
      BY <3>2 DEF Parted
    <3> QED
      BY <1>1, <2>1, <3>1, <3>2, <3>3 DEF InPlace
  <2>4. CASE m.y = y - 1
    <3>1. go(m) = m
      BY <1>1, <2>4
    <3>2. n = Len(ls[y - 1]) /\ Len(ls[y]) = Len(ks[y - 1]) - n /\ Len(ls[y]) \in Nat
      BY <1>1, LengthOfRow DEF Parted, Texts
    <3> QED
      BY <1>1, <2>1, <2>4, <3>1, <3>2 DEF InPlace
  <2>5. CASE m.y < y - 1
    <3>1. go(m) = m
      BY <1>1, <2>1, <2>5
    <3>2. m.y \in 1..Len(ks) /\ Len(ls[m.y]) = Len(ks[m.y])
      BY <1>1, <2>1, <2>5 DEF Parted
    <3> QED
      BY <1>1, <2>1, <3>1, <3>2 DEF InPlace
  <2> QED
    BY <1>1, <2>1, <2>2, <2>3, <2>4, <2>5
<1> HIDE DEF go
<1>4. \A q \in {ms.s, ms.e} : to[q] = go(q)
  OBVIOUS
<1>5. ForJoin(ms, y, n) = Adjust(ms, to)
  BY Zenon DEF ForJoin, go
<1> HIDE DEF to
<1>6. \A q \in {ms.s, ms.e} : q = NoMark => to[q] = NoMark
  BY <1>2, <1>4, Zenon
<1>7. \A q \in {ms.s, ms.e} : InPlace(q, ls) => to[q] = NoMark \/ InPlace(to[q], ks)
  BY <1>3, <1>4, Zenon
<1> QED
  BY <1>5, <1>6, <1>7, AdjustedIn, Zenon

\* ks is ls without row y.
Rowless(ks, ls, y) ==
  /\ Len(ls) = Len(ks) + 1
  /\ \A i \in 1..Len(ks) : ks[i] = IF i < y THEN ls[i] ELSE ls[i + 1]

LEMMA LineDeleteMarks ==
  ASSUME NEW ls \in Texts, NEW ks \in Texts, NEW ms \in Marks, MarksIn(ms, ls),
         NEW y \in DOMAIN ls, Len(ls) > 1, Rowless(ks, ls, y)
  PROVE  MarksIn(ForLineDelete(ms, ls, y), ks)
<1> DEFINE go(m) == IF m.y = y
                    THEN IF y < Len(ls) THEN At(y, 0)
                         ELSE IF y - 1 \in DOMAIN ls THEN At(y - 1, Len(ls[y - 1])) ELSE NoMark
                    ELSE IF m.y > y THEN At(m.y - 1, m.x) ELSE m
           to == [m \in {ms.s, ms.e} |-> go(m)]
<1>1. /\ Len(ls) = Len(ks) + 1 /\ Len(ks) \in Nat /\ DOMAIN ks = 1..Len(ks) /\ DOMAIN ls = 1..Len(ls)
      /\ y \in Nat /\ y \in 1..Len(ls) /\ \A i \in 1..Len(ks) : Len(ks[i]) \in Nat
  BY LengthOfRow DEF Rowless, Texts
<1>2. go(NoMark) = NoMark
  BY <1>1 DEF NoMark
<1>3. ASSUME NEW m, InPlace(m, ls) PROVE InPlace(go(m), ks)
  <2>1. m.y \in 1..Len(ls) /\ m.x \in Nat /\ m.x <= Len(ls[m.y]) /\ Len(ls[m.y]) \in Nat
    BY <1>3, PlaceIs
  <2>2. CASE m.y = y /\ y < Len(ls)
    <3>1. go(m).y = y /\ go(m).x = 0
      BY <2>2 DEF At
    <3> QED
      BY <1>1, <2>2, <3>1 DEF InPlace
  <2>3. CASE m.y = y /\ y = Len(ls)
    <3>1. y - 1 \in DOMAIN ls /\ y - 1 \in 1..Len(ks) /\ y - 1 < y
      BY <1>1, <2>3
    <3>2. go(m) = At(y - 1, Len(ls[y - 1]))
      BY <1>1, <2>3, <3>1
    <3>3. ks[y - 1] = ls[y - 1]
      BY <3>1 DEF Rowless
    <3> HIDE DEF go
    <3>4. go(m).y = y - 1 /\ go(m).x = Len(ls[y - 1])
      BY <3>2 DEF At
    <3>5. Len(ls[y - 1]) \in Nat /\ Len(ls[y - 1]) <= Len(ks[y - 1])
      BY <1>1, <3>1, <3>3
    <3> QED
      BY <3>1, <3>4, <3>5, PlaceOf, Zenon
  <2>4. CASE m.y > y
    <3> DEFINE j == m.y - 1
    <3>1. go(m).y = j /\ go(m).x = m.x
      BY <1>1, <2>1, <2>4 DEF At
    <3>2. j \in 1..Len(ks) /\ ~(j < y) /\ j + 1 = m.y
      BY <1>1, <2>1, <2>4
    <3>3. ks[j] = ls[j + 1]
      BY <3>2 DEF Rowless
    <3> QED
      BY <1>1, <2>1, <3>1, <3>2, <3>3 DEF InPlace
  <2>5. CASE m.y < y
    <3>1. go(m) = m
      BY <1>1, <2>1, <2>5
    <3>2. m.y \in 1..Len(ks) /\ ks[m.y] = ls[m.y]
      BY <1>1, <2>1, <2>5 DEF Rowless
    <3> QED
      BY <1>1, <2>1, <3>1, <3>2 DEF InPlace
  <2> QED
    BY <1>1, <2>1, <2>2, <2>3, <2>4, <2>5
<1> HIDE DEF go
<1>4. \A q \in {ms.s, ms.e} : to[q] = go(q)
  OBVIOUS
<1>5. ForLineDelete(ms, ls, y) = IF NoMark \in {to[ms.s], to[ms.e]} THEN NoSel ELSE Adjust(ms, to)
  BY Zenon DEF ForLineDelete, go
<1> HIDE DEF to
<1>6. \A q \in {ms.s, ms.e} : q = NoMark => to[q] = NoMark
  BY <1>2, <1>4, Zenon
<1>7. \A q \in {ms.s, ms.e} : InPlace(q, ls) => to[q] = NoMark \/ InPlace(to[q], ks)
  BY <1>3, <1>4, Zenon
<1>8. MarksIn(Adjust(ms, to), ks) /\ MarksIn(NoSel, ks)
  BY <1>6, <1>7, AdjustedIn, Zenon
<1> QED
  BY <1>5, <1>8

-----------------------------------------------------------------------------
(* The lengths of changed rows. *)

LEMMA BecomesPlaced ==
  ASSUME NEW x, NEW ls, NEW c, NEW ms, Becomes(x, ls, c, ms), Placed(ls, c, ms)
  PROVE  Placed(x.ls, x.cur, x.sel)
BY DEF Becomes

LEMMA PartLengths ==
  ASSUME NEW l \in Row, NEW col \in Nat, col <= Len(l)
  PROVE  Len(Before(l, col)) = col /\ Len(After(l, col)) = Len(l) - col
<1>1. l \in Seq(Nat) /\ Len(l) \in Nat
  BY DEF Row
<1>2. Smaller(col, Len(l)) = col /\ Smaller(Larger(col, 0), Len(l)) = col
  BY <1>1 DEF Smaller, Larger
<1>3. Len(SubSeq(l, 1, col)) = col
  <2>1. 1 \in Nat \ {0} /\ 1 <= col + 1
    OBVIOUS
  <2> QED
    BY <1>1, <2>1, Slice
<1>4. Len(SubSeq(l, col + 1, Len(l))) = Len(l) - col
  <2>1. col + 1 \in Nat \ {0} /\ col + 1 <= Len(l) + 1
    BY <1>1
  <2>2. Len(SubSeq(l, col + 1, Len(l))) = Len(l) + 1 - (col + 1)
    BY <1>1, <2>1, Slice
  <2> QED
    BY <1>1, <2>2
<1> QED
  BY <1>2, <1>3, <1>4 DEF Before, After

LEMMA LengthsJoined == \A l \in Row, k \in Row : Len(l \o k) = Len(l) + Len(k)
BY DEF Row

LEMMA RowLonger ==
  ASSUME NEW ls \in Texts, NEW y \in DOMAIN ls, NEW z \in Row, NEW n \in Int, Len(z) = Len(ls[y]) + n
  PROVE  [ls EXCEPT ![y] = z] \in Texts /\ Longer([ls EXCEPT ![y] = z], ls, y, n)
<1> DEFINE ks == [ls EXCEPT ![y] = z]
<1>1. /\ ks \in Texts /\ DOMAIN ks = DOMAIN ls /\ DOMAIN ls = 1..Len(ls)
      /\ \A i \in 1..Len(ls) : ks[i] = IF i = y THEN z ELSE ls[i]
  BY RowReplaced DEF Texts
<1> HIDE DEF ks
<1> QED
  BY <1>1 DEF Longer, ks

\* A row in which new takes the place of n characters, and a row without them.
LEMMA RowWith ==
  ASSUME NEW l \in Row, NEW x \in Nat, NEW n \in Nat, x + n <= Len(l), NEW new \in Row
  PROVE  /\ Before(l, x) \o new \o After(l, x + n) \in Row
         /\ Len(Before(l, x) \o new \o After(l, x + n)) = Len(l) + (Len(new) - n)
         /\ Before(l, x) \o After(l, x + n) \in Row
         /\ Len(Before(l, x) \o After(l, x + n)) = Len(l) + (-n)
<1> DEFINE u == Before(l, x)
           v == After(l, x + n)
           w == u \o new
<1>1. Len(l) \in Nat /\ Len(new) \in Nat /\ x <= Len(l) /\ x + n \in Nat
  BY LengthOfRow
<1>2. u \in Row /\ v \in Row /\ Len(u) = x /\ Len(v) = Len(l) - (x + n)
  BY <1>1, PartOfRow, PartLengths
<1> HIDE DEF u, v
<1>3. w \in Row /\ Len(w) = x + Len(new)
  BY <1>2, RowsJoined, LengthsJoined
<1> HIDE DEF w
<1>4. w \o v \in Row /\ Len(w \o v) = Len(w) + Len(v) /\ u \o v \in Row /\ Len(u \o v) = Len(u) + Len(v)
  BY <1>2, <1>3, RowsJoined, LengthsJoined
<1>5. Len(w) + Len(v) = Len(l) + (Len(new) - n) /\ Len(u) + Len(v) = Len(l) + (-n)
  BY <1>1, <1>2, <1>3
<1> QED
  BY <1>4, <1>5 DEF u, v, w

\* A row that is longer than before holds a place at its new length.
LEMMA PlaceInLonger ==
  ASSUME NEW ls \in Texts, NEW ks \in Texts, NEW y \in DOMAIN ls, NEW n \in Int, Longer(ks, ls, y, n),
         NEW x \in Nat, x <= Len(ls[y]) + n, NEW p, p.y = y, p.x = x
  PROVE  InPlace(p, ks)
<1>1. y \in 1..Len(ks) /\ x <= Len(ks[y])
  BY DEF Longer, Texts
<1> QED
  BY <1>1, PlaceOf

LEMMA SplitParts ==
  ASSUME NEW ls \in Texts, NEW y \in DOMAIN ls, NEW u \in Row, NEW v \in Row, Len(v) = Len(ls[y]) - Len(u)
  PROVE  /\ Splice(ls, y, y, <<u, v>>) \in Texts /\ Parted(Splice(ls, y, y, <<u, v>>), ls, y, Len(u))
         /\ y + 1 \in 1..Len(Splice(ls, y, y, <<u, v>>))
<1> DEFINE block == <<u, v>>
           ks == Splice(ls, y, y, block)
<1>1. y \in 1..Len(ls) /\ y \in Nat \ {0} /\ Len(ls) \in Nat
  BY DEF Texts
<1>2. block \in Texts /\ Len(block) = 2 /\ block[1] = u /\ block[2] = v
  BY DEF Texts
<1> HIDE DEF block
<1>3. ks \in Texts /\ Spliced(ks, ls, y, y, block, 2)
  <2>1. Spans(ls, y, y)
    BY <1>1 DEF Spans
  <2> QED
    BY <1>2, <2>1, SpliceIs
<1> HIDE DEF ks
<1>4. /\ Len(ks) = (Len(ls) + 2 + y) - (y + 1)
      /\ \A i \in 1..y - 1 : ks[i] = ls[i]
      /\ \A i \in y..y + 2 - 1 : ks[i] = block[(i + 1) - y]
      /\ \A i \in y + 2..(Len(ls) + 2 + y) - (y + 1) : ks[i] = ls[(i + y + 1) - (y + 2)]
  BY <1>3 DEF Spliced
<1>5. Len(ks) = Len(ls) + 1
  BY <1>1, <1>4
<1>6. ks[y] = u /\ ks[y + 1] = v
  <2>1. y \in y..y + 2 - 1 /\ y + 1 \in y..y + 2 - 1 /\ (y + 1) - y = 1 /\ ((y + 1) + 1) - y = 2
    BY <1>1
  <2> QED
    BY <1>2, <1>4, <2>1
<1>7. ASSUME NEW i \in 1..Len(ls), i < y PROVE ks[i] = ls[i]
  <2>1. i \in 1..y - 1
    BY <1>1, <1>7
  <2> QED
    BY <1>4, <2>1
<1>8. ASSUME NEW i \in 1..Len(ls), i > y PROVE ks[i + 1] = ls[i]
  <2>1. i + 1 \in y + 2..(Len(ls) + 2 + y) - (y + 1) /\ ((i + 1) + y + 1) - (y + 2) = i
    BY <1>1, <1>8
  <2> QED
    BY <1>4, <2>1
<1>9. Parted(ks, ls, y, Len(u))
  BY <1>5, <1>6, <1>7, <1>8 DEF Parted
<1>10. y + 1 \in 1..Len(ks)
  BY <1>1, <1>5
<1> QED
  BY <1>3, <1>9, <1>10 DEF ks, block

LEMMA JoinParts ==
  ASSUME NEW ls \in Texts, NEW x \in DOMAIN ls, NEW y \in DOMAIN ls, y = x + 1
  PROVE  /\ Splice(ls, x, y, <<ls[x] \o ls[y]>>) \in Texts
         /\ Parted(ls, Splice(ls, x, y, <<ls[x] \o ls[y]>>), x, Len(ls[x]))
         /\ x \in 1..Len(Splice(ls, x, y, <<ls[x] \o ls[y]>>))
<1> DEFINE z == ls[x] \o ls[y]
           ks == Splice(ls, x, y, <<z>>)
<1>1. /\ ls[x] \in Row /\ ls[y] \in Row /\ Len(ls) \in Nat /\ y \in 1..Len(ls) /\ x \in 1..Len(ls)
      /\ Len(ls[x]) \in Nat /\ Len(ls[y]) \in Nat
  BY LengthOfRow DEF Texts
<1>2. z \in Row /\ Len(z) = Len(ls[x]) + Len(ls[y])
  BY <1>1, RowsJoined, LengthsJoined
<1> HIDE DEF z
<1>3. <<z>> \in Texts /\ Len(<<z>>) = 1 /\ <<z>>[1] = z
  BY <1>2, OneRow
<1>4. ks \in Texts /\ Spliced(ks, ls, x, y, <<z>>, 1)
  <2>1. Spans(ls, x, y)
    BY <1>1 DEF Spans
  <2> QED
    BY <1>1, <1>3, <2>1, SpliceIs
<1> HIDE DEF ks
<1>5. /\ Len(ks) = (Len(ls) + 1 + x) - (y + 1)
      /\ \A i \in 1..x - 1 : ks[i] = ls[i]
      /\ \A i \in x..x + 1 - 1 : ks[i] = <<z>>[(i + 1) - x]
      /\ \A i \in x + 1..(Len(ls) + 1 + x) - (y + 1) : ks[i] = ls[(i + y + 1) - (x + 1)]
  BY <1>4 DEF Spliced
<1>6. Len(ls) = Len(ks) + 1
  <2> DEFINE m == Len(ls)
             k == Len(ks)
  <2>1. k = (m + 1 + x) - (y + 1) /\ x \in Int /\ m \in Int /\ y = x + 1
    BY <1>1, <1>5
  <2> HIDE DEF m, k
  <2>2. m = k + 1
    BY <2>1
  <2> QED
    BY <2>2 DEF m, k
<1>7. ks[x] = z
  <2>1. x \in x..x + 1 - 1 /\ (x + 1) - x = 1
    BY <1>1
  <2> QED
    BY <1>3, <1>5, <2>1
<1>8. ASSUME NEW i \in 1..Len(ks), i < x PROVE ls[i] = ks[i]
  <2>1. i \in 1..x - 1
    BY <1>1, <1>8
  <2> QED
    BY <1>5, <2>1
<1>9. ASSUME NEW i \in 1..Len(ks), i > x PROVE ls[i + 1] = ks[i]
  <2>1. i \in x + 1..(Len(ls) + 1 + x) - (y + 1) /\ (i + y + 1) - (x + 1) = i + 1
    BY <1>1, <1>6, <1>9
  <2> QED
    BY <1>5, <2>1
<1>10. Len(ls[x + 1]) = Len(ks[x]) - Len(ls[x])
  BY <1>1, <1>2, <1>7
<1>11. Parted(ls, ks, x, Len(ls[x]))
  BY <1>6, <1>8, <1>9, <1>10 DEF Parted
<1>12. x \in 1..Len(ks)
  BY <1>1, <1>4, <1>6 DEF Texts
<1> QED
  BY <1>4, <1>11, <1>12 DEF ks, z

\* What is needed of a copy with its cursor at a place of the text.
LEMMA CopyAt ==
  ASSUME NEW a, NEW d, Since(a, d), NEW p, InPlace(p, d.ls)
  PROVE  /\ d.ls \in Texts /\ d.sel \in Marks /\ p.y \in DOMAIN d.ls /\ d.ls[p.y] \in Row
         /\ p.x \in Nat /\ p.x <= Len(d.ls[p.y]) /\ Len(d.ls[p.y]) \in Nat
BY CopyHas, PlaceIs DEF InPlace

-----------------------------------------------------------------------------
(* Operations on a working copy leave its cursor and markers at places of the text. *)

\* The character c at the cursor: it and the markers are at places of the text again.
LEMMA PutPlaced ==
  ASSUME NEW a, NEW d, Since(a, d), Placed(d.ls, d.cur, d.sel), NEW c \in Nat
  PROVE  Placed(Put(d, c).ls, Put(d, c).cur, Put(d, c).sel)
<1> DEFINE ls == d.ls
           p == d.cur
           y == p.y
           x == p.x
           z == Before(ls[y], x) \o <<c>> \o After(ls[y], x)
           ks == [ls EXCEPT ![y] = z]
           to == At(y, x + 1)
           ms == ForInsert(d.sel, p, 1)
<1>1. InPlace(p, ls) /\ MarksIn(d.sel, ls)
  BY DEF Placed
<1>2. /\ ls \in Texts /\ d.sel \in Marks /\ y \in DOMAIN ls /\ ls[y] \in Row
      /\ x \in Nat /\ x <= Len(ls[y]) /\ Len(ls[y]) \in Nat
  BY <1>1, CopyAt, SMTT(30)
<1>3. Becomes(Put(d, c), ks, to, ms)
  BY <1>2, PutOn
<1> HIDE DEF ls, y, x
<1>4. z \in Row /\ Len(z) = Len(ls[y]) + 1
  <2>1. /\ Before(ls[y], x) \o <<c>> \o After(ls[y], x + 0) \in Row
        /\ Len(Before(ls[y], x) \o <<c>> \o After(ls[y], x + 0)) = Len(ls[y]) + (Len(<<c>>) - 0)
    <3>1. x + 0 <= Len(ls[y]) /\ 0 \in Nat /\ <<c>> \in Row
      BY <1>2, OneChar
    <3> QED
      BY <1>2, <3>1, RowWith, ZenonT(60)
  <2>2. x + 0 = x /\ Len(<<c>>) - 0 = 1
    BY <1>2
  <2> QED
    BY <2>1, <2>2
<1> HIDE DEF z
<1>5. ks \in Texts /\ Longer(ks, ls, y, 1)
  <2>1. 1 \in Int
    OBVIOUS
  <2> QED
    BY <1>2, <1>4, <2>1, RowLonger
<1> HIDE DEF ks
<1>6. MarksIn(ms, ks)
  <2>1. 1 \in Nat /\ Longer(ks, ls, p.y, 1)
    BY <1>5 DEF y
  <2> QED
    BY <1>1, <1>2, <1>5, <2>1, InsertMarks
<1>7. InPlace(to, ks)
  <2>1. to.y = y /\ to.x = x + 1
    BY DEF At
  <2>2. x + 1 \in Nat /\ x + 1 <= Len(ls[y]) + 1 /\ 1 \in Int
    BY <1>2
  <2> HIDE DEF to
  <2> QED
    BY <1>2, <1>5, <2>1, <2>2, PlaceInLonger
<1> HIDE DEF to, ms
<1> QED
  BY <1>3, <1>6, <1>7, BecomesPlaced DEF Placed

LEMMA CutPlaced ==
  ASSUME NEW a, NEW d, Since(a, d), MarksIn(d.sel, d.ls), NEW p \in Places, InPlace(p, d.ls),
         NEW n \in Nat, p.x + n <= Len(d.ls[p.y])
  PROVE  Placed(Cut(d, p, n).ls, Cut(d, p, n).cur, Cut(d, p, n).sel)
<1> DEFINE ls == d.ls
           y == p.y
           x == p.x
           z == Before(ls[y], x) \o After(ls[y], x + n)
           ks == [ls EXCEPT ![y] = z]
           ms == ForDelete(d.sel, p, n)
<1>1. /\ ls \in Texts /\ d.sel \in Marks /\ y \in DOMAIN ls /\ ls[y] \in Row
      /\ x \in Nat /\ x <= Len(ls[y]) /\ Len(ls[y]) \in Nat
  BY CopyAt
<1>2. Becomes(Cut(d, p, n), ks, p, ms)
  <2>1. n \in Int
    OBVIOUS
  <2> QED
    BY <1>1, <2>1, CutOn
<1>3. InPlace(p, ls) /\ x + n <= Len(ls[y]) /\ MarksIn(d.sel, ls) /\ -n \in Int
  OBVIOUS
<1> HIDE DEF ls, y, x
<1>4. z \in Row /\ Len(z) = Len(ls[y]) + (-n)
  BY <1>1, <1>3, NoChar, RowWith
<1> HIDE DEF z
<1>5. ks \in Texts /\ Longer(ks, ls, y, -n)
  BY <1>1, <1>3, <1>4, RowLonger
<1> HIDE DEF ks
<1>6. MarksIn(ms, ks)
  <2>1. Longer(ks, ls, p.y, -n) /\ p.x + n <= Len(ls[p.y])
    BY <1>3, <1>5 DEF y, x
  <2> QED
    BY <1>1, <1>3, <1>5, <2>1, DeleteMarks
<1>7. InPlace(p, ks)
  <2>1. p.y = y /\ p.x = x
    BY DEF y, x
  <2>2. x <= Len(ls[y]) + (-n)
    BY <1>1, <1>3
  <2> QED
    BY <1>1, <1>3, <1>5, <2>1, <2>2, PlaceInLonger
<1> HIDE DEF ms
<1> QED
  BY <1>2, <1>6, <1>7, BecomesPlaced DEF Placed

LEMMA ReplacePlaced ==
  ASSUME NEW ls \in Texts, NEW ms \in Marks, MarksIn(ms, ls), NEW p \in Places, InPlace(p, ls),
         NEW n \in Nat, p.x + n <= Len(ls[p.y]), NEW new \in Row
  PROVE  Placed([ls EXCEPT ![p.y] = Before(ls[p.y], p.x) \o new \o After(ls[p.y], p.x + n)],
                At(p.y, p.x + Len(new)), ForInsert(ForDelete(ms, p, n), p, Len(new)))
<1> DEFINE y == p.y
           x == p.x
           l == ls[y]
           k == Len(new)
           less == Before(l, x) \o After(l, x + n)
           more == Before(l, x) \o new \o After(l, x + n)
           cut == [ls EXCEPT ![y] = less]
           ks == [ls EXCEPT ![y] = more]
           md == ForDelete(ms, p, n)
           to == At(y, x + k)
<1>1. /\ y \in DOMAIN ls /\ l \in Row /\ x \in Nat /\ Len(l) \in Nat /\ k \in Nat /\ x + n <= Len(l)
      /\ -n \in Int
  BY PlaceIs, LengthOfRow DEF InPlace
<1> HIDE DEF y, x
<1>2. /\ more \in Row /\ Len(more) = Len(l) + (k - n)
      /\ less \in Row /\ Len(less) = Len(l) + (-n)
  <2> HIDE DEF l
  <2>1. x + n <= Len(l) /\ l \in Row /\ x \in Nat
    BY <1>1
  <2> QED
    BY <2>1, RowWith, Zenon
<1> HIDE DEF more, less, k
<1>3. cut \in Texts /\ Longer(cut, ls, y, -n)
  BY <1>1, <1>2, RowLonger
<1>4. ks \in Texts /\ Longer(ks, ls, y, k - n)
  BY <1>1, <1>2, RowLonger
<1>5. cut[y] = less /\ y \in DOMAIN cut /\ ks = [cut EXCEPT ![y] = more]
  BY <1>1
<1> HIDE DEF cut, ks
<1>6. Longer(ks, cut, y, k)
  <2>1. Len(more) = Len(cut[y]) + k /\ k \in Int
    BY <1>1, <1>2, <1>5
  <2> QED
    BY <1>1, <1>2, <1>3, <1>5, <2>1, RowLonger
<1>7. MarksIn(md, cut) /\ md \in Marks
  <2>1. Longer(cut, ls, p.y, -n)
    BY <1>3 DEF y
  <2> QED
    BY <1>3, <2>1, DeleteMarks, DeleteMoves
<1>8. InPlace(p, cut)
  <2>1. p.y = y /\ p.x = x
    BY DEF y, x
  <2>2. x <= Len(ls[y]) + (-n)
    BY <1>1 DEF l
  <2> QED
    BY <1>1, <1>3, <2>1, <2>2, PlaceInLonger
<1>9. MarksIn(ForInsert(md, p, k), ks)
  <2>1. Longer(ks, cut, p.y, k)
    BY <1>6 DEF y
  <2> HIDE DEF md
  <2> QED
    BY <1>1, <1>3, <1>4, <1>7, <1>8, <2>1, InsertMarks
<1>10. InPlace(to, ks)
  <2>1. to.y = y /\ to.x = x + k
    BY DEF At
  <2>2. x + k \in Nat /\ x + k <= Len(ls[y]) + (k - n) /\ k - n \in Int
    BY <1>1 DEF l
  <2> HIDE DEF to
  <2> QED
    BY <1>1, <1>4, <2>1, <2>2, PlaceInLonger
<1> QED
  BY <1>9, <1>10 DEF Placed, ks, more, l, k, y, x

LEMMA SplitPlaced ==
  ASSUME NEW a, NEW d, Since(a, d), Placed(d.ls, d.cur, d.sel)
  PROVE  Placed(Split(d).ls, Split(d).cur, Split(d).sel)
<1> DEFINE ls == d.ls
           p == d.cur
           y == p.y
           x == p.x
           u == Before(ls[y], x)
           v == After(ls[y], x)
           ks == Splice(ls, y, y, <<u, v>>)
           to == At(y + 1, 0)
           ms == ForSplit(d.sel, p)
<1>1. InPlace(p, ls) /\ MarksIn(d.sel, ls)
  BY DEF Placed
<1>2. /\ ls \in Texts /\ d.sel \in Marks /\ y \in DOMAIN ls /\ ls[y] \in Row
      /\ x \in Nat /\ x <= Len(ls[y]) /\ Len(ls[y]) \in Nat
  BY <1>1, CopyAt
<1>3. Becomes(Split(d), ks, to, ms)
  BY <1>2, SplitOn
<1> HIDE DEF ls, y, x
<1>4. u \in Row /\ v \in Row /\ Len(u) = x /\ Len(v) = Len(ls[y]) - Len(u)
  <2>1. x \in Int
    BY <1>2
  <2>2. u \in Row /\ v \in Row
    BY <1>2, <2>1, PartOfRow
  <2>3. Len(u) = x /\ Len(v) = Len(ls[y]) - x
    BY <1>2, PartLengths
  <2> QED
    BY <2>2, <2>3
<1> HIDE DEF u, v
<1>5. ks \in Texts /\ Parted(ks, ls, y, x) /\ y + 1 \in 1..Len(ks)
  BY <1>2, <1>4, SplitParts
<1> HIDE DEF ks
<1>6. MarksIn(ms, ks)
  <2>1. Parted(ks, ls, p.y, p.x)
    BY <1>5 DEF y, x
  <2> QED
    BY <1>1, <1>2, <1>5, <2>1, SplitMarks
<1>7. InPlace(to, ks)
  <2>1. to.y = y + 1 /\ to.x = 0
    BY DEF At
  <2>2. 0 \in Nat /\ 0 <= Len(ks[y + 1])
    BY <1>5, LengthOfRow DEF Texts
  <2> HIDE DEF to
  <2> QED
    BY <1>5, <2>1, <2>2, PlaceOf
<1> HIDE DEF to, ms
<1> QED
  BY <1>3, <1>6, <1>7, BecomesPlaced DEF Placed

LEMMA JoinPlaced ==
  ASSUME NEW a, NEW d, Since(a, d), MarksIn(d.sel, d.ls), NEW y \in DOMAIN d.ls, y - 1 \in DOMAIN d.ls
  PROVE  Placed(Join(d, y).ls, Join(d, y).cur, Join(d, y).sel)
<1> DEFINE ls == d.ls
           x == y - 1
           n == Len(ls[x])
           ks == Splice(ls, x, y, <<ls[x] \o ls[y]>>)
           to == At(x, n)
           ms == ForJoin(d.sel, y, n)
<1>1. /\ ls \in Texts /\ d.sel \in Marks /\ n \in Nat /\ MarksIn(d.sel, ls)
      /\ y \in DOMAIN ls /\ y \in 2..Len(ls) /\ x \in DOMAIN ls /\ y = x + 1
  BY CopyHas, LengthOfRow DEF Texts
<1>2. Becomes(Join(d, y), ks, to, ms)
  BY JoinOn
<1> HIDE DEF ls, x
<1>3. ks \in Texts /\ Parted(ls, ks, x, n) /\ x \in 1..Len(ks)
  BY <1>1, JoinParts
<1> HIDE DEF ks, n
<1>4. MarksIn(ms, ks)
  <2>1. Parted(ls, ks, y - 1, n)
    BY <1>3 DEF x
  <2> QED
    BY <1>1, <1>3, <2>1, JoinMarks
<1>5. InPlace(to, ks)
  <2>1. to.y = x /\ to.x = n
    BY DEF At
  <2>2. n <= Len(ks[x])
    <3>1. Len(ls[x]) = n /\ Len(ls[x + 1]) = Len(ks[x]) - n /\ Len(ls[x + 1]) \in Nat /\ Len(ks[x]) \in Nat
      BY <1>1, <1>3, LengthOfRow, SMTT(30) DEF Parted, Texts
    <3> QED
      BY <1>1, <3>1
  <2> HIDE DEF to
  <2> QED
    BY <1>1, <1>3, <2>1, <2>2, PlaceOf
<1> HIDE DEF to, ms
<1> QED
  BY <1>2, <1>4, <1>5, BecomesPlaced DEF Placed

\* Row y deleted, and the cursor at the start of the row that follows, or of the last.
LEMMA DeletedPlaced ==
  ASSUME NEW ls \in Texts, NEW ms \in Marks, MarksIn(ms, ls), NEW y \in DOMAIN ls, Len(ls) > 1
  PROVE  Placed(Splice(ls, y, y, <<>>), At(Smaller(y, Len(ls) - 1), 0), ForLineDelete(ms, ls, y))
<1> DEFINE ks == Splice(ls, y, y, <<>>)
           p == At(Smaller(y, Len(ls) - 1), 0)
<1>1. /\ Len(ls) \in Nat /\ y \in 1..Len(ls) /\ y \in Nat \ {0} /\ <<>> \in Texts /\ Len(<<>>) = 0
  BY DEF Texts
<1>2. ks \in Texts /\ Spliced(ks, ls, y, y, <<>>, 0)
  <2>1. Spans(ls, y, y)
    BY <1>1 DEF Spans
  <2> QED
    BY <1>1, <2>1, SpliceIs
<1> HIDE DEF ks
<1>3. /\ Len(ks) = (Len(ls) + 0 + y) - (y + 1)
      /\ \A i \in 1..y - 1 : ks[i] = ls[i]
      /\ \A i \in y + 0..(Len(ls) + 0 + y) - (y + 1) : ks[i] = ls[(i + y + 1) - (y + 0)]
  BY <1>2 DEF Spliced
<1>4. Len(ls) = Len(ks) + 1
  BY <1>1, <1>3, SMTT(30)
<1>5. ASSUME NEW i \in 1..Len(ks) PROVE ks[i] = IF i < y THEN ls[i] ELSE ls[i + 1]
  <2>1. CASE i < y
    <3>1. i \in 1..y - 1
      BY <1>1, <2>1
    <3> QED
      BY <1>3, <2>1, <3>1
  <2>2. CASE ~(i < y)
    <3>1. i \in y + 0..(Len(ls) + 0 + y) - (y + 1) /\ (i + y + 1) - (y + 0) = i + 1
      BY <1>1, <1>4, <2>2
    <3>2. ks[i] = ls[i + 1]
      BY <1>3, <3>1
    <3> QED
      BY <2>2, <3>2
  <2> QED
    BY <2>1, <2>2
<1>6. MarksIn(ForLineDelete(ms, ls, y), ks)
  <2>1. Rowless(ks, ls, y)
    BY <1>4, <1>5 DEF Rowless
  <2> QED
    BY <1>2, <2>1, LineDeleteMarks
<1>7. InPlace(p, ks)
  <2>1. p.x = 0 /\ 0 \in Nat /\ p.y \in 1..Len(ks)
    BY <1>1, <1>4 DEF At, Smaller
  <2>2. 0 <= Len(ks[p.y])
    BY <1>2, <2>1, LengthOfRow DEF Texts
  <2> HIDE DEF p
  <2> QED
    BY <1>2, <2>1, <2>2, PlaceOf
<1> QED
  BY <1>6, <1>7 DEF Placed, ks

-----------------------------------------------------------------------------
(* Blocks taken out and put in do. *)

\* A block command found both markers at places of the text.
LEMMA ReadyPlaces ==
  ASSUME NEW d, BlockReady(d), MarksIn(d.sel, d.ls)
  PROVE  "mark" \in Ops /\ InPlace(d.sel.s, d.ls) /\ InPlace(d.sel.e, d.ls)
BY DEF BlockReady, HasSelection, MarksIn, NoSel

\* The block taken out: the start marker is still a place of the text.
LEMMA TakenOutPlaced ==
  ASSUME NEW a, NEW d, Since(a, d), BlockReady(d), MarksIn(d.sel, d.ls)
  PROVE  /\ Blockless(d) \in Texts /\ Blockless(d) # <<>>
         /\ InPlace(At(Smaller(d.sel.s.y, Len(Blockless(d))), d.sel.s.x), Blockless(d))
<1> DEFINE ls == d.ls
           s == d.sel.s.y
           e == d.sel.e.y
           x == d.sel.s.x
           f == d.sel.e.x
           z == Before(ls[s], x) \o After(ls[e], f)
           ks == Blockless(d)
           p == At(Smaller(s, Len(ks)), x)
<1>1. ks \in Texts /\ ks # <<>> /\ Len(ks) \in Nat /\ Len(ks) # 0
  <2>1. Since(a, Excised(d)) /\ Excised(d).ls # <<>> /\ Excised(d).ls = Blockless(d)
    BY ExcisedOn
  <2>2. ks \in Texts /\ ks # <<>>
    BY <2>1, CopyHas
  <2> HIDE DEF ks
  <2> QED
    BY <2>2 DEF Texts
<1>2. /\ ls \in Texts /\ Len(ls) \in Nat
      /\ s \in 1..Len(ls) /\ e \in 1..Len(ls) /\ s <= e /\ s \in Nat /\ e \in Nat
      /\ ls[s] \in Row /\ ls[e] \in Row /\ x \in Nat /\ f \in Nat /\ x <= Len(ls[s]) /\ f <= Len(ls[e])
  <2>1. ls \in Texts /\ s <= e
    BY CopyHas, ReadyMarks
  <2>2. InPlace(d.sel.s, ls) /\ InPlace(d.sel.e, ls)
    BY ReadyPlaces
  <2> QED
    BY <2>1, <2>2, PlaceIs
<1>3. ks = IF WholeLines(d) THEN Splice(ls, s, e, <<>>) ELSE Splice(ls, s, e, <<z>>)
  BY Zenon DEF Blockless
<1>4. WholeLines(d) => x = 0
  BY DEF WholeLines
<1> HIDE DEF ks, ls, s, e, x, f
<1>5. p.y = Smaller(s, Len(ks)) /\ p.x = x
  BY DEF At
<1> HIDE DEF p
<1>6. Smaller(s, Len(ks)) \in 1..Len(ks)
  BY <1>1, <1>2 DEF Smaller
<1>7. CASE WholeLines(d)
  <2>1. 0 <= Len(ks[Smaller(s, Len(ks))]) /\ x \in Nat /\ x = 0
    BY <1>1, <1>2, <1>4, <1>6, <1>7, LengthOfRow DEF Texts
  <2>2. InPlace(p, ks)
    BY <1>1, <1>5, <1>6, <2>1, PlaceOf
  <2> QED
    BY <1>1, <2>2 DEF p, ks, s, x
<1>8. CASE ~WholeLines(d)
  <2>1. z \in Row /\ x <= Len(z)
    <3> DEFINE u == Before(ls[s], x)
               v == After(ls[e], f)
    <3>1. x \in Int /\ f \in Int
      BY <1>2
    <3>2. u \in Row /\ v \in Row
      BY <1>2, <3>1, PartOfRow
    <3>3. Len(u) = x
      BY <1>2, PartLengths
    <3> HIDE DEF u, v
    <3>4. u \o v \in Row /\ Len(u \o v) = Len(u) + Len(v) /\ Len(v) \in Nat
      BY <3>2, RowsJoined, LengthsJoined, LengthOfRow
    <3> QED
      BY <3>3, <3>4 DEF u, v
  <2> HIDE DEF z
  <2>2. <<z>> \in Texts /\ Len(<<z>>) = 1 /\ <<z>>[1] = z
    BY <2>1, OneRow
  <2>3. Spliced(ks, ls, s, e, <<z>>, 1)
    <3>1. Spans(ls, s, e)
      BY <1>2 DEF Spans
    <3> QED
      BY <1>2, <1>3, <1>8, <2>2, <3>1, SpliceIs
  <2>4. Len(ks) = (Len(ls) + 1 + s) - (e + 1) /\ \A i \in s..s + 1 - 1 : ks[i] = <<z>>[(i + 1) - s]
    BY <2>3 DEF Spliced
  <2>5. ks[s] = z
    <3>1. s \in s..s + 1 - 1 /\ (s + 1) - s = 1
      BY <1>2
    <3> QED
      BY <2>2, <2>4, <3>1
  <2>6. s <= Len(ks)
    <3> DEFINE m == Len(ls)
               k == Len(ks)
    <3>1. m \in Nat /\ k \in Nat /\ e \in 1..m /\ k = (m + 1 + s) - (e + 1)
      BY <1>1, <1>2, <2>4
    <3> HIDE DEF m, k
    <3>2. s <= k
      BY <1>2, <3>1
    <3> QED
      BY <3>2 DEF k
  <2>7. Smaller(s, Len(ks)) = s
    BY <1>1, <1>2, <2>6 DEF Smaller
  <2>8. InPlace(p, ks)
    BY <1>1, <1>2, <1>5, <1>6, <2>1, <2>5, <2>7, PlaceOf
  <2> QED
    BY <1>1, <2>8 DEF p, ks, s, x
<1> QED
  BY <1>7, <1>8

LEMMA CountsOfBlock ==
  ASSUME NEW n \in Nat, NEW lm \in Nat, n = lm + 2
  PROVE  /\ 1 \in 1..lm + 1 /\ n \in (lm + 1) + 1..(lm + 1) + 1 /\ n - (lm + 1) = 1 /\ (lm + 1) + 1 = n
OBVIOUS

\* A text whose first and last rows are known.
LEMMA EndsOfBlock ==
  ASSUME NEW h \in Row, NEW v \in Row, NEW mid \in Texts, NEW n \in Nat, Len(mid) = n - 2
  PROVE  /\ <<h>> \o mid \o <<v>> \in Texts /\ Len(<<h>> \o mid \o <<v>>) = n
         /\ (<<h>> \o mid \o <<v>>)[1] = h /\ (<<h>> \o mid \o <<v>>)[n] = v
<1> DEFINE a == <<h>>
           c == <<v>>
           b == a \o mid
           d == b \o c
<1>1. a \in Texts /\ Len(a) = 1 /\ a[1] = h /\ c \in Texts /\ Len(c) = 1 /\ c[1] = v /\ Len(mid) \in Nat
  BY OneRow DEF Texts
<1> HIDE DEF a, c
<1> DEFINE lm == Len(mid)
<1>2. b \in Texts /\ Len(b) = 1 + lm /\ b[1] = a[1]
  <2>1. b \in Texts /\ Len(b) = Len(a) + Len(mid) /\ \A i \in 1..Len(a) : b[i] = a[i]
    BY <1>1, Joined
  <2> HIDE DEF b
  <2>2. 1 \in 1..Len(a)
    BY <1>1
  <2> QED
    BY <1>1, <2>1, <2>2
<1> HIDE DEF b
<1>3. /\ d \in Texts /\ Len(d) = Len(b) + Len(c) /\ \A i \in 1..Len(b) : d[i] = b[i]
      /\ \A i \in Len(b) + 1..Len(b) + Len(c) : d[i] = c[i - Len(b)]
  BY <1>1, <1>2, Joined
<1> HIDE DEF d
<1>4. lm \in Nat /\ n = lm + 2
  BY <1>1
<1> HIDE DEF lm
<1>5. 1 \in 1..lm + 1 /\ n \in (lm + 1) + 1..(lm + 1) + 1 /\ n - (lm + 1) = 1 /\ (lm + 1) + 1 = n
  BY <1>4, CountsOfBlock
<1>6. Len(b) = lm + 1 /\ Len(c) = 1
  BY <1>1, <1>2, <1>4
<1>7. d[1] = h
  <2>1. d[1] = b[1]
    BY <1>3, <1>5, <1>6
  <2>2. b[1] = a[1]
    BY <1>2
  <2> QED
    BY <1>1, <2>1, <2>2
<1>8. d[n] = v
  <2>1. d[n] = c[n - (lm + 1)]
    BY <1>3, <1>5, <1>6
  <2> QED
    BY <1>1, <1>5, <2>1
<1>9. Len(d) = n
  BY <1>3, <1>5, <1>6
<1> QED
  BY <1>3, <1>7, <1>8, <1>9 DEF a, b, c, d

LEMMA PutInPlaced ==
  ASSUME NEW d, d.ls \in Texts, NEW p \in Places, p = d.cur, InPlace(p, d.ls),
         NEW block \in Texts, Len(block) \in Nat \ {0}, NEW whole \in BOOLEAN, whole => p.x = 0, "mark" \in Ops
  PROVE  PutIn(d, block, whole) \in Texts => Placed(PutIn(d, block, whole), p, Around(p, block, whole))
<1> DEFINE ls == d.ls
           y == p.y
           x == p.x
           n == Len(block)
           b == block[1]
           l == block[n]
           u == Before(ls[y], x)
           v == After(ls[y], x)
           ks == PutIn(d, block, whole)
           to == At(y + n - 1, IF n = 1 /\ ~whole THEN x + Len(b) ELSE Len(l))
<1> SUFFICES ASSUME ks \in Texts PROVE Placed(ks, p, Around(p, block, whole))
  OBVIOUS
<1>1. /\ ls \in Texts /\ y \in DOMAIN ls /\ y \in 1..Len(ls) /\ y \in Nat \ {0} /\ Len(ls) \in Nat
      /\ ls[y] \in Row /\ x \in Nat /\ x \in Int /\ x <= Len(ls[y]) /\ Len(ls[y]) \in Nat
  BY PlaceIs DEF InPlace
<1>2. n \in Nat \ {0} /\ b \in Row /\ l \in Row /\ Len(b) \in Nat /\ Len(l) \in Nat
  BY LengthOfRow DEF Texts
<1>3. u \in Row /\ v \in Row /\ Len(u) = x /\ Len(v) \in Nat
  <2>1. u \in Row /\ v \in Row
    BY <1>1, PartOfRow
  <2> QED
    BY <1>1, <2>1, PartLengths, LengthOfRow
<1>4. /\ whole => ks = Splice(ls, y, y - 1, block)
      /\ ~whole /\ n = 1 => ks = [ls EXCEPT ![y] = u \o b \o v]
      /\ ~whole /\ n # 1 => ks = Splice(ls, y, y, <<u \o b>> \o Rows(block, 2, n - 1) \o <<l \o v>>)
  BY Zenon DEF PutIn
<1>5. Around(p, block, whole) = [s |-> p, e |-> to]
  <2>1. Last(block) = l
    BY DEF Last
  <2> QED
    BY <2>1, Zenon DEF Around
<1>6. p.y = y /\ p.x = x /\ to.y = y + n - 1 /\ to.x = IF n = 1 /\ ~whole THEN x + Len(b) ELSE Len(l)
  BY DEF At
<1>7. whole => x = 0
  OBVIOUS
<1>8. l = block[n] /\ n = Len(block)
  OBVIOUS
<1> HIDE DEF ls, y, x, n, b, l, u, v, ks, to
<1>9. CASE whole
  <2>1. Spliced(ks, ls, y, y - 1, block, n)
    <3>1. Spans(ls, y, y - 1)
      BY <1>1 DEF Spans
    <3> QED
      BY <1>1, <1>4, <1>8, <1>9, <3>1, SpliceIs
  <2>2. Len(ks) = (Len(ls) + n + y) - ((y - 1) + 1) /\ \A i \in y..y + n - 1 : ks[i] = block[(i + 1) - y]
    BY <2>1 DEF Spliced
  <2>3. Len(ks) = Len(ls) + n
    BY <1>1, <1>2, <2>2
  <2>4. y \in 1..Len(ks) /\ y + n - 1 \in 1..Len(ks)
    BY <1>1, <1>2, <2>3
  <2>5. ks[y + n - 1] = l
    <3>1. y + n - 1 \in y..y + n - 1 /\ ((y + n - 1) + 1) - y = n
      BY <1>1, <1>2
    <3> QED
      BY <1>8, <2>2, <3>1
  <2>6. x <= Len(ks[y]) /\ Len(l) <= Len(ks[y + n - 1])
    BY <1>2, <1>7, <1>9, <2>4, <2>5, LengthOfRow DEF Texts
  <2>7. InPlace(p, ks)
    BY <1>1, <1>6, <2>4, <2>6, PlaceOf
  <2>8. InPlace(to, ks)
    <3>1. to.x = Len(l)
      BY <1>6, <1>9
    <3> QED
      BY <1>2, <1>6, <2>4, <2>6, <3>1, PlaceOf
  <2> QED
    BY <1>5, <2>7, <2>8 DEF Placed, MarksIn
<1>10. CASE ~whole /\ n = 1
  <2>1. u \o b \o v \in Row /\ Len(u \o b \o v) = Len(u) + Len(b) + Len(v)
    <3>1. u \o b \in Row /\ Len(u \o b) = Len(u) + Len(b)
      BY <1>2, <1>3, RowsJoined, LengthsJoined
    <3> QED
      BY <1>3, <3>1, RowsJoined, LengthsJoined
  <2> DEFINE z == u \o b \o v
  <2>2. ks[y] = z /\ y \in 1..Len(ks)
    <3>1. z \in Row /\ ks = [ls EXCEPT ![y] = z]
      BY <1>4, <1>10, <2>1
    <3> HIDE DEF z
    <3>2. DOMAIN ks = DOMAIN ls /\ \A i \in 1..Len(ls) : ks[i] = IF i = y THEN z ELSE ls[i]
      BY <1>1, <3>1, RowReplaced
    <3> QED
      BY <1>1, <3>2 DEF Texts
  <2>3. x <= Len(ks[y]) /\ x + Len(b) <= Len(ks[y]) /\ x + Len(b) \in Nat
    BY <1>1, <1>2, <1>3, <2>1, <2>2
  <2>4. InPlace(p, ks)
    BY <1>1, <1>6, <2>2, <2>3, PlaceOf
  <2>5. InPlace(to, ks)
    <3>1. to.y = y /\ to.x = x + Len(b)
      BY <1>1, <1>6, <1>10
    <3> QED
      BY <2>2, <2>3, <3>1, PlaceOf
  <2> QED
    BY <1>5, <2>4, <2>5 DEF Placed, MarksIn
<1>11. CASE ~whole /\ n # 1
  <2> DEFINE h == u \o b
             t == l \o v
             mid == Rows(block, 2, n - 1)
             new == <<h>> \o mid \o <<t>>
  <2>1. h \in Row /\ t \in Row /\ Len(h) = x + Len(b) /\ Len(t) = Len(l) + Len(v)
    BY <1>2, <1>3, RowsJoined, LengthsJoined
  <2>2. mid \in Texts /\ Len(mid) = n - 2
    <3>1. 2 \in Nat \ {0} /\ n - 1 \in Int /\ 2 <= (n - 1) + 1 /\ n - 1 <= Len(block)
      BY <1>2, <1>8, <1>11
    <3>2. Len(mid) = (n - 1) + 1 - 2 /\ mid \in Texts
      BY <3>1, RowsTyped
    <3> QED
      BY <1>2, <3>2
  <2> HIDE DEF h, t, mid
  <2>3. new \in Texts /\ Len(new) = n /\ new[1] = h /\ new[n] = t
    <3>1. n \in Nat
      BY <1>2
    <3> QED
      BY <2>1, <2>2, <3>1, EndsOfBlock
  <2>4. ks = Splice(ls, y, y, new)
    BY <1>4, <1>11 DEF h, t, mid
  <2> HIDE DEF new
  <2>5. Spliced(ks, ls, y, y, new, n)
    <3>1. Spans(ls, y, y)
      BY <1>1 DEF Spans
    <3> QED
      BY <1>1, <2>3, <2>4, <3>1, SpliceIs
  <2>6. Len(ks) = (Len(ls) + n + y) - (y + 1) /\ \A i \in y..y + n - 1 : ks[i] = new[(i + 1) - y]
    BY <2>5 DEF Spliced
  <2>7. y \in 1..Len(ks) /\ y + n - 1 \in 1..Len(ks)
    BY <1>1, <1>2, <2>6, SMTT(30)
  <2>8. ks[y] = h /\ ks[y + n - 1] = t
    <3>1. y \in y..y + n - 1 /\ (y + 1) - y = 1 /\ y + n - 1 \in y..y + n - 1 /\ ((y + n - 1) + 1) - y = n
      BY <1>1, <1>2
    <3> QED
      BY <2>3, <2>6, <3>1
  <2>9. x <= Len(ks[y]) /\ Len(l) <= Len(ks[y + n - 1])
    BY <1>1, <1>2, <1>3, <2>1, <2>8
  <2>10. InPlace(p, ks)
    BY <1>1, <1>6, <2>7, <2>9, PlaceOf
  <2>11. InPlace(to, ks)
    <3>1. to.x = Len(l)
      BY <1>6, <1>11
    <3> QED
      BY <1>2, <1>6, <2>7, <2>9, <3>1, PlaceOf
  <2> QED
    BY <1>5, <2>10, <2>11 DEF Placed, MarksIn
<1> QED
  BY <1>9, <1>10, <1>11

-----------------------------------------------------------------------------
(* Actions that may be taken back in either order. *)

\* A row is replaced, or one is and the row below it is put in or taken out: then the two
\* may be taken back in either order.
Turns(p) ==
  \/ Replaces(p)
  \/ \E e \in Actions, f \in Actions :
       e.kind = "replace" /\ f.kind \in {"insert", "delete"} /\ f.y = e.y + 1 /\ p = Append(<<e>>, f)

\* The rows that such actions added to the text.
Gain(p) == IF Len(p) = 1 THEN 0 ELSE IF p[2].kind = "insert" THEN 1 ELSE -1

\* One row replaced, and taken back again.
LEMMA RowTurns ==
  ASSUME NEW ls \in Texts, NEW e \in Actions, e.kind = "replace", NEW a, Undoes(ls, e, a)
  PROVE  /\ a \in Texts /\ Len(a) = Len(ls) /\ e.y \in DOMAIN ls /\ a = [ls EXCEPT ![e.y] = e.saved]
         /\ InverseOf(ls, e) \in Actions /\ InverseOf(ls, e).kind = "replace" /\ InverseOf(ls, e).y = e.y
         /\ InverseOf(ls, e) = Act("replace", e.y, ls[e.y])
         /\ Undoes(a, InverseOf(ls, e), ls)
<1>1. e.y \in DOMAIN ls /\ e.y \in Int /\ e.saved \in Row /\ ls[e.y] \in Row
  BY DEF Undoes, Revertible, Actions, Texts
<1>2. a = [ls EXCEPT ![e.y] = e.saved]
  BY <1>1 DEF Undoes, RevertText
<1>3. a \in Texts /\ Len(a) = Len(ls)
  BY <1>1, <1>2, RowReplaced
<1>4. InverseOf(ls, e) = Act("replace", e.y, ls[e.y])
  BY DEF InverseOf
<1>5. Undoes(a, Act("replace", e.y, ls[e.y]), ls)
  <2> DEFINE y == e.y
             v == ls[y]
  <2>1. y \in DOMAIN ls /\ v \in Row /\ e.saved \in Row
    BY <1>1
  <2>2. [ls EXCEPT ![y] = v] = ls
    BY <2>1, SameRow
  <2> HIDE DEF v, y
  <2>3. Undoes([ls EXCEPT ![y] = e.saved], Act("replace", y, v), [ls EXCEPT ![y] = v])
    BY <2>1, RowReverted, Zenon
  <2> QED
    BY <1>2, <2>2, <2>3, Zenon DEF v, y
<1>6. Act("replace", e.y, ls[e.y]) \in Actions
  BY <1>1 DEF Act, Actions, Kinds
<1>7. Act("replace", e.y, ls[e.y]).kind = "replace" /\ Act("replace", e.y, ls[e.y]).y = e.y
  BY DEF Act
<1> QED
  BY <1>1, <1>2, <1>3, <1>4, <1>5, <1>6, <1>7

\* A row replaced, and the row below it taken out: the other order gives the same.
LEMMA OutBelow ==
  ASSUME NEW ls \in Texts, NEW y \in DOMAIN ls, y + 1 \in DOMAIN ls, NEW z \in Row
  PROVE  [Splice(ls, y + 1, y + 1, <<>>) EXCEPT ![y] = z] = Splice([ls EXCEPT ![y] = z], y + 1, y + 1, <<>>)
<1> DEFINE n == y + 1
           c == Splice(ls, n, n, <<>>)
           a == [c EXCEPT ![y] = z]
           k == [ls EXCEPT ![y] = z]
           b == Splice(k, n, n, <<>>)
<1>1. y \in Nat \ {0} /\ n = y + 1 /\ n \in DOMAIN ls /\ DOMAIN ls = 1..Len(ls) /\ Len(ls) \in Nat
  BY SMTT(30) DEF Texts
<1> HIDE DEF n
<1>2. /\ c \in Texts /\ Len(c) = Len(ls) - 1
      /\ \A i \in 1..n - 1 : c[i] = ls[i]
      /\ \A i \in n..Len(ls) - 1 : c[i] = ls[i + 1]
  BY <1>1, RowDeleted, ZenonT(60)
<1>3. /\ k \in Texts /\ Len(k) = Len(ls) /\ DOMAIN k = DOMAIN ls
      /\ \A i \in 1..Len(ls) : k[i] = IF i = y THEN z ELSE ls[i]
  BY RowReplaced
<1> HIDE DEF c, k
<1>4. /\ b \in Texts /\ Len(b) = Len(k) - 1
      /\ \A i \in 1..n - 1 : b[i] = k[i]
      /\ \A i \in n..Len(k) - 1 : b[i] = k[i + 1]
  <2>1. n \in DOMAIN k
    BY <1>1, <1>3
  <2> QED
    BY <1>3, <2>1, RowDeleted, ZenonT(60)
<1>5. y \in DOMAIN c /\ c \in Texts
  BY <1>1, <1>2 DEF Texts
<1>6. a \in Texts /\ Len(a) = Len(c) /\ \A i \in 1..Len(c) : a[i] = IF i = y THEN z ELSE c[i]
  BY ONLY <1>5, RowReplaced, y \in DOMAIN ls, z \in Row
<1> HIDE DEF a, b
<1>7. ASSUME NEW i \in 1..Len(a) PROVE a[i] = b[i]
  <2>1. CASE i \in 1..n - 1
    BY <1>1, <1>2, <1>3, <1>4, <1>6, <2>1
  <2>2. CASE i \in n..Len(ls) - 1
    <3>1. i + 1 \in 1..Len(ls) /\ i + 1 # y /\ i # y
      BY <1>1, <2>2
    <3> QED
      BY <1>2, <1>3, <1>4, <1>6, <2>2, <3>1
  <2> QED
    BY <1>1, <1>2, <1>6, <2>1, <2>2
<1>8. a = b
  BY <1>2, <1>3, <1>4, <1>6, <1>7, SameRows
<1> QED
  BY <1>8 DEF a, b, c, k, n

\* A row replaced, and one put in below it: likewise.
LEMMA InBelow ==
  ASSUME NEW ls \in Texts, NEW y \in DOMAIN ls, NEW z \in Row, NEW v \in Row
  PROVE  [Splice(ls, y + 1, y, <<v>>) EXCEPT ![y] = z] = Splice([ls EXCEPT ![y] = z], y + 1, y, <<v>>)
<1> DEFINE n == y + 1
           c == Splice(ls, n, n - 1, <<v>>)
           a == [c EXCEPT ![y] = z]
           k == [ls EXCEPT ![y] = z]
           b == Splice(k, n, n - 1, <<v>>)
<1>1. y \in Nat \ {0} /\ n = y + 1 /\ n - 1 = y /\ DOMAIN ls = 1..Len(ls) /\ Len(ls) \in Nat /\ n \in 1..Len(ls) + 1
  BY DEF Texts
<1> HIDE DEF n
<1>2. /\ c \in Texts /\ Len(c) = Len(ls) + 1
      /\ \A i \in 1..n - 1 : c[i] = ls[i]
      /\ c[n] = v
      /\ \A i \in n + 1..Len(ls) + 1 : c[i] = ls[i - 1]
  BY <1>1, RowInserted
<1>3. /\ k \in Texts /\ Len(k) = Len(ls) /\ DOMAIN k = DOMAIN ls
      /\ \A i \in 1..Len(ls) : k[i] = IF i = y THEN z ELSE ls[i]
  BY RowReplaced
<1> HIDE DEF c, k
<1>4. /\ b \in Texts /\ Len(b) = Len(k) + 1
      /\ \A i \in 1..n - 1 : b[i] = k[i]
      /\ b[n] = v
      /\ \A i \in n + 1..Len(k) + 1 : b[i] = k[i - 1]
  <2>1. n \in 1..Len(k) + 1
    BY <1>1, <1>3
  <2> QED
    BY <1>3, <2>1, RowInserted
<1>5. y \in DOMAIN c /\ c \in Texts
  BY <1>1, <1>2 DEF Texts
<1>6. a \in Texts /\ Len(a) = Len(c) /\ \A i \in 1..Len(c) : a[i] = IF i = y THEN z ELSE c[i]
  BY ONLY <1>5, RowReplaced, y \in DOMAIN ls, z \in Row
<1> HIDE DEF a, b
<1>7. ASSUME NEW i \in 1..Len(a) PROVE a[i] = b[i]
  <2>1. CASE i \in 1..n - 1
    BY <1>1, <1>2, <1>3, <1>4, <1>6, <2>1
  <2>2. CASE i = n
    BY <1>1, <1>2, <1>4, <1>6, <2>2
  <2>3. CASE i \in n + 1..Len(ls) + 1
    <3>1. i - 1 \in 1..Len(ls) /\ i - 1 # y /\ i # y
      BY <1>1, <2>3
    <3> QED
      BY <1>2, <1>3, <1>4, <1>6, <2>3, <3>1
  <2> QED
    BY <1>1, <1>2, <1>6, <2>1, <2>2, <2>3
<1>8. a = b
  BY <1>2, <1>3, <1>4, <1>6, <1>7, SameRows
<1> QED
  BY <1>1, <1>8 DEF a, b, c, k

\* A row as it was, after it was replaced.
LEMMA RowBack ==
  ASSUME NEW ls \in Texts, NEW y \in DOMAIN ls, NEW z \in Row
  PROVE  Undoes([ls EXCEPT ![y] = z], Act("replace", y, ls[y]), ls)
<1> DEFINE v == ls[y]
<1>1. v \in Row
  BY DEF Texts
<1>2. [ls EXCEPT ![y] = v] = ls
  BY SameRow
<1> HIDE DEF v
<1>3. Undoes([ls EXCEPT ![y] = z], Act("replace", y, v), [ls EXCEPT ![y] = v])
  BY <1>1, RowReverted, Zenon
<1> QED
  BY <1>2, <1>3, Zenon DEF v

\* The row below is taken out and row y replaced, and both are taken back.
LEMMA OutTurns ==
  ASSUME NEW ls \in Texts, NEW y \in Int, NEW n \in Int, n = y + 1, NEW s \in Row, NEW m, NEW a,
         Undoes(ls, Act("insert", n, s), m), NEW z \in Row, Undoes(m, Act("replace", y, z), a)
  PROVE  /\ a \in Texts /\ Len(ls) = Len(a) + 1
         /\ y \in DOMAIN m /\ m[y] \in Row /\ n \in DOMAIN ls /\ ls[n] \in Row
         /\ \E k \in Texts : /\ Undoes(a, Act("delete", n, ls[n]), k)
                             /\ Undoes(k, Act("replace", y, m[y]), ls)
<1> DEFINE k == [ls EXCEPT ![y] = z]
           v == ls[n]
<1>1. n \in DOMAIN ls /\ m = Splice(ls, n, n, <<>>)
  BY DEF Undoes, Revertible, RevertText, Act
<1>2. y \in DOMAIN m /\ a = [m EXCEPT ![y] = z]
  BY DEF Undoes, Revertible, RevertText, Act
<1>3. /\ Len(ls) \in Nat /\ DOMAIN ls = 1..Len(ls) /\ v \in Row
  BY <1>1 DEF Texts
<1> DEFINE c == Splice(ls, n, n, <<>>)
<1>4. /\ c \in Texts /\ Len(c) = Len(ls) - 1 /\ \A i \in 1..n - 1 : c[i] = ls[i]
  BY <1>1, RowDeleted
<1> HIDE DEF c
<1>5. m = c
  BY <1>1 DEF c
<1>6. y \in DOMAIN ls /\ y \in 1..n - 1 /\ n # y
  BY <1>1, <1>2, <1>3, <1>4, <1>5 DEF Texts
<1>7. m[y] = ls[y] /\ m[y] \in Row
  BY <1>3, <1>4, <1>5, <1>6 DEF Texts
<1>8. a \in Texts /\ Len(a) = Len(ls) - 1
  <2>1. y \in DOMAIN c /\ a = [c EXCEPT ![y] = z]
    BY <1>2, <1>5
  <2>2. [c EXCEPT ![y] = z] \in Texts /\ Len([c EXCEPT ![y] = z]) = Len(c)
    BY <1>4, <2>1, RowReplaced
  <2> QED
    BY <1>4, <2>1, <2>2
<1>9. a = Splice(k, n, n, <<>>)
  BY <1>1, <1>2, <1>6, OutBelow
<1>10. k \in Texts /\ n \in DOMAIN k /\ k[n] = v
  BY <1>1, <1>3, <1>6, RowReplaced
<1>11. Undoes(k, Act("replace", y, ls[y]), ls)
  BY <1>6, RowBack
<1> HIDE DEF k, v
<1>12. Undoes(a, Act("delete", n, v), k)
  <2> DEFINE d == Splice(k, n, n, <<>>)
             e == Act("delete", n, k[n])
  <2>1. Revertible(d, e) /\ RevertText(d, e) = k
    BY <1>10, RowDeleted
  <2> HIDE DEF d, e
  <2>2. Undoes(d, e, k)
    BY <2>1 DEF Undoes
  <2> QED
    BY <1>9, <1>10, <2>2, Zenon DEF d, e
<1>13. Undoes(k, Act("replace", y, m[y]), ls)
  BY <1>7, <1>11
<1>14. \E q \in Texts : Undoes(a, Act("delete", n, v), q) /\ Undoes(q, Act("replace", y, m[y]), ls)
  BY <1>10, <1>12, <1>13, Zenon
<1>15. Len(ls) = Len(a) + 1
  BY <1>3, <1>8
<1>16. y \in DOMAIN m /\ n \in DOMAIN ls /\ v \in Row /\ m[y] \in Row /\ a \in Texts
  BY <1>1, <1>2, <1>3, <1>7, <1>8
<1> QED
  BY <1>14, <1>15, <1>16 DEF v

\* The row below is put in, likewise.
LEMMA InTurns ==
  ASSUME NEW ls \in Texts, NEW y \in Int, NEW n \in Int, n = y + 1, NEW s \in Row, NEW m, NEW a,
         Undoes(ls, Act("delete", n, s), m), NEW z \in Row, Undoes(m, Act("replace", y, z), a)
  PROVE  /\ a \in Texts /\ Len(ls) = Len(a) - 1
         /\ y \in DOMAIN m /\ m[y] \in Row
         /\ \E k \in Texts : /\ Undoes(a, Act("insert", n, <<>>), k)
                             /\ Undoes(k, Act("replace", y, m[y]), ls)
<1> DEFINE k == [ls EXCEPT ![y] = z]
           c == Splice(ls, n, n - 1, <<s>>)
<1>1. n \in 1..Len(ls) + 1 /\ Len(ls) \in Nat /\ DOMAIN ls = 1..Len(ls) /\ n - 1 = y
  BY DEF Undoes, Revertible, Act, Texts
<1>2. m = c
  <2>1. n <= Len(ls) + 1
    BY <1>1
  <2> QED
    BY <2>1 DEF Undoes, RevertText, Act
<1>3. y \in DOMAIN m /\ a = [m EXCEPT ![y] = z]
  BY DEF Undoes, Revertible, RevertText, Act
<1>4. /\ c \in Texts /\ Len(c) = Len(ls) + 1 /\ \A i \in 1..n - 1 : c[i] = ls[i]
  BY <1>1, RowInserted
<1> HIDE DEF c
<1>6. y \in DOMAIN ls /\ y \in 1..n - 1 /\ n # y
  BY <1>1, <1>2, <1>3, <1>4 DEF Texts
<1>7. m[y] = ls[y] /\ m[y] \in Row
  BY <1>1, <1>2, <1>4, <1>6 DEF Texts
<1>8. a \in Texts /\ Len(a) = Len(ls) + 1
  <2>1. y \in DOMAIN c /\ a = [c EXCEPT ![y] = z]
    BY <1>2, <1>3
  <2>2. [c EXCEPT ![y] = z] \in Texts /\ Len([c EXCEPT ![y] = z]) = Len(c)
    BY <1>4, <2>1, RowReplaced
  <2> QED
    BY <1>4, <2>1, <2>2
<1>9. a = Splice(k, n, n - 1, <<s>>)
  <2>1. c = Splice(ls, y + 1, y, <<s>>)
    BY <1>1 DEF c
  <2>2. a = Splice(k, y + 1, y, <<s>>)
    BY <1>2, <1>3, <1>6, <2>1, InBelow
  <2> QED
    BY <1>1, <2>2
<1>10. k \in Texts /\ n \in 1..Len(k) + 1
  BY <1>1, <1>6, RowReplaced
<1>11. Undoes(k, Act("replace", y, ls[y]), ls)
  BY <1>6, RowBack
<1> HIDE DEF k
<1>12. Undoes(a, Act("insert", n, <<>>), k)
  <2> DEFINE d == Splice(k, n, n - 1, <<s>>)
             e == Act("insert", n, <<>>)
  <2>1. Revertible(d, e) /\ RevertText(d, e) = k
    BY <1>10, RowInserted
  <2> HIDE DEF d, e
  <2>2. Undoes(d, e, k)
    BY <2>1 DEF Undoes
  <2> QED
    BY <1>9, <2>2, Zenon DEF d, e
<1>13. Undoes(k, Act("replace", y, m[y]), ls)
  BY <1>7, <1>11
<1>14. \E q \in Texts : Undoes(a, Act("insert", n, <<>>), q) /\ Undoes(q, Act("replace", y, m[y]), ls)
  BY <1>10, <1>12, <1>13, Zenon
<1>15. Len(ls) = Len(a) - 1
  BY <1>1, <1>8
<1> QED
  BY <1>3, <1>7, <1>8, <1>14, <1>15

LEMMA ActIs ==
  ASSUME NEW e \in Actions
  PROVE  e = Act(e.kind, e.y, e.saved) /\ e.y \in Int /\ e.saved \in Row
BY DEF Actions, Act

LEMMA ActTyped ==
  ASSUME NEW kind \in Kinds, NEW y \in Int, NEW s \in Row
  PROVE  Act(kind, y, s) \in Actions /\ Act(kind, y, s).kind = kind /\ Act(kind, y, s).y = y
BY DEF Actions, Act

\* A group of one action, taken back.
LEMMA OneReverted ==
  ASSUME NEW g, NEW e \in Actions, g.acts = <<e>>, Untouched \in Takings, Revertible(lines, e)
  PROVE  Reverted(g).acts = <<InverseOf(lines, e)>>
<1>1. g.acts \in Acts /\ Len(g.acts) = 1 /\ g.acts[1] = e
  BY DEF Acts
<1>2. PICK c : /\ c[0] = Untouched /\ Reverted(g) = c[Len(g.acts)]
               /\ \A k \in 1..Len(g.acts) : c[k] = Revert(c[k - 1], g.acts[Len(g.acts) + 1 - k])
  BY <1>1, RevertedIs
<1>3. 1 \in 1..1 /\ 1 - 1 = 0 /\ 1 + 1 - 1 = 1
  OBVIOUS
<1>4. Reverted(g) = Revert(Untouched, e)
  BY <1>1, <1>2, <1>3
<1>5. Untouched.ls = lines /\ ~Untouched.bad /\ Untouched.acts = <<>>
  BY DEF Untouched
<1>6. Revert(Untouched, e).acts = <<InverseOf(lines, e)>> \o <<>>
  BY <1>5, RevertOn
<1> DEFINE i == InverseOf(lines, e)
<1>7. <<i>> \o <<>> = <<i>>
  OBVIOUS
<1> QED
  BY <1>4, <1>6, <1>7

\* A group of two.
LEMMA TwoReverted ==
  ASSUME NEW g, NEW e \in Actions, NEW f \in Actions, g.acts = Append(<<e>>, f), Untouched \in Takings,
         NEW m \in Texts, Undoes(lines, f, m), Revertible(m, e)
  PROVE  Reverted(g).acts = Append(<<InverseOf(m, e)>>, InverseOf(lines, f))
<1>1. g.acts \in Acts /\ Len(g.acts) = 2 /\ g.acts[1] = e /\ g.acts[2] = f
  BY DEF Acts
<1>2. PICK c : /\ c[0] = Untouched /\ Reverted(g) = c[Len(g.acts)]
               /\ \A k \in 1..Len(g.acts) : c[k] = Revert(c[k - 1], g.acts[Len(g.acts) + 1 - k])
  BY <1>1, RevertedIs
<1>3. 1 \in 1..2 /\ 1 - 1 = 0 /\ 2 + 1 - 1 = 2 /\ 2 \in 1..2 /\ 2 - 1 = 1 /\ 2 + 1 - 2 = 1
  OBVIOUS
<1>4. c[1] = Revert(Untouched, f)
  BY <1>1, <1>2, <1>3
<1>5. Reverted(g) = Revert(c[1], e)
  BY <1>1, <1>2, <1>3
<1>6. Untouched.ls = lines /\ ~Untouched.bad /\ Untouched.acts = <<>>
  BY DEF Untouched
<1>7. /\ c[1] \in Takings /\ ~c[1].bad /\ c[1].ls = m /\ c[1].acts = <<InverseOf(lines, f)>> \o <<>>
  BY <1>4, <1>6, RevertOn DEF Undoes
<1>8. Reverted(g).acts = <<InverseOf(m, e)>> \o c[1].acts
  BY <1>5, <1>7, RevertOn
<1> DEFINE i == InverseOf(m, e)
           j == InverseOf(lines, f)
<1>9. <<i>> \o (<<j>> \o <<>>) = Append(<<i>>, j)
  OBVIOUS
<1> QED
  BY <1>7, <1>8, <1>9

\* Such actions lead from a back to b.
TurnsTo(q, b, a) == q \in Acts /\ Turns(q) /\ Trail(b, q, a)

LEMMA GainIs ==
  /\ \A e : Gain(<<e>>) = 0
  /\ \A e, f : Gain(Append(<<e>>, f)) = IF f.kind = "insert" THEN 1 ELSE -1
<1>1. ASSUME NEW e PROVE Gain(<<e>>) = 0
  BY DEF Gain
<1>2. ASSUME NEW e, NEW f PROVE Gain(Append(<<e>>, f)) = IF f.kind = "insert" THEN 1 ELSE -1
  <2> DEFINE p == Append(<<e>>, f)
  <2>1. Len(p) = 2 /\ p[2] = f
    OBVIOUS
  <2> HIDE DEF p
  <2>2. Gain(p) = IF f.kind = "insert" THEN 1 ELSE -1
    BY <2>1 DEF Gain
  <2> QED
    BY <2>2 DEF p
<1> QED
  BY <1>1, <1>2

LEMMA UndoneLength ==
  ASSUME NEW c \in Texts, NEW e \in Actions, NEW b, Undoes(c, e, b)
  PROVE  /\ e.kind = "replace" => Len(b) = Len(c)
         /\ e.kind = "insert" => Len(b) = Len(c) - 1
         /\ e.kind = "delete" => Len(b) = Len(c) + 1
<1>1. e.saved \in Row /\ Len(c) \in Nat /\ DOMAIN c = 1..Len(c)
  BY DEF Actions, Texts
<1>2. CASE e.kind = "replace"
  <2>1. e.y \in DOMAIN c /\ b = [c EXCEPT ![e.y] = e.saved]
    BY <1>2 DEF Undoes, Revertible, RevertText
  <2>2. Len(b) = Len(c)
    BY <1>1, <2>1, RowReplaced
  <2> QED
    BY <1>2, <2>2
<1>3. CASE e.kind = "insert"
  <2>1. e.y \in DOMAIN c /\ b = Splice(c, e.y, e.y, <<>>)
    BY <1>3 DEF Undoes, Revertible, RevertText
  <2>2. Len(b) = Len(c) - 1
    BY <2>1, RowDeleted
  <2> QED
    BY <1>3, <2>2
<1>4. CASE e.kind = "delete"
  <2>1. e.y \in 1..Len(c) + 1 /\ e.y <= Len(c) + 1
    BY <1>1, <1>4 DEF Undoes, Revertible
  <2>2. b = Splice(c, e.y, e.y - 1, <<e.saved>>)
    BY <1>4, <2>1 DEF Undoes, RevertText
  <2>3. Len(b) = Len(c) + 1
    BY <1>1, <2>1, <2>2, RowInserted
  <2> QED
    BY <1>4, <2>3
<1> QED
  BY <1>2, <1>3, <1>4

LEMMA TrailGain ==
  ASSUME NEW p \in Acts, Turns(p), NEW a, NEW b, Trail(a, p, b)
  PROVE  Len(b) = Len(a) + Gain(p)
<1>1. a \in Texts /\ b \in Texts /\ Len(a) \in Nat /\ Len(b) \in Nat
  BY TrailTyped DEF Texts
<1>2. CASE Replaces(p)
  <2>1. PICK e \in Actions : e.kind = "replace" /\ p = <<e>>
    BY <1>2 DEF Replaces
  <2>2. Len(b) = Len(a)
    BY <2>1, ReplaceTrail
  <2>3. Gain(p) = 0
    BY <2>1, GainIs
  <2> QED
    BY <1>1, <2>2, <2>3
<1>3. ASSUME NEW e \in Actions, NEW f \in Actions, e.kind = "replace", f.kind \in {"insert", "delete"},
             f.y = e.y + 1, p = Append(<<e>>, f)
      PROVE  Len(b) = Len(a) + Gain(p)
  <2>1. PICK m \in Texts : Trail(a, <<e>>, m) /\ Undoes(b, f, m)
    <3>1. <<e>> \in Acts
      BY DEF Acts
    <3> QED
      BY <1>3, <3>1, TrailEnds
  <2>2. Undoes(m, e, a)
    BY <2>1, TrailOfOne
  <2>3. Len(a) = Len(m)
    BY <1>3, <2>1, <2>2, UndoneLength
  <2>4. Len(m) = IF f.kind = "insert" THEN Len(b) - 1 ELSE Len(b) + 1
    BY <1>1, <1>3, <2>1, UndoneLength
  <2>5. Gain(p) = IF f.kind = "insert" THEN 1 ELSE -1
    BY <1>3, GainIs
  <2> QED
    BY <1>1, <2>3, <2>4, <2>5
<1> QED
  BY <1>2, <1>3 DEF Turns

\* Taken back, a group whose two actions touch neighbouring rows records, in the same order,
\* the actions that lead forth again.
LEMMA Turned ==
  ASSUME NEW g, g.acts \in Acts, Turns(g.acts), NEW a, Trail(a, g.acts, lines), sel \in Marks
  PROVE  TurnsTo(Reverted(g).acts, lines, a)
<1>1. lines \in Texts
  BY TrailTyped
<1>2. Untouched \in Takings
  BY <1>1 DEF Untouched, Takings, Acts
<1>3. CASE Replaces(g.acts)
  <2>1. PICK e \in Actions : e.kind = "replace" /\ g.acts = <<e>>
    BY <1>3 DEF Replaces
  <2>2. Undoes(lines, e, a)
    BY <2>1, TrailOfOne
  <2> DEFINE i == InverseOf(lines, e)
             q == Reverted(g).acts
  <2>3. /\ a \in Texts /\ Len(a) = Len(lines) /\ i \in Actions /\ i.kind = "replace" /\ Undoes(a, i, lines)
    BY <1>1, <2>1, <2>2, RowTurns
  <2>4. q = <<i>>
    BY <1>2, <2>1, <2>2, OneReverted DEF Undoes
  <2> HIDE DEF i, q
  <2>5. Replaces(q) /\ q \in Acts
    BY <2>3, <2>4 DEF Replaces, Acts
  <2>6. Trail(lines, <<i>>, a)
    BY <1>1, <2>3, TrailOne DEF Undoes
  <2>7. TurnsTo(q, lines, a)
    BY <2>4, <2>5, <2>6 DEF TurnsTo, Turns
  <2> QED
    BY <2>7 DEF q
<1>4. ASSUME NEW e \in Actions, NEW f \in Actions, e.kind = "replace", f.kind \in {"insert", "delete"},
             f.y = e.y + 1, g.acts = Append(<<e>>, f)
      PROVE  TurnsTo(Reverted(g).acts, lines, a)
  <2>1. PICK m \in Texts : Trail(a, <<e>>, m) /\ Undoes(lines, f, m)
    <3>1. <<e>> \in Acts
      BY DEF Acts
    <3> QED
      BY <1>4, <3>1, TrailEnds
  <2>2. Undoes(m, e, a)
    BY <2>1, TrailOfOne
  <2> DEFINE i == InverseOf(m, e)
             j == InverseOf(lines, f)
             q == Reverted(g).acts
             y == e.y
             n == f.y
             back == IF f.kind = "insert" THEN "delete" ELSE "insert"
  <2>3. q = Append(<<i>>, j)
    BY <1>2, <1>4, <2>1, <2>2, TwoReverted DEF Undoes
  <2>4. e = Act("replace", y, e.saved) /\ f = Act(f.kind, n, f.saved) /\ y \in Int /\ n \in Int
        /\ n = y + 1 /\ e.saved \in Row /\ f.saved \in Row
    BY <1>4, ActIs
  <2>5. i = Act("replace", y, m[y])
    BY <1>4 DEF InverseOf
  <2>6. /\ a \in Texts
        /\ i \in Actions /\ j \in Actions /\ j.kind = back /\ j.y = n
        /\ \E k \in Texts : Undoes(a, j, k) /\ Undoes(k, i, lines)
    <3>1. CASE f.kind = "insert"
      <4>1. /\ a \in Texts
            /\ m[y] \in Row /\ lines[n] \in Row
            /\ \E k \in Texts : /\ Undoes(a, Act("delete", n, lines[n]), k)
                                /\ Undoes(k, Act("replace", y, m[y]), lines)
        <5> DEFINE z == e.saved
                   s == f.saved
        <5>1. Undoes(lines, Act("insert", n, s), m) /\ Undoes(m, Act("replace", y, z), a)
          BY <2>1, <2>2, <2>4, <3>1
        <5>2. y \in Int /\ n \in Int /\ n = y + 1 /\ z \in Row /\ s \in Row
          BY <2>4
        <5> HIDE DEF y, n, z, s, i, j
        <5> QED
          BY <1>1, <5>1, <5>2, OutTurns
      <4>2. j = Act("delete", n, lines[n])
        BY <1>4, <3>1 DEF InverseOf
      <4>3. i \in Actions /\ j \in Actions /\ j.kind = "delete" /\ j.y = n
        BY <2>4, <2>5, <4>1, <4>2, ActTyped DEF Kinds
      <4> HIDE DEF i, j, y, n
      <4> QED
        BY <2>5, <3>1, <4>1, <4>2, <4>3
    <3>2. CASE f.kind = "delete"
      <4>1. /\ a \in Texts
            /\ m[y] \in Row
            /\ \E k \in Texts : /\ Undoes(a, Act("insert", n, <<>>), k)
                                /\ Undoes(k, Act("replace", y, m[y]), lines)
        <5> DEFINE z == e.saved
                   s == f.saved
        <5>1. Undoes(lines, Act("delete", n, s), m) /\ Undoes(m, Act("replace", y, z), a)
          BY <2>1, <2>2, <2>4, <3>2
        <5>2. y \in Int /\ n \in Int /\ n = y + 1 /\ z \in Row /\ s \in Row
          BY <2>4
        <5> HIDE DEF y, n, z, s, i, j
        <5> QED
          BY <1>1, <5>1, <5>2, InTurns
      <4>2. j = Act("insert", n, <<>>)
        BY <1>4, <3>2 DEF InverseOf
      <4>3. i \in Actions /\ j \in Actions /\ j.kind = "insert" /\ j.y = n
        BY <2>4, <2>5, <4>1, <4>2, ActTyped, NoChar DEF Kinds
      <4> HIDE DEF i, j, y, n
      <4> QED
        BY <2>5, <3>2, <4>1, <4>2, <4>3
    <3> QED
      BY <1>4, <3>1, <3>2
  <2>7. i.kind = "replace" /\ i.y = y
    BY <2>5 DEF Act
  <2> HIDE DEF i, j, q, y, n
  <2>8. PICK k \in Texts : Undoes(a, j, k) /\ Undoes(k, i, lines)
    BY <2>6
  <2>9. Trail(lines, <<i>>, k) /\ <<i>> \in Acts
    BY <1>1, <2>6, <2>8, TrailOne DEF Undoes, Acts
  <2>10. Append(<<i>>, j) \in Acts /\ Trail(lines, Append(<<i>>, j), a)
    BY <2>6, <2>8, <2>9, OneMore
  <2>11. Turns(q)
    BY <2>3, <2>4, <2>6, <2>7 DEF Turns
  <2>12. TurnsTo(q, lines, a)
    BY <2>3, <2>10, <2>11 DEF TurnsTo
  <2> QED
    BY <2>12 DEF q
<1> QED
  BY <1>3, <1>4 DEF Turns
=============================================================================
