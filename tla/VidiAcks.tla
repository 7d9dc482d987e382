------------------------------ MODULE VidiAcks ------------------------------
(***************************************************************************)
(* Proofs about the receive buffers and the acknowledges of indications    *)
(* (Vidi.tla): where each buffer is, and that an indication is             *)
(* acknowledged once, to the Id it came for.                               *)
(*                                                                         *)
(* Both are sums: how often a buffer, or an Id, is in the rings and the    *)
(* queues of the host.  The first part counts in sequences; the second     *)
(* says what each operation does to the counts.                            *)
(***************************************************************************)
EXTENDS VidiProofs

\* The positions of the messages of s that are in X, and how many there are
Pos(s, X) == {k \in DOMAIN s : s[k] \in X}
Cnt(s, X) == Cardinality(Pos(s, X))

\* The places at which the messages of s that acknowledge name x
Names(s, kind, x) ==
    {p \in (DOMAIN s) \X (1..(AckPer + IdPer)) :
       /\ s[p[1]].k = kind /\ p[2] \in DOMAIN s[p[1]].of
       /\ s[p[1]].of[p[2]] = x}
Times(s, kind, x) == Cardinality(Names(s, kind, x))

\* A bijection keeps the number of elements.
LEMMA SameSize ==
    ASSUME NEW A, IsFiniteSet(A), NEW B, NEW f \in [A -> B],
           \A a, b \in A : f[a] = f[b] => a = b,
           \A b \in B : \E a \in A : f[a] = b
    PROVE  IsFiniteSet(B) /\ Cardinality(B) = Cardinality(A)
<1>1. f \in Bijection(A, B)
  BY DEF Bijection, Injection, Surjection, IsInjective
<1> QED BY <1>1, FS_Bijection DEF ExistsBijection

\* Disjoint parts add up.
LEMMA TwoParts ==
    ASSUME NEW A, NEW B, IsFiniteSet(A), IsFiniteSet(B), A \cap B = {}
    PROVE  /\ IsFiniteSet(A \cup B)
           /\ Cardinality(A) \in Nat /\ Cardinality(B) \in Nat
           /\ Cardinality(A \cup B) = Cardinality(A) + Cardinality(B)
<1>1. Cardinality(A) \in Nat /\ Cardinality(B) \in Nat BY FS_CardinalityType
<1>2. IsFiniteSet(A \cup B)
      /\ Cardinality(A \cup B)
           = Cardinality(A) + Cardinality(B) - Cardinality(A \cap B)
  BY FS_Union
<1>3. Cardinality(A \cap B) = 0 BY FS_EmptySet
<1> QED BY <1>1, <1>2, <1>3

\* How often is a number, and zero when there is no such element.
LEMMA CntIs ==
    ASSUME NEW S, NEW s \in Seq(S), NEW X
    PROVE  /\ IsFiniteSet(Pos(s, X)) /\ Cnt(s, X) \in Nat
           /\ Cnt(s, X) = 0 <=> Pos(s, X) = {}
           /\ Cnt(s, X) <= 1 => \A j, k \in Pos(s, X) : j = k
<1>1. Len(s) \in Nat /\ DOMAIN s = 1..Len(s) OBVIOUS
<1>2. IsFiniteSet(1..Len(s)) BY <1>1, FS_Interval
<1>3. IsFiniteSet(Pos(s, X))
  <2>1. Pos(s, X) \in SUBSET (1..Len(s)) BY <1>1 DEF Pos
  <2> QED BY <1>2, <2>1, FS_Subset
<1>4. Cnt(s, X) \in Nat BY <1>3, FS_CardinalityType DEF Cnt
<1>5. Cnt(s, X) = 0 <=> Pos(s, X) = {} BY <1>3, FS_EmptySet DEF Cnt
<1>6. ASSUME Cnt(s, X) <= 1, NEW j \in Pos(s, X), NEW k \in Pos(s, X)
      PROVE  j = k
  <2>1. Cnt(s, X) = 1 BY <1>4, <1>5, <1>6
  <2>2. \E x : Pos(s, X) = {x} BY <1>3, <2>1, FS_Singleton DEF Cnt
  <2> QED BY <1>6, <2>2
<1> QED BY <1>3, <1>4, <1>5, <1>6

\* The counts of two sequences add up.
LEMMA CntConcat ==
    ASSUME NEW S, NEW s \in Seq(S), NEW t \in Seq(S), NEW X
    PROVE  Cnt(s \o t, X) = Cnt(s, X) + Cnt(t, X)
<1>0. PICK u \in Seq(S) : u = s \o t BY ConcatProperties
<1>1. PICK n \in Nat, m \in Nat : n = Len(s) /\ m = Len(t) OBVIOUS
<1>2. /\ DOMAIN u = 1..(n + m) /\ DOMAIN s = 1..n /\ DOMAIN t = 1..m
      /\ \A k \in 1..n : u[k] = s[k]
      /\ \A k \in 1..m : u[n + k] = t[k]
  <2>1. Len(u) = n + m BY <1>0, <1>1, ConcatIs
  <2>2. /\ \A k \in 1..n : u[k] = s[k]
        /\ \A k \in 1..m : u[n + k] = t[k]
    BY <1>0, <1>1, ConcatProperties
  <2>3. DOMAIN u = 1..Len(u) /\ DOMAIN s = 1..Len(s) /\ DOMAIN t = 1..Len(t)
    OBVIOUS
  <2> QED BY <1>1, <2>1, <2>2, <2>3
<1> DEFINE A == Pos(s, X)
           B == Pos(t, X)
           C == {n + k : k \in B}
           f == [k \in B |-> n + k]
<1>3. IsFiniteSet(A) /\ IsFiniteSet(B) BY CntIs
<1>4. B \subseteq 1..m /\ A \subseteq 1..n BY <1>2 DEF Pos
<1>5. IsFiniteSet(C) /\ Cardinality(C) = Cardinality(B)
  <2>1. f \in [B -> C] OBVIOUS
  <2>2. \A a, b \in B : f[a] = f[b] => a = b BY <1>4
  <2>3. \A c \in C : \E a \in B : f[a] = c OBVIOUS
  <2> HIDE DEF f, B, C
  <2> QED BY <1>3, <2>1, <2>2, <2>3, SameSize
<1>6. A \cap C = {} BY <1>4
<1>7. Pos(u, X) = A \cup C
  <2>1. ASSUME NEW k \in Pos(u, X) PROVE k \in A \cup C
    <3>1. k \in 1..(n + m) /\ u[k] \in X BY <1>2, <2>1 DEF Pos
    <3>2. CASE k <= n BY <1>2, <3>1, <3>2 DEF Pos
    <3>3. CASE ~(k <= n)
      <4>1. k - n \in 1..m /\ n + (k - n) = k BY <3>1, <3>3
      <4>2. t[k - n] = u[k] BY <1>2, <4>1
      <4>3. k - n \in B BY <1>2, <3>1, <4>1, <4>2 DEF Pos
      <4> QED BY <4>1, <4>3
    <3> QED BY <3>2, <3>3
  <2>2. ASSUME NEW k \in A PROVE k \in Pos(u, X)
    BY <1>2, <2>2 DEF Pos
  <2>3. ASSUME NEW k \in B PROVE n + k \in Pos(u, X)
    BY <1>2, <2>3 DEF Pos
  <2> QED BY <2>1, <2>2, <2>3
<1> HIDE DEF A, B, C, f
<1>8. Cardinality(A \cup C) = Cardinality(A) + Cardinality(C)
  BY <1>3, <1>5, <1>6, TwoParts
<1> QED BY <1>0, <1>5, <1>7, <1>8 DEF Cnt, A, B

\* The count in a sequence of one element
LEMMA CntOne ==
    ASSUME NEW x, NEW X
    PROVE  Cnt(<<x>>, X) = IF x \in X THEN 1 ELSE 0
<1>1. CASE x \in X
  <2>1. Pos(<<x>>, X) = {1} BY <1>1 DEF Pos
  <2> QED BY <1>1, <2>1, FS_Singleton DEF Cnt
<1>2. CASE x \notin X
  <2>1. Pos(<<x>>, X) = {} BY <1>2 DEF Pos
  <2> QED BY <1>2, <2>1, FS_EmptySet DEF Cnt
<1> QED BY <1>1, <1>2

\* One element more at the end
LEMMA CntAppend ==
    ASSUME NEW S, NEW s \in Seq(S), NEW x \in S, NEW X
    PROVE  Cnt(Append(s, x), X) = Cnt(s, X) + (IF x \in X THEN 1 ELSE 0)
<1>1. Append(s, x) = s \o <<x>> BY AppendIsConcat
<1>2. <<x>> \in Seq(S) OBVIOUS
<1>3. Cnt(s \o <<x>>, X) = Cnt(s, X) + Cnt(<<x>>, X) BY <1>2, CntConcat
<1> QED BY <1>1, <1>3, CntOne

\* A sequence is its head and its tail.
LEMMA HeadAndTail ==
    ASSUME NEW S, NEW s \in Seq(S), s # <<>>
    PROVE  /\ s = <<Head(s)>> \o Tail(s)
           /\ <<Head(s)>> \in Seq(S) /\ Tail(s) \in Seq(S)
<1>1. Len(s) \in Nat /\ Len(s) >= 1 BY EmptySeq
<1>2. Tail(s) = SubSeq(s, 2, Len(s)) BY TailIsSubSeq
<1>3. Head(s) = s[1] /\ Head(s) \in S /\ Tail(s) \in Seq(S) BY TailIs
<1>4. SubSeq(s, 1, Len(s)) = <<s[1]>> \o SubSeq(s, 1 + 1, Len(s))
  <2>1. 1 \in 1..Len(s) /\ Len(s) \in 1..Len(s) BY <1>1
  <2> QED BY <2>1, SubSeqRecursiveFirst
<1>5. SubSeq(s, 1, Len(s)) = s BY SubSeqFull
<1> QED BY <1>2, <1>3, <1>4, <1>5

\* One element less at the front
LEMMA CntTail ==
    ASSUME NEW S, NEW s \in Seq(S), s # <<>>, NEW X
    PROVE  Cnt(s, X) = Cnt(Tail(s), X) + (IF Head(s) \in X THEN 1 ELSE 0)
<1>1. PICK h \in Seq(S), t \in Seq(S) :
        h = <<Head(s)>> /\ t = Tail(s) /\ s = h \o t
  BY HeadAndTail
<1>2. Cnt(s, X) = Cnt(h, X) + Cnt(t, X)
  <2>1. Cnt(h \o t, X) = Cnt(h, X) + Cnt(t, X) BY CntConcat
  <2> QED BY <1>1, <2>1, Zenon
<1>3. Cnt(h, X) = IF Head(s) \in X THEN 1 ELSE 0 BY <1>1, CntOne
<1>4. Cnt(t, X) \in Nat BY CntIs
<1> QED BY <1>1, <1>2, <1>3, <1>4

\* One element less
LEMMA CntLess ==
    ASSUME NEW S, NEW s \in Seq(S), NEW k \in DOMAIN s, NEW X
    PROVE  Cnt(s, X)
             = Cnt(SubSeq(s, 1, k - 1) \o SubSeq(s, k + 1, Len(s)), X)
               + (IF s[k] \in X THEN 1 ELSE 0)
<1>1. PICK n \in Nat : n = Len(s) /\ k \in 1..n OBVIOUS
<1>2. \A i \in 1..n : s[i] \in S BY <1>1, ElementOfSeq
<1>3. PICK a \in Seq(S) : a = SubSeq(s, 1, k - 1)
  <2>1. \A i \in 1..(k - 1) : s[i] \in S BY <1>1, <1>2
  <2>2. SubSeq(s, 1, k - 1) \in Seq(S)
    <3>1. k \in Int /\ n \in Int /\ k - 1 \in Int /\ k + 1 \in Int BY <1>1
    <3> QED BY <2>1, <3>1, SubSeqProperties
  <2> QED BY <2>2
<1>4. PICK b \in Seq(S) : b = SubSeq(s, k + 1, n)
  <2>1. \A i \in (k + 1)..n : s[i] \in S BY <1>1, <1>2
  <2>2. SubSeq(s, k + 1, n) \in Seq(S)
    <3>1. k \in Int /\ n \in Int /\ k - 1 \in Int /\ k + 1 \in Int BY <1>1
    <3> QED BY <2>1, <3>1, SubSeqProperties
  <2> QED BY <2>2
<1>5. PICK c \in Seq(S) : c = SubSeq(s, k, n)
  <2>1. \A i \in k..n : s[i] \in S BY <1>1, <1>2
  <2>2. SubSeq(s, k, n) \in Seq(S)
    <3>1. k \in Int /\ n \in Int /\ k - 1 \in Int /\ k + 1 \in Int BY <1>1
    <3> QED BY <2>1, <3>1, SubSeqProperties
  <2> QED BY <2>2
<1>6. PICK h \in Seq(S) : h = <<s[k]>>
  <2>1. s[k] \in S BY <1>1, <1>2
  <2>2. <<s[k]>> \in Seq(S) BY <2>1
  <2> QED BY <2>2
<1>7. s = a \o c
  <2>1. 1 \in 1..(Len(s) + 1) /\ k - 1 \in (1 - 1)..Len(s)
        /\ Len(s) \in (k - 1)..Len(s)
    BY <1>1
  <2>2. SubSeq(s, 1, k - 1) \o SubSeq(s, (k - 1) + 1, Len(s))
          = SubSeq(s, 1, Len(s))
    BY <2>1, ConcatAdjacentSubSeq
  <2>3. SubSeq(s, 1, Len(s)) = s BY SubSeqFull
  <2>4. (k - 1) + 1 = k BY <1>1
  <2> QED BY <1>1, <1>3, <1>5, <2>2, <2>3, <2>4
<1>8. c = h \o b
  <2>1. k \in 1..Len(s) /\ n \in k..Len(s) BY <1>1
  <2> QED BY <1>4, <1>5, <1>6, <2>1, SubSeqRecursiveFirst
<1>9. Cnt(s, X) = Cnt(a, X) + Cnt(c, X) BY <1>7, CntConcat
<1>10. Cnt(c, X) = Cnt(h, X) + Cnt(b, X) BY <1>8, CntConcat
<1>11. Cnt(h, X) = IF s[k] \in X THEN 1 ELSE 0 BY <1>6, CntOne
<1>12. Cnt(a \o b, X) = Cnt(a, X) + Cnt(b, X) BY CntConcat
<1>13. PICK p \in Nat, q \in Nat : p = Cnt(a, X) /\ q = Cnt(b, X) BY CntIs
<1>14. a \o b = SubSeq(s, 1, k - 1) \o SubSeq(s, k + 1, Len(s))
  BY <1>1, <1>3, <1>4
<1>15. PICK x \in {0, 1} : x = IF s[k] \in X THEN 1 ELSE 0 OBVIOUS
<1>16. Cnt(s, X) = p + (x + q) BY <1>9, <1>10, <1>11, <1>13, <1>15
<1>17. Cnt(a \o b, X) = p + q BY <1>12, <1>13
<1>18. p + (x + q) = p + q + x OBVIOUS
<1> QED BY <1>14, <1>15, <1>16, <1>17, <1>18

\* How often messages name something is a number.
LEMMA NamesAre ==
    ASSUME NEW S, NEW s \in Seq(S), NEW kind, NEW x
    PROVE  /\ IsFiniteSet(Names(s, kind, x)) /\ Times(s, kind, x) \in Nat
           /\ Times(s, kind, x) = 0 <=> Names(s, kind, x) = {}
<1>1. Len(s) \in Nat /\ DOMAIN s = 1..Len(s) OBVIOUS
<1>2. AckPer + IdPer \in Nat BY VidiAssumption
<1>3. IsFiniteSet(1..Len(s)) /\ IsFiniteSet(1..(AckPer + IdPer))
  BY <1>1, <1>2, FS_Interval
<1>4. IsFiniteSet((1..Len(s)) \X (1..(AckPer + IdPer))) BY <1>3, FS_Product
<1>5. Names(s, kind, x) \in SUBSET ((1..Len(s)) \X (1..(AckPer + IdPer)))
  BY <1>1 DEF Names
<1>6. IsFiniteSet(Names(s, kind, x)) BY <1>4, <1>5, FS_Subset
<1> QED BY <1>6, FS_CardinalityType, FS_EmptySet DEF Times

\* The names in two sequences of messages add up.
LEMMA TimesConcat ==
    ASSUME NEW S, NEW s \in Seq(S), NEW t \in Seq(S), NEW kind, NEW x
    PROVE  Times(s \o t, kind, x) = Times(s, kind, x) + Times(t, kind, x)
<1>0. PICK u \in Seq(S) : u = s \o t BY ConcatProperties
<1>1. PICK n \in Nat, m \in Nat : n = Len(s) /\ m = Len(t) OBVIOUS
<1>2. /\ DOMAIN u = 1..(n + m) /\ DOMAIN s = 1..n /\ DOMAIN t = 1..m
      /\ \A k \in 1..n : u[k] = s[k]
      /\ \A k \in 1..m : u[n + k] = t[k]
  <2>1. Len(u) = n + m BY <1>0, <1>1, ConcatIs
  <2>2. /\ \A k \in 1..n : u[k] = s[k]
        /\ \A k \in 1..m : u[n + k] = t[k]
    BY <1>0, <1>1, ConcatProperties
  <2>3. DOMAIN u = 1..Len(u) /\ DOMAIN s = 1..Len(s) /\ DOMAIN t = 1..Len(t)
    OBVIOUS
  <2> QED BY <1>1, <2>1, <2>2, <2>3
<1> DEFINE P == 1..(AckPer + IdPer)
           Is(m1, i) == m1.k = kind /\ i \in DOMAIN m1.of /\ m1.of[i] = x
           A == Names(s, kind, x)
           B == Names(t, kind, x)
           C == {<<n + p[1], p[2]>> : p \in B}
           f == [p \in B |-> <<n + p[1], p[2]>>]
<1>3. IsFiniteSet(A) /\ IsFiniteSet(B) BY NamesAre
<1>4. /\ \A p \in B : p = <<p[1], p[2]>> /\ p[1] \in 1..m /\ p[2] \in P
                      /\ Is(t[p[1]], p[2])
      /\ \A j \in 1..m, i \in P : Is(t[j], i) => <<j, i>> \in B
  BY <1>2 DEF Names
<1>5. /\ \A p \in A : p = <<p[1], p[2]>> /\ p[1] \in 1..n /\ p[2] \in P
                      /\ Is(s[p[1]], p[2])
      /\ \A j \in 1..n, i \in P : Is(s[j], i) => <<j, i>> \in A
  BY <1>2 DEF Names
<1>6. /\ \A p \in Names(u, kind, x) :
            p = <<p[1], p[2]>> /\ p[1] \in 1..(n + m) /\ p[2] \in P
              /\ Is(u[p[1]], p[2])
      /\ \A j \in 1..(n + m), i \in P : Is(u[j], i)
            => <<j, i>> \in Names(u, kind, x)
  BY <1>2 DEF Names
<1> HIDE DEF A, B, P, Is
<1>7. IsFiniteSet(C) /\ Cardinality(C) = Cardinality(B)
  <2>1. f \in [B -> C] OBVIOUS
  <2>2. \A a, b \in B : f[a] = f[b] => a = b
    <3> SUFFICES ASSUME NEW a \in B, NEW b \in B, f[a] = f[b] PROVE a = b
      OBVIOUS
    <3>1. n + a[1] = n + b[1] /\ a[2] = b[2] OBVIOUS
    <3>2. a[1] = b[1] BY <3>1, <1>4
    <3> QED BY <3>1, <3>2, <1>4
  <2>3. \A c \in C : \E a \in B : f[a] = c OBVIOUS
  <2> HIDE DEF f, C
  <2> QED BY <1>3, <2>1, <2>2, <2>3, SameSize
<1>8. A \cap C = {}
  <2> SUFFICES ASSUME NEW p \in B, <<n + p[1], p[2]>> \in A PROVE FALSE
    OBVIOUS
  <2>1. n + p[1] \in 1..n BY <1>5
  <2>2. p[1] \in 1..m BY <1>4
  <2> QED BY <2>1, <2>2
<1>9. Names(u, kind, x) = A \cup C
  <2>1. ASSUME NEW p \in Names(u, kind, x) PROVE p \in A \cup C
    <3>1. PICK j, i : p = <<j, i>> /\ j \in 1..(n + m) /\ i \in P /\ Is(u[j], i)
      BY <1>6
    <3>2. CASE j <= n
      <4>1. j \in 1..n /\ u[j] = s[j] BY <1>2, <3>1, <3>2
      <4> QED BY <1>5, <3>1, <4>1
    <3>3. CASE ~(j <= n)
      <4>1. PICK l \in 1..m : j = n + l
        <5>1. j - n \in 1..m /\ j = n + (j - n) BY <3>1, <3>3
        <5> QED BY <5>1
      <4>2. u[j] = t[l] BY <1>2, <4>1
      <4>3. <<l, i>> \in B BY <1>4, <3>1, <4>1, <4>2
      <4>4. <<n + <<l, i>>[1], <<l, i>>[2]>> = p BY <3>1, <4>1
      <4> QED BY <4>3, <4>4
    <3> QED BY <3>1, <3>2, <3>3
  <2>2. ASSUME NEW p \in A PROVE p \in Names(u, kind, x)
    <3>1. p[1] \in 1..(n + m) /\ u[p[1]] = s[p[1]] BY <1>2, <1>5
    <3> QED BY <1>5, <1>6, <3>1
  <2>3. ASSUME NEW p \in B PROVE <<n + p[1], p[2]>> \in Names(u, kind, x)
    <3>1. n + p[1] \in 1..(n + m) /\ u[n + p[1]] = t[p[1]] BY <1>2, <1>4
    <3> QED BY <1>4, <1>6, <3>1
  <2> QED BY <2>1, <2>2, <2>3
<1> HIDE DEF C, f
<1>10. Cardinality(A \cup C) = Cardinality(A) + Cardinality(C)
  BY <1>3, <1>7, <1>8, TwoParts
<1> QED BY <1>0, <1>7, <1>9, <1>10 DEF Times, A, B

\* A message of the kind names x as often as x is in its list; a message of
\* another kind does not.
LEMMA TimesOne ==
    ASSUME NEW m, NEW kind, NEW S, NEW x,
           m.k = kind => m.of \in Seq(S) /\ Len(m.of) <= AckPer + IdPer
    PROVE  Times(<<m>>, kind, x) = IF m.k = kind THEN Cnt(m.of, {x}) ELSE 0
<1>0. AckPer + IdPer \in Nat BY VidiAssumption
<1>1. CASE m.k # kind
  <2>1. Names(<<m>>, kind, x) = {} BY <1>1 DEF Names
  <2> QED BY <1>1, <2>1, FS_EmptySet DEF Times
<1>2. CASE m.k = kind
  <2>1. PICK q \in Seq(S) : q = m.of /\ Len(q) <= AckPer + IdPer BY <1>2
  <2>2. DOMAIN q = 1..Len(q) /\ Len(q) \in Nat OBVIOUS
  <2> DEFINE A == Pos(q, {x})
             B == Names(<<m>>, kind, x)
             f == [i \in A |-> <<1, i>>]
  <2>3. A \subseteq 1..(AckPer + IdPer) BY <1>0, <2>1, <2>2 DEF Pos
  <2>4. \A i \in A : i \in DOMAIN q /\ q[i] = x BY DEF Pos
  <2>5. IsFiniteSet(A) BY CntIs
  <2>6. f \in [A -> B]
    <3>1. DOMAIN <<m>> = {1} /\ <<m>>[1] = m OBVIOUS
    <3>2. ASSUME NEW i \in A PROVE <<1, i>> \in B
      <4>1. i \in 1..(AckPer + IdPer) /\ i \in DOMAIN m.of /\ m.of[i] = x
        BY <2>1, <2>3, <2>4
      <4>2. <<1, i>> \in (DOMAIN <<m>>) \X (1..(AckPer + IdPer))
        BY <3>1, <4>1
      <4> QED BY <1>2, <3>1, <4>1, <4>2 DEF Names
    <3> QED BY <3>2
  <2>7. \A b \in B : b = <<1, b[2]>> /\ b[2] \in A
    BY <2>1, <2>2 DEF Names, Pos
  <2> HIDE DEF A, B
  <2>8. \A a, b \in A : f[a] = f[b] => a = b OBVIOUS
  <2>9. \A b \in B : \E a \in A : f[a] = b BY <2>7
  <2>10. Cardinality(B) = Cardinality(A)
    <3> HIDE DEF f
    <3> QED BY <2>5, <2>6, <2>8, <2>9, SameSize
  <2> QED BY <1>2, <2>1, <2>10 DEF A, B, Cnt, Times
<1> QED BY <1>1, <1>2

\* A message of another kind names nothing.
LEMMA TimesAppend ==
    ASSUME NEW S, NEW s \in Seq(S), NEW m \in S, NEW kind, NEW x,
           m.k # kind
    PROVE  Times(Append(s, m), kind, x) = Times(s, kind, x)
<1>1. Append(s, m) = s \o <<m>> BY AppendIsConcat
<1>2. <<m>> \in Seq(S) OBVIOUS
<1>3. Times(s \o <<m>>, kind, x) = Times(s, kind, x) + Times(<<m>>, kind, x)
  <2>1. PICK t \in Seq(S) : t = <<m>> BY <1>2
  <2>2. Times(s \o t, kind, x) = Times(s, kind, x) + Times(t, kind, x)
    BY TimesConcat
  <2> QED BY <2>1, <2>2
<1>4. Times(<<m>>, kind, x) = 0 BY TimesOne
<1>5. Times(s, kind, x) \in Nat BY NamesAre
<1> QED BY <1>1, <1>3, <1>4, <1>5

\* The first message less
LEMMA TimesTail ==
    ASSUME NEW S, NEW s \in Seq(S), s # <<>>, NEW kind, NEW x, NEW T,
           Head(s).k = kind => /\ Head(s).of \in Seq(T)
                               /\ Len(Head(s).of) <= AckPer + IdPer
    PROVE  Times(s, kind, x)
             = Times(Tail(s), kind, x)
               + (IF Head(s).k = kind THEN Cnt(Head(s).of, {x}) ELSE 0)
<1>1. PICK h \in Seq(S), t \in Seq(S) :
        h = <<Head(s)>> /\ t = Tail(s) /\ s = h \o t
  BY HeadAndTail
<1>2. Times(s, kind, x) = Times(h, kind, x) + Times(t, kind, x)
  <2>1. Times(h \o t, kind, x) = Times(h, kind, x) + Times(t, kind, x)
    BY TimesConcat
  <2> QED BY <1>1, <2>1
<1>3. Times(h, kind, x)
        = IF Head(s).k = kind THEN Cnt(Head(s).of, {x}) ELSE 0
  BY <1>1, TimesOne
<1>4. Times(t, kind, x) \in Nat /\ Times(h, kind, x) \in Nat BY NamesAre
<1> QED BY <1>1, <1>2, <1>3, <1>4

\* The members of a set of positions, listed in order; the ones of them that
\* are in X
Listed(n, A, g, f) ==
    /\ n \in Nat /\ A \in SUBSET (1..n)
    /\ f = [k \in DOMAIN InOrder(A) |-> g[InOrder(A)[k]]]
Within(A, g, X) == {k \in A : g[k] \in X}

\* What is listed in order is counted by its members.
LEMMA CntListed ==
    ASSUME NEW n, NEW A, NEW g, NEW f, NEW X, Listed(n, A, g, f)
    PROVE  Cnt(f, X) = Cardinality(Within(A, g, X))
<1>0. /\ n \in Nat /\ A \in SUBSET (1..n)
      /\ f = [k \in DOMAIN InOrder(A) |-> g[InOrder(A)[k]]]
  BY DEF Listed
<1>1. PICK o \in Seq(A), c \in Nat : o = InOrder(A) /\ c = Cardinality(A)
                                    /\ Len(o) = c
  BY <1>0, InOrderIs
<1>2. DOMAIN o = 1..c /\ (\A i \in 1..c : o[i] \in A)
      /\ (\A i, j \in 1..c : i < j => o[i] < o[j])
  <2>1. DOMAIN o = 1..c /\ \A i \in 1..c : o[i] \in A
    BY <1>1, ElementOfSeq
  <2>2. \A i, j \in 1..c : i < j => o[i] < o[j] BY <1>0, <1>1, InOrderIs
  <2> QED BY <2>1, <2>2
<1>3. \A i, j \in 1..c : o[i] = o[j] => i = j
  <2> SUFFICES ASSUME NEW i \in 1..c, NEW j \in 1..c, o[i] = o[j], i # j
               PROVE  FALSE
    OBVIOUS
  <2>1. o[i] \in Nat
    <3>1. o[i] \in A BY <1>2
    <3>2. A \subseteq 1..n BY <1>0
    <3>3. \A y \in 1..n : y \in Nat BY <1>0
    <3> QED BY <3>1, <3>2, <3>3
  <2>2. i < j \/ j < i OBVIOUS
  <2>3. o[i] < o[j] \/ o[j] < o[i] BY <1>2, <2>2
  <2> QED BY <2>1, <2>3
<1>4. IsFiniteSet(A) /\ IsFiniteSet(1..c) BY <1>0, InOrderIs, FS_Interval
<1>5. \A a \in A : \E i \in 1..c : o[i] = a
  <2>1. o \in [1..c -> A] BY <1>2
  <2>2. o \in Injection(1..c, A) BY <1>3, <2>1 DEF Injection, IsInjective
  <2>3. Cardinality(1..c) = c
    <3>1. 1 \in Int /\ c \in Int OBVIOUS
    <3>2. Cardinality(1..c) = IF 1 > c THEN 0 ELSE c - 1 + 1
      BY <3>1, FS_Interval
    <3> QED BY <3>2
  <2>4. o \in Surjection(1..c, A) BY <1>1, <1>4, <2>2, <2>3, FS_Injection
  <2> QED BY <2>4 DEF Surjection
<1> DEFINE P == Pos(f, X)
           Q == Within(A, g, X)
           h == [i \in P |-> o[i]]
<1>6. DOMAIN f = 1..c /\ \A i \in 1..c : f[i] = g[o[i]] BY <1>0, <1>1, <1>2
<1>7. P \subseteq 1..c /\ \A i \in 1..c : i \in P <=> g[o[i]] \in X
  BY <1>6 DEF Pos
<1>8. IsFiniteSet(P) BY <1>4, <1>7, FS_Subset
<1> HIDE DEF P
<1>9. h \in [P -> Q] BY <1>2, <1>7 DEF Within
<1>10. \A a, b \in P : h[a] = h[b] => a = b BY <1>3, <1>7
<1>11. \A b \in Q : \E a \in P : h[a] = b
  <2> SUFFICES ASSUME NEW b \in Q PROVE \E a \in P : h[a] = b OBVIOUS
  <2>1. PICK i \in 1..c : o[i] = b BY <1>5 DEF Within
  <2>2. i \in P BY <1>7, <2>1 DEF Within
  <2> QED BY <2>1, <2>2
<1>12. Cardinality(Q) = Cardinality(P)
  <2> HIDE DEF h, Q
  <2> QED BY <1>8, <1>9, <1>10, <1>11, SameSize
<1> QED BY <1>12 DEF P, Cnt

\* Multiples are at least one step apart.
LEMMA Steps ==
    ASSUME NEW a \in Nat, NEW b \in Nat, NEW p \in Nat, a < b
    PROVE  a * p \in Nat /\ b * p \in Nat /\ a * p + p <= b * p
<1>1. PICK d \in Nat : b = a + 1 + d
  <2>1. b - (a + 1) \in Nat /\ b = a + 1 + (b - (a + 1)) OBVIOUS
  <2> QED BY <2>1
<1>2. b * p = a * p + p + d * p BY <1>1
<1>3. a * p \in Nat /\ d * p \in Nat OBVIOUS
<1>4. PICK x \in Nat, y \in Nat : x = a * p /\ y = d * p BY <1>3
<1>5. b * p = x + p + y BY <1>2, <1>4
<1> QED BY <1>4, <1>5

\* A division and its remainder
LEMMA Divides ==
    ASSUME NEW a \in Nat, NEW p \in Nat \ {0}
    PROVE  /\ a \div p \in Nat
           /\ (a \div p) * p <= a /\ a < (a \div p) * p + p
<1> DEFINE q == a \div p
<1>1. q \in Nat /\ p * q <= a /\ a < p * (q + 1) OBVIOUS
<1> HIDE DEF q
<1>2. p * (q + 1) = q * p + p /\ p * q = q * p BY <1>1
<1> QED BY <1>1, <1>2 DEF q

\* The part of a list that goes into a message
Parted(S, q, n, a, b, part) ==
    /\ part \in Seq(S) /\ Len(part) <= b - a
    /\ \A i \in 1..Len(part) : a + i \in 1..n /\ part[i] = q[a + i]
    /\ \A i \in 1..(b - a) : a + i <= n => i \in 1..Len(part)

\* SubSeq gives it.
LEMMA PartIs ==
    ASSUME NEW S, NEW q \in Seq(S), NEW n \in 0..Len(q), NEW a \in Nat,
           NEW b \in Nat, a < n, a < b,
           NEW part, part = SubSeq(q, a + 1, Least(b, n))
    PROVE  Parted(S, q, n, a, b, part)
<1>1. PICK z \in Nat : z = Least(b, n) /\ z <= n /\ z <= b /\ a < z
                       /\ \A i \in Nat : i <= b /\ i <= n => i <= z
  BY DEF Least
<1>2. \A i \in 1..Len(q) : q[i] \in S BY ElementOfSeq
<1>3. Len(q) \in Nat OBVIOUS
<1>4. \A i \in (a + 1)..z : q[i] \in S
  <2>1. \A i \in (a + 1)..z : i \in 1..Len(q) BY <1>1, <1>3
  <2> QED BY <1>2, <2>1
<1>5. PICK lo \in Int, c \in Nat :
        lo = a + 1 /\ c = z - a /\ z - lo + 1 = c /\ lo <= z /\ c <= b - a
        /\ a + c <= n
  <2>1. PICK lo \in Int : lo = a + 1 OBVIOUS
  <2>2. PICK c \in Nat : c = z - a BY <1>1
  <2>3. z - lo + 1 = c /\ lo <= z BY <1>1, <2>1, <2>2
  <2>4. c <= b - a /\ a + c <= n BY <1>1, <2>2
  <2> QED BY <2>1, <2>2, <2>3, <2>4
<1>6. \A i \in lo..z : q[i] \in S BY <1>4, <1>5
<1>7. /\ SubSeq(q, lo, z) \in Seq(S)
      /\ Len(SubSeq(q, lo, z)) = IF lo <= z THEN z - lo + 1 ELSE 0
      /\ \A i \in 1..(z - lo + 1) : SubSeq(q, lo, z)[i] = q[lo + i - 1]
  <2>1. z \in Int OBVIOUS
  <2> QED BY ONLY <1>6, <2>1, SubSeqProperties
<1>8. part = SubSeq(q, lo, z) BY <1>1, <1>5
<1>9. part \in Seq(S) /\ Len(part) = c
      /\ \A i \in 1..c : part[i] = q[lo + i - 1]
  BY ONLY <1>5, <1>7, <1>8
<1>10. \A i \in 1..c : lo + i - 1 = a + i /\ a + i \in 1..n
  BY <1>5
<1>11. ASSUME NEW i \in 1..(b - a), a + i <= n PROVE i \in 1..c
  <2>1. a + i \in Nat /\ a + i <= b OBVIOUS
  <2>2. a + i <= z BY <1>1, <1>11, <2>1
  <2>3. c = z - a BY <1>5
  <2> QED BY <2>2, <2>3
<1> QED BY <1>5, <1>9, <1>10, <1>11 DEF Parted

\* The messages name what leaves the list, each handle as often as it was in
\* it, and something stays only when the room is used up.
LEMMA TimesBatches ==
    ASSUME NEW S, NEW q \in Seq(S), NEW per \in Nat \ {0},
           per <= AckPer + IdPer, NEW room \in Nat, NEW kind, NEW x
    PROVE  /\ Times(Batches(kind, q, per, room), kind, x)
                + Cnt(Rest(q, per, room), {x}) = Cnt(q, {x})
           /\ \A j \in DOMAIN Batches(kind, q, per, room) :
                Len(Batches(kind, q, per, room)[j].of) <= per
           /\ Len(Batches(kind, q, per, room)) = room
              \/ Rest(q, per, room) = <<>>
<1>1. PICK n \in 0..Len(q), c \in 0..room :
        n = Taken(q, per, room) /\ c = (n + per - 1) \div per
  BY TakenIs
<1>2. PICK B : B = Batches(kind, q, per, room) OBVIOUS
<1>3. PICK R \in Seq(S) : R = Rest(q, per, room) /\ R = SubSeq(q, n + 1, Len(q))
  BY <1>1, TakenIs DEF Rest
<1> DEFINE Lo(j) == (j - 1) * per
           Hi(j) == j * per
           Part(j) == SubSeq(q, Lo(j) + 1, Least(Hi(j), n))
<1>4. B = [j \in 1..c |-> [k |-> kind, of |-> Part(j)]]
  BY <1>1, <1>2 DEF Batches
<1>5. n + per - 1 \in Nat /\ c * per <= n + per - 1
      /\ n + per - 1 < c * per + per /\ c * per \in Nat
  <2>1. n + per - 1 \in Nat
    <3>1. n \in Nat /\ per \in Nat /\ per >= 1 BY <1>1
    <3>2. PICK n1 \in Nat, p1 \in Nat : n1 = n /\ p1 = per /\ p1 >= 1 BY <3>1
    <3>3. n1 + p1 - 1 \in Nat BY <3>2
    <3> QED BY <3>2, <3>3
  <2>2. PICK a \in Nat : a = n + per - 1 BY <2>1
  <2>3. c = a \div per BY <1>1, <2>2
  <2>4. c * per <= a /\ a < c * per + per BY <2>3, Divides
  <2>5. c \in Nat BY <1>1
  <2> QED BY <2>1, <2>2, <2>4, <2>5
<1>6. ASSUME NEW j \in 1..c
      PROVE  Lo(j) \in Nat /\ Hi(j) = Lo(j) + per /\ Lo(j) < n
             /\ Hi(j) \in Nat
  <2>0. j \in Nat /\ j - 1 \in Nat /\ c \in Nat BY <1>6, <1>1
  <2>1. PICK l \in Nat : l = Lo(j) BY <2>0
  <2>2. Hi(j) = Lo(j) + per BY <2>0
  <2>3. l + per <= c * per
    <3>1. j - 1 < c /\ j - 1 \in Nat BY <1>6, <2>0
    <3> QED BY <2>0, <2>1, <3>1, Steps
  <2>4. PICK z \in Nat : z = c * per BY <1>5
  <2>5. l + per <= n + per - 1 BY <1>5, <2>3, <2>4
  <2>6. l < n BY <2>5
  <2> QED BY <2>1, <2>2, <2>6
<1>7. ASSUME NEW k \in 1..n
      PROVE  \E j \in 1..c, i \in 1..per : k = Lo(j) + i
  <2>1. PICK h \in Nat, u \in Nat : h = (k - 1) \div per /\ u = h * per
                                    /\ u <= k - 1 /\ k - 1 < u + per
    <3>1. k - 1 \in Nat BY <1>7
    <3>2. (k - 1) \div per \in Nat BY <3>1, Divides
    <3>3. PICK h \in Nat : h = (k - 1) \div per BY <3>2
    <3>4. h * per \in Nat OBVIOUS
    <3> QED BY <3>1, <3>3, <3>4, Divides
  <2>2. h < c
    <3> SUFFICES ASSUME c <= h PROVE FALSE BY <1>1
    <3>1. c * per <= u
      <4>1. CASE c = h BY <2>1, <4>1
      <4>2. CASE c < h
        <5>1. c \in Nat BY <1>1
        <5>2. c * per + per <= h * per BY <4>2, <5>1, Steps
        <5> QED BY <1>5, <2>1, <5>2
      <4> QED BY <4>1, <4>2, <1>1
    <3>2. PICK z \in Nat : z = c * per BY <1>5
    <3>3. n + per - 1 < z + per /\ z <= k - 1 BY <1>5, <2>1, <3>1, <3>2
    <3> QED BY <3>3, <1>7
  <2>3. h + 1 \in 1..c /\ k - u \in 1..per
    <3>1. c \in Nat /\ k \in Nat BY <1>1, <1>7
    <3>2. PICK c1 \in Nat, k1 \in Nat : c1 = c /\ k1 = k BY <3>1
    <3>3. h + 1 \in 1..c1 BY <2>2, <3>2
    <3>4. k1 - u \in 1..per BY <2>1, <3>2
    <3> QED BY <3>2, <3>3, <3>4
  <2>4. Lo(h + 1) = u BY <2>1
  <2>5. k = Lo(h + 1) + (k - u) BY <1>7, <2>1, <2>4
  <2> QED BY <2>3, <2>5
<1>8. ASSUME NEW j \in 1..c, NEW i \in 1..per, NEW l \in 1..c, NEW m \in 1..per,
             Lo(j) + i = Lo(l) + m
      PROVE  j = l /\ i = m
  <2>0. j - 1 \in Nat /\ l - 1 \in Nat BY <1>8
  <2>1. PICK y \in Nat, z \in Nat : y = Lo(j) /\ z = Lo(l) BY <1>6
  <2>2. ~(j < l)
    <3> SUFFICES ASSUME j < l PROVE FALSE OBVIOUS
    <3>1. j - 1 < l - 1 BY <1>8
    <3>2. y + per <= z BY <2>0, <2>1, <3>1, Steps
    <3> QED BY <1>8, <2>1, <3>2
  <2>3. ~(l < j)
    <3> SUFFICES ASSUME l < j PROVE FALSE OBVIOUS
    <3>1. l - 1 < j - 1 BY <1>8
    <3>2. z + per <= y BY <2>0, <2>1, <3>1, Steps
    <3> QED BY <1>8, <2>1, <3>2
  <2>4. j = l BY <1>8, <2>2, <2>3
  <2> QED BY <1>8, <2>1, <2>4
<1>9. ASSUME NEW j \in 1..c
      PROVE  /\ Part(j) \in Seq(S) /\ Len(Part(j)) <= per
             /\ \A i \in 1..Len(Part(j)) :
                  Lo(j) + i \in 1..n /\ Part(j)[i] = q[Lo(j) + i]
             /\ \A i \in 1..per : Lo(j) + i <= n => i \in 1..Len(Part(j))
  <2>1. PICK a \in Nat, b \in Nat : a = Lo(j) /\ b = Hi(j) /\ b = a + per /\ a < n
    BY <1>6
  <2>2. b - a = per /\ a < b BY <2>1
  <2>3. PICK part : part = SubSeq(q, a + 1, Least(b, n)) OBVIOUS
  <2>4. Parted(S, q, n, a, b, part)
    <3>1. n \in 0..Len(q) /\ a \in Nat /\ b \in Nat /\ a < n /\ a < b BY <1>1, <2>1, <2>2
    <3> QED BY <3>1, <2>3, PartIs
  <2>5. Part(j) = part BY <2>1, <2>3
  <2> QED BY <2>1, <2>2, <2>4, <2>5 DEF Parted
<1> HIDE DEF Part, Lo, Hi
<1> DEFINE p == SubSeq(q, 1, n)
           A == Names(B, kind, x)
           P == Pos(p, {x})
           f == [t \in A |-> Lo(t[1]) + t[2]]
<1>10. p \in Seq(S) /\ Len(p) = n /\ \A k \in 1..n : p[k] = q[k]
  <2>1. \A k \in 1..Len(q) : q[k] \in S BY ElementOfSeq
  <2>2. n \in Int /\ 1 \in Int /\ n \in Nat /\ \A k \in 1..n : q[k] \in S
    BY <1>1, <2>1
  <2>3. /\ p \in Seq(S) /\ Len(p) = IF 1 <= n THEN n - 1 + 1 ELSE 0
        /\ \A k \in 1..(n - 1 + 1) : p[k] = q[1 + k - 1]
    BY <2>2, SubSeqProperties
  <2>4. \A k \in 1..n : k \in 1..(n - 1 + 1) /\ 1 + k - 1 = k BY <2>2
  <2>5. Len(p) = n BY <2>2, <2>3
  <2> QED BY <2>3, <2>4, <2>5
<1>11. q = p \o R
  <2>1. 1 \in 1..(Len(q) + 1) /\ n \in (1 - 1)..Len(q) /\ Len(q) \in n..Len(q)
    BY <1>1
  <2>2. SubSeq(q, 1, n) \o SubSeq(q, n + 1, Len(q)) = SubSeq(q, 1, Len(q))
    BY <2>1, ConcatAdjacentSubSeq
  <2>3. SubSeq(q, 1, Len(q)) = q BY SubSeqFull
  <2> QED BY <1>3, <2>2, <2>3
<1> HIDE DEF p
<1>12. Cnt(q, {x}) = Cnt(p, {x}) + Cnt(R, {x})
  <2>1. PICK v \in Seq(S) : v = p BY <1>10
  <2> QED BY <1>11, <2>1, CntConcat
<1>13. IsFiniteSet(P)
  <2>1. PICK v \in Seq(S) : v = p BY <1>10
  <2> QED BY <2>1, CntIs
<1>14. /\ \A t \in A : /\ t = <<t[1], t[2]>> /\ t[1] \in 1..c
                       /\ t[2] \in 1..Len(Part(t[1]))
                       /\ Part(t[1])[t[2]] = x
       /\ \A j \in 1..c, i \in 1..per : i \in 1..Len(Part(j)) /\ Part(j)[i] = x
            => <<j, i>> \in A
  <2>1. \A j \in 1..c : B[j].k = kind /\ B[j].of = Part(j) BY <1>4
  <2>2. DOMAIN B = 1..c BY <1>4
  <2>3. \A j \in 1..c : DOMAIN Part(j) = 1..Len(Part(j)) BY <1>9
  <2>4. \A i \in 1..per : i \in 1..(AckPer + IdPer)
    <3>1. AckPer + IdPer \in Nat BY VidiAssumption
    <3> QED BY <3>1
  <2>5. ASSUME NEW t \in A
        PROVE  /\ t = <<t[1], t[2]>> /\ t[1] \in 1..c
               /\ t[2] \in 1..Len(Part(t[1])) /\ Part(t[1])[t[2]] = x
    BY <2>1, <2>2, <2>3 DEF Names
  <2>6. ASSUME NEW j \in 1..c, NEW i \in 1..per,
               i \in 1..Len(Part(j)), Part(j)[i] = x
        PROVE  <<j, i>> \in A
    BY <2>1, <2>2, <2>3, <2>4, <2>6 DEF Names
  <2> QED BY <2>5, <2>6
<1>15. /\ \A k \in P : k \in 1..n /\ q[k] = x
       /\ \A k \in 1..n : q[k] = x => k \in P
  <2>1. DOMAIN p = 1..n BY <1>10
  <2> QED BY <1>10, <2>1 DEF Pos
<1> HIDE DEF A, P
<1>16. \A t \in A : t[2] \in 1..per
  <2> SUFFICES ASSUME NEW t \in A PROVE t[2] \in 1..per OBVIOUS
  <2>1. t[1] \in 1..c /\ t[2] \in 1..Len(Part(t[1])) BY <1>14
  <2>2. Len(Part(t[1])) <= per /\ Part(t[1]) \in Seq(S) BY <1>9, <2>1
  <2>3. Len(Part(t[1])) \in Nat BY <2>2
  <2> QED BY <2>1, <2>2, <2>3
<1>17. f \in [A -> P]
  <2>1. ASSUME NEW t \in A PROVE Lo(t[1]) + t[2] \in P
    <3>1. /\ t[1] \in 1..c /\ t[2] \in 1..Len(Part(t[1]))
          /\ Part(t[1])[t[2]] = x
      BY <1>14
    <3>2. Lo(t[1]) + t[2] \in 1..n /\ Part(t[1])[t[2]] = q[Lo(t[1]) + t[2]]
      BY <1>9, <3>1
    <3> QED BY <1>15, <3>1, <3>2
  <2> QED BY <2>1
<1>18. \A s, t \in A : f[s] = f[t] => s = t
  <2> SUFFICES ASSUME NEW s \in A, NEW t \in A, f[s] = f[t] PROVE s = t
    OBVIOUS
  <2>1. Lo(s[1]) + s[2] = Lo(t[1]) + t[2] OBVIOUS
  <2>2. s[1] = t[1] /\ s[2] = t[2] BY <1>8, <1>14, <1>16, <2>1
  <2> QED BY <1>14, <2>2
<1>19. \A k \in P : \E t \in A : f[t] = k
  <2> SUFFICES ASSUME NEW k \in P PROVE \E t \in A : f[t] = k OBVIOUS
  <2>1. k \in 1..n /\ q[k] = x BY <1>15
  <2>2. PICK j \in 1..c, i \in 1..per : k = Lo(j) + i BY <1>7, <2>1
  <2>3. i \in 1..Len(Part(j)) BY <1>9, <2>1, <2>2
  <2>4. Part(j)[i] = x BY <1>9, <2>1, <2>2, <2>3
  <2>5. <<j, i>> \in A BY <1>14, <2>3, <2>4
  <2>6. f[<<j, i>>] = k BY <2>2, <2>5
  <2> QED BY <2>5, <2>6
<1>20. IsFiniteSet(A)
  <2>1. f \in Injection(A, P) BY <1>17, <1>18 DEF Injection, IsInjective
  <2> QED BY <1>13, <2>1, FS_Injection
<1>21. Cardinality(A) = Cardinality(P)
  <2> HIDE DEF f
  <2> QED BY <1>17, <1>18, <1>19, <1>20, SameSize
<1>22. Times(B, kind, x) + Cnt(R, {x}) = Cnt(q, {x})
  BY <1>12, <1>21 DEF A, P, Times, Cnt
<1>23. \A j \in DOMAIN B : Len(B[j].of) <= per BY <1>4, <1>9
<1>24. Len(B) = c
  <2>1. c \in Nat BY <1>1
  <2> QED BY <1>4, <2>1
<1>25. c = room \/ R = <<>>
  <2>1. CASE room = 0 BY <1>1, <2>1
  <2>2. CASE room # 0 /\ n = Len(q)
    <3>1. R = SubSeq(q, Len(q) + 1, Len(q)) BY <1>3, <2>2
    <3>2. Len(q) + 1 \in Int /\ Len(q) \in Int /\ Len(q) < Len(q) + 1 OBVIOUS
    <3> QED BY <3>1, <3>2, SubSeqEmpty
  <2>3. CASE room # 0 /\ n # Len(q)
    <3>1. PICK y \in Nat : y = (room - 1) * per
      <4>1. room - 1 \in Nat BY <2>3
      <4>2. (room - 1) * per \in Nat BY <4>1
      <4> QED BY <4>2
    <3>2. n = Least(Len(q), y + 1) BY <1>1, <2>3, <3>1 DEF Taken
    <3>3. n = y + 1 BY <2>3, <3>2 DEF Least
    <3>4. ~(c < room)
      <4> SUFFICES ASSUME c < room PROVE FALSE OBVIOUS
      <4>1. c \in Nat BY <1>1
      <4>2. c * per + per <= room * per BY <4>1, Steps
      <4>3. room * per = y + per BY <2>3, <3>1
      <4>4. PICK z \in Nat : z = c * per BY <1>5
      <4>5. n + per - 1 < z + per /\ z + per <= y + per
        BY <1>5, <4>2, <4>3, <4>4
      <4> QED BY <3>3, <4>5
    <3> QED BY <1>1, <3>4
  <2> QED BY <2>1, <2>2, <2>3
<1> QED BY <1>2, <1>3, <1>22, <1>23, <1>24, <1>25

\* No acknowledge names more than Named looks at.
Short(s) == \A k \in DOMAIN s : s[k].k \in {"ack_buf", "ack_id"}
                                  => Len(s[k].of) <= AckPer + IdPer

\* Messages of other kinds name nothing.
LEMMA TimesNone ==
    ASSUME NEW s, NEW kind, NEW x, \A k \in DOMAIN s : s[k].k # kind
    PROVE  Times(s, kind, x) = 0
<1>1. Names(s, kind, x) = {} BY DEF Names
<1> QED BY <1>1, FS_EmptySet DEF Times

\* The five parts of what vidi_host_pr_out writes
LEMMA FiveTimes ==
    ASSUME NEW S, NEW a \in Seq(S), NEW b \in Seq(S), NEW c \in Seq(S),
           NEW d \in Seq(S), NEW e \in Seq(S), NEW kind, NEW x
    PROVE  Times(a \o b \o c \o d \o e, kind, x)
             = Times(a, kind, x) + Times(b, kind, x) + Times(c, kind, x)
               + Times(d, kind, x) + Times(e, kind, x)
<1>1. PICK p \in Seq(S) : p = a \o b BY ConcatIs
<1>2. PICK q \in Seq(S) : q = p \o c BY ConcatIs
<1>3. PICK r \in Seq(S) : r = q \o d BY ConcatIs
<1>4. Times(p, kind, x) = Times(a, kind, x) + Times(b, kind, x)
  BY <1>1, TimesConcat
<1>5. Times(q, kind, x) = Times(p, kind, x) + Times(c, kind, x)
  BY <1>2, TimesConcat
<1>6. Times(r, kind, x) = Times(q, kind, x) + Times(d, kind, x)
  BY <1>3, TimesConcat
<1>7. Times(r \o e, kind, x) = Times(r, kind, x) + Times(e, kind, x)
  BY TimesConcat
<1>8. r \o e = a \o b \o c \o d \o e BY <1>1, <1>2, <1>3
<1> QED BY <1>4, <1>5, <1>6, <1>7, <1>8

\* Two sequences of short acknowledges make a third.
LEMMA ShortConcat ==
    ASSUME NEW S, NEW s \in Seq(S), NEW t \in Seq(S), Short(s), Short(t)
    PROVE  Short(s \o t)
<1>0. PICK u \in Seq(S) : u = s \o t BY ConcatProperties
<1>1. SeqSet(u) = SeqSet(s) \cup SeqSet(t) BY <1>0, ConcatSet
<1>2. ASSUME NEW k \in DOMAIN u, u[k].k \in {"ack_buf", "ack_id"}
      PROVE  Len(u[k].of) <= AckPer + IdPer
  <2>1. u[k] \in SeqSet(s) \cup SeqSet(t) BY <1>1, <1>2 DEF SeqSet
  <2> QED BY <1>2, <2>1 DEF SeqSet, Short
<1> QED BY <1>0, <1>2 DEF Short

\* What Batches makes of a queue of acknowledges
Batched(S, q, per, room, kind, other, b) ==
    /\ b \in Seq([k : {kind}, of : Seq(S)]) /\ Len(b) \in 0..room
    /\ \A x : /\ Times(b, kind, x) + Cnt(Rest(q, per, room), {x}) = Cnt(q, {x})
              /\ Times(b, other, x) = 0
    /\ Short(b)
    /\ Len(b) = room \/ Rest(q, per, room) = <<>>

\* What goes out in messages of its kind is what the list loses.
LEMMA BatchTimes ==
    ASSUME NEW S, NEW q \in Seq(S), NEW per \in Nat \ {0}, NEW room \in Nat,
           NEW kind \in {"ack_buf", "ack_id"}, NEW other \in {"ack_buf", "ack_id"},
           other # kind, per <= AckPer + IdPer,
           NEW b, b = Batches(kind, q, per, room)
    PROVE  Batched(S, q, per, room, kind, other, b)
<1>1. b \in Seq([k : {kind}, of : Seq(S)]) /\ Len(b) \in 0..room BY BatchesAre
<1>2. \A k \in DOMAIN b : b[k] \in [k : {kind}, of : Seq(S)]
  <2>1. PICK T : T = [k : {kind}, of : Seq(S)] OBVIOUS
  <2>2. PICK c \in Seq(T) : c = b BY <1>1, <2>1
  <2>3. \A k \in DOMAIN c : c[k] \in T BY ElementOfSeq
  <2> QED BY <2>1, <2>2, <2>3
<1>3. ASSUME NEW x
      PROVE  /\ Times(b, kind, x) + Cnt(Rest(q, per, room), {x}) = Cnt(q, {x})
             /\ \A j \in DOMAIN b : Len(b[j].of) <= per
             /\ Len(b) = room \/ Rest(q, per, room) = <<>>
  BY TimesBatches
<1>4. ASSUME NEW x PROVE Times(b, other, x) = 0
  <2>1. \A k \in DOMAIN b : b[k].k # other BY <1>2
  <2> QED BY <2>1, TimesNone
<1>5. Short(b)
  <2>1. ASSUME NEW j \in DOMAIN b PROVE Len(b[j].of) <= AckPer + IdPer
    <3>1. Len(b[j].of) <= per BY <1>3
    <3>2. PICK r \in [k : {kind}, of : Seq(S)] : r = b[j] BY <1>2
    <3>3. Len(r.of) \in Nat /\ AckPer + IdPer \in Nat BY VidiAssumption
    <3> QED BY <3>1, <3>2, <3>3
  <2> QED BY <2>1 DEF Short
<1> QED BY <1>1, <1>3, <1>4, <1>5 DEF Batched

\* What vidi_host_pr_out acknowledges leaves the two queues, and something is
\* left of the second only if the ring is full.
LEMMA OutAcks ==
    ASSUME Types, Locals, OutSystem
    PROVE  \E out \in Seq(SysType) :
             /\ reqRing' = reqRing \o out /\ Short(out)
             /\ \A x : /\ Times(out, "ack_id", x) + Cnt(idAck', {x})
                            = Cnt(idAck, {x})
                       /\ Times(out, "ack_buf", x) + Cnt(bufAck', {x})
                            = Cnt(bufAck, {x})
             /\ ReadyCount' # 0 => idAck' = <<>>
<1> DEFINE stop  == If(stopFlag, [k |-> "stop"])
           room1 == ReqMax - pend - Len(stop)
           ack   == If(nrInd > 1 /\ room1 > 0, [k |-> "ack_ind", n |-> nrInd])
           room2 == room1 - Len(ack)
           want  == IF stopFlag THEN 0 ELSE timer
           tmr   == If(want # 0 /\ room2 > 0, [k |-> "timer", on |-> want = 1])
           room3 == room2 - Len(tmr)
           bufs  == Batches("ack_buf", bufAck, AckPer, room3)
           room4 == room3 - Len(bufs)
           ids   == Batches("ack_id", idAck, IdPer, room4)
           out   == stop \o ack \o tmr \o bufs \o ids
<1>1. /\ reqRing' = reqRing \o out
      /\ ReadyCount' = ReqMax - pend - Len(out)
      /\ bufAck' = Rest(bufAck, AckPer, room3)
      /\ idAck' = Rest(idAck, IdPer, room4)
      /\ pend < ReqMax
  BY DEF OutSystem
<1>2. /\ pend \in Nat /\ ReqMax \in Nat /\ nrInd \in Nat /\ stopFlag \in BOOLEAN
      /\ timer \in 0..2 /\ bufAck \in Seq(RxBuf) /\ idAck \in Seq(Ids)
      /\ AckPer \in Nat \ {0} /\ IdPer \in Nat \ {0}
  BY VidiAssumption DEF Types, TypeOK
<1>3. PICK s \in Seq(SysType) : /\ s = stop /\ Len(s) \in {0, 1}
                                /\ \A k \in DOMAIN s : s[k].k = "stop"
  <2>1. [k |-> "stop"] \in SysType BY DEF SysType
  <2>2. PICK m : m = [k |-> "stop"] OBVIOUS
  <2>3. stop \in Seq(SysType) /\ Len(stop) \in {0, 1}
        /\ stop = (IF stopFlag THEN <<m>> ELSE <<>>)
        /\ DOMAIN stop = IF stopFlag THEN {1} ELSE {}
    BY <1>2, <2>1, <2>2, IfIs
  <2>4. \A k \in DOMAIN stop : stop[k] = m BY <2>3
  <2> QED BY <2>2, <2>3, <2>4
<1>4. PICK r1 \in Nat : r1 = room1 /\ r1 = ReqMax - pend - Len(s)
  <2>1. PICK p \in Nat, R \in Nat : p = pend /\ R = ReqMax BY <1>2
  <2>2. PICK l \in {0, 1} : l = Len(s) BY <1>3
  <2>3. p < R BY <1>1, <2>1
  <2>4. R - p - l \in Nat BY <2>3
  <2> QED BY <1>3, <2>1, <2>2, <2>4
<1>5. PICK a \in Seq(SysType) : /\ a = ack /\ Len(a) \in {0, 1}
                                /\ Len(a) = 1 => r1 > 0
                                /\ \A k \in DOMAIN a : a[k].k = "ack_ind"
  <2>1. PICK m : m = [k |-> "ack_ind", n |-> nrInd] OBVIOUS
  <2>2. m \in SysType /\ m.k = "ack_ind" BY <1>2, <2>1 DEF SysType
  <2>3. PICK c \in BOOLEAN : c = (nrInd > 1 /\ room1 > 0) OBVIOUS
  <2>4. c => r1 > 0 BY <1>4, <2>3
  <2>5. PICK v : v = If(c, m) OBVIOUS
  <2>6. v = ack BY <2>1, <2>3, <2>5
  <2>7. v \in Seq(SysType) /\ Len(v) = (IF c THEN 1 ELSE 0)
        /\ v = (IF c THEN <<m>> ELSE <<>>)
        /\ DOMAIN v = IF c THEN {1} ELSE {}
    BY <2>2, <2>5, IfIs
  <2>8. \A k \in DOMAIN v : v[k] = m BY <2>7
  <2>9. Len(v) \in {0, 1} /\ (Len(v) = 1 => r1 > 0) BY <2>4, <2>7
  <2>10. \A k \in DOMAIN v : v[k].k = "ack_ind" BY <2>2, <2>8
  <2> HIDE DEF ack
  <2> QED BY <2>6, <2>7, <2>9, <2>10
<1>6. PICK r2 \in Nat : r2 = room2 /\ r2 = r1 - Len(a)
  <2>0. PICK l \in {0, 1} : l = Len(a) /\ (l = 1 => r1 > 0) BY <1>5
  <2>1. r1 - l \in Nat BY <2>0
  <2> HIDE DEF room1, ack
  <2> QED BY <1>4, <1>5, <2>0, <2>1
<1>7. PICK t \in Seq(SysType) : /\ t = tmr /\ Len(t) \in {0, 1}
                                /\ Len(t) = 1 => r2 > 0
                                /\ \A k \in DOMAIN t : t[k].k = "timer"
  <2>1. PICK w : w = want OBVIOUS
  <2>2. PICK m : m = [k |-> "timer", on |-> w = 1] OBVIOUS
  <2>3. m \in SysType /\ m.k = "timer" BY <2>2 DEF SysType
  <2>4. PICK c \in BOOLEAN : c = (w # 0 /\ room2 > 0) OBVIOUS
  <2>5. c => r2 > 0 BY <1>6, <2>4
  <2>6. PICK v : v = If(c, m) OBVIOUS
  <2>7. v = tmr BY <2>1, <2>2, <2>4, <2>6
  <2>8. v \in Seq(SysType) /\ Len(v) = (IF c THEN 1 ELSE 0)
        /\ v = (IF c THEN <<m>> ELSE <<>>)
        /\ DOMAIN v = IF c THEN {1} ELSE {}
    BY <2>3, <2>6, IfIs
  <2>9. \A k \in DOMAIN v : v[k] = m BY <2>8
  <2>10. Len(v) \in {0, 1} /\ (Len(v) = 1 => r2 > 0) BY <2>5, <2>8
  <2>11. \A k \in DOMAIN v : v[k].k = "timer" BY <2>3, <2>9
  <2> HIDE DEF tmr
  <2> QED BY <2>7, <2>8, <2>10, <2>11
<1>8. PICK r3 \in Nat : r3 = room3 /\ r3 = r2 - Len(t)
  <2>0. PICK l \in {0, 1} : l = Len(t) /\ (l = 1 => r2 > 0) BY <1>7
  <2>1. r2 - l \in Nat BY <2>0
  <2> HIDE DEF room2, tmr
  <2> QED BY <1>6, <1>7, <2>0, <2>1
<1>9. PICK b : b = bufs /\ b = Batches("ack_buf", bufAck, AckPer, r3)
  <2> HIDE DEF room3
  <2> QED BY <1>8
<1>10. AckPer <= AckPer + IdPer /\ IdPer <= AckPer + IdPer BY <1>2
<1>11. /\ b \in Seq([k : {"ack_buf"}, of : Seq(RxBuf)]) /\ Len(b) \in 0..r3
       /\ \A x : /\ Times(b, "ack_buf", x) + Cnt(Rest(bufAck, AckPer, r3), {x})
                      = Cnt(bufAck, {x})
                 /\ Times(b, "ack_id", x) = 0
       /\ Short(b)
  <2>1. PICK q \in Seq(RxBuf) : q = bufAck BY <1>2
  <2>2. b = Batches("ack_buf", q, AckPer, r3) BY <1>9, <2>1
  <2>3. "ack_id" \in {"ack_buf", "ack_id"} /\ "ack_buf" \in {"ack_buf", "ack_id"}
        /\ "ack_id" # "ack_buf"
    OBVIOUS
  <2>4. Batched(RxBuf, q, AckPer, r3, "ack_buf", "ack_id", b)
    BY <1>2, <1>10, <2>2, <2>3, BatchTimes
  <2> QED BY <2>1, <2>4 DEF Batched
<1>12. PICK r4 \in Nat : r4 = room4 /\ r4 = r3 - Len(b)
  <2>1. r3 - Len(b) \in Nat BY <1>11
  <2> HIDE DEF room3, bufs
  <2> QED BY <1>8, <1>9, <2>1
<1>13. PICK i : i = ids /\ i = Batches("ack_id", idAck, IdPer, r4)
  <2> HIDE DEF room4
  <2> QED BY <1>12
<1>14. /\ i \in Seq([k : {"ack_id"}, of : Seq(Ids)]) /\ Len(i) \in 0..r4
       /\ \A x : /\ Times(i, "ack_id", x) + Cnt(Rest(idAck, IdPer, r4), {x})
                      = Cnt(idAck, {x})
                 /\ Times(i, "ack_buf", x) = 0
       /\ Short(i)
       /\ Len(i) = r4 \/ Rest(idAck, IdPer, r4) = <<>>
  <2>1. PICK q \in Seq(Ids) : q = idAck BY <1>2
  <2>2. i = Batches("ack_id", q, IdPer, r4) BY <1>13, <2>1
  <2>3. "ack_id" \in {"ack_buf", "ack_id"} /\ "ack_buf" \in {"ack_buf", "ack_id"}
        /\ "ack_id" # "ack_buf"
    OBVIOUS
  <2>4. Batched(Ids, q, IdPer, r4, "ack_id", "ack_buf", i)
    BY <1>2, <1>10, <2>2, <2>3, BatchTimes
  <2> QED BY <2>1, <2>4 DEF Batched
<1>15. bufAck' = Rest(bufAck, AckPer, r3) /\ idAck' = Rest(idAck, IdPer, r4)
  <2> HIDE DEF room3, room4
  <2> QED BY <1>1, <1>8, <1>12
<1> HIDE DEF stop, ack, tmr, bufs, ids, want, room1, room2, room3, room4
<1>16. b \in Seq(SysType) /\ i \in Seq(SysType)
  <2>1. /\ [k : {"ack_buf"}, of : Seq(RxBuf)] \subseteq SysType
        /\ [k : {"ack_id"}, of : Seq(Ids)] \subseteq SysType
    BY DEF SysType
  <2> QED BY <1>11, <1>14, <2>1, SeqMonotonic
<1>17. out = s \o a \o t \o b \o i BY <1>3, <1>5, <1>7, <1>9, <1>13
<1> HIDE DEF out
<1>18. PICK o \in Seq(SysType) : o = s \o a \o t \o b \o i
  <2>1. s \o a \o t \o b \o i \in Seq(SysType) BY <1>16, ConcatProperties
  <2> QED BY <2>1
<1>19. Len(o) = Len(s) + Len(a) + Len(t) + Len(b) + Len(i)
  <2>1. \A m \in SysType : Amount(m, "ack_ind") \in Nat BY Amounts
  <2>2. PICK pb \in Seq(SysType), pi \in Seq(SysType) : pb = b /\ pi = i
    BY <1>16
  <2>3. Len(s \o a \o t \o pb \o pi)
          = Len(s) + Len(a) + Len(t) + Len(pb) + Len(pi)
    BY <2>1, FiveParts
  <2> QED BY <1>18, <2>2, <2>3
<1>20. ASSUME NEW kind, NEW x
       PROVE  Times(o, kind, x) = Times(s, kind, x) + Times(a, kind, x)
                + Times(t, kind, x) + Times(b, kind, x) + Times(i, kind, x)
  <2>1. PICK pb \in Seq(SysType), pi \in Seq(SysType) : pb = b /\ pi = i
    BY <1>16
  <2>2. Times(s \o a \o t \o pb \o pi, kind, x)
          = Times(s, kind, x) + Times(a, kind, x)
            + Times(t, kind, x) + Times(pb, kind, x) + Times(pi, kind, x)
    BY FiveTimes
  <2> QED BY <1>18, <2>1, <2>2
<1>21. ASSUME NEW x, NEW kind \in {"ack_id", "ack_buf"}
       PROVE  Times(s, kind, x) = 0 /\ Times(a, kind, x) = 0
              /\ Times(t, kind, x) = 0
  <2>1. /\ \A k \in DOMAIN s : s[k].k # kind
        /\ \A k \in DOMAIN a : a[k].k # kind
        /\ \A k \in DOMAIN t : t[k].k # kind
    BY <1>3, <1>5, <1>7
  <2> QED BY <2>1, TimesNone
<1>22. ASSUME NEW x
       PROVE  /\ Times(o, "ack_id", x) + Cnt(idAck', {x}) = Cnt(idAck, {x})
              /\ Times(o, "ack_buf", x) + Cnt(bufAck', {x}) = Cnt(bufAck, {x})
  <2>1. /\ Times(i, "ack_id", x) \in Nat /\ Times(b, "ack_buf", x) \in Nat
        /\ Times(i, "ack_buf", x) = 0 /\ Times(b, "ack_id", x) = 0
    BY <1>11, <1>14, <1>16, NamesAre
  <2>2. /\ Times(o, "ack_id", x) = Times(i, "ack_id", x)
        /\ Times(o, "ack_buf", x) = Times(b, "ack_buf", x)
    BY <1>20, <1>21, <2>1
  <2> QED BY <1>11, <1>14, <1>15, <2>2
<1>23. Short(o)
  <2>1. Short(s) /\ Short(a) /\ Short(t) BY <1>3, <1>5, <1>7 DEF Short
  <2>2. PICK p \in Seq(SysType) : p = s \o a BY ConcatIs
  <2>3. PICK q \in Seq(SysType) : q = p \o t BY ConcatIs
  <2>4. PICK pb \in Seq(SysType), pi \in Seq(SysType) : pb = b /\ pi = i
    BY <1>16
  <2>5. PICK r \in Seq(SysType) : r = q \o pb BY ConcatIs
  <2>6. Short(p) BY <2>1, <2>2, ShortConcat
  <2>7. Short(q) BY <2>1, <2>3, <2>6, ShortConcat
  <2>8. Short(r) BY <1>11, <2>4, <2>5, <2>7, ShortConcat
  <2>9. Short(r \o pi) BY <1>14, <2>4, <2>8, ShortConcat
  <2>10. o = r \o pi BY <1>18, <2>2, <2>3, <2>4, <2>5
  <2> QED BY <2>9, <2>10
<1>24. reqRing' = reqRing \o o /\ ReadyCount' = ReqMax - pend - Len(o)
  BY <1>1, <1>17, <1>18
     DEF out, stop, ack, tmr, bufs, ids, want, room1, room2, room3, room4
<1>25. ReadyCount' # 0 => idAck' = <<>>
  <2>1. PICK p \in Nat, R \in Nat : p = pend /\ R = ReqMax BY <1>2
  <2>2. PICK ls \in Nat, la \in Nat, lt \in Nat, lb \in Nat, li \in Nat :
          /\ ls = Len(s) /\ la = Len(a) /\ lt = Len(t) /\ lb = Len(b)
          /\ li = Len(i)
    <3>1. Len(s) \in Nat /\ Len(a) \in Nat /\ Len(t) \in Nat OBVIOUS
    <3>2. Len(b) \in Nat /\ Len(i) \in Nat BY <1>16
    <3> QED BY <3>1, <3>2
  <2>3. Len(o) = ls + la + lt + lb + li BY <1>19, <2>2
  <2>4. r4 = R - p - ls - la - lt - lb
    BY <1>4, <1>6, <1>8, <1>12, <2>1, <2>2
  <2>5. ReadyCount' = r4 - li BY <1>24, <2>1, <2>3, <2>4
  <2>6. ReadyCount' # 0 => Len(i) # r4 BY <2>2, <2>5
  <2> QED BY <1>14, <1>15, <2>6
<1> QED BY <1>18, <1>22, <1>23, <1>24, <1>25

\* A list of the positions P and one of others: each message of s that is in X
\* shows in one of the two.
LEMMA Moved ==
    ASSUME NEW n, NEW s, DOMAIN s = 1..n, NEW X,
           NEW P, NEW g, NEW f, Listed(n, P, g, f),
           Within(P, g, X) = Within(P, s, X),
           NEW T, NEW h, NEW Y, NEW t, Listed(n, T, h, t),
           Within(T, h, Y) = Within((1..n) \ P, s, X)
    PROVE  /\ Cnt(f, X) + Cnt(t, Y) = Cnt(s, X)
           /\ Cnt(f, X) \in Nat /\ Cnt(t, Y) \in Nat
<1>0. n \in Nat /\ P \in SUBSET (1..n) BY DEF Listed
<1> DEFINE A == {k \in P : s[k] \in X}
           B == {k \in (1..n) \ P : s[k] \in X}
<1>1. Cnt(f, X) = Cardinality(A)
  <2>1. Cnt(f, X) = Cardinality(Within(P, g, X)) BY CntListed
  <2> QED BY <2>1 DEF Within
<1>2. Cnt(t, Y) = Cardinality(B)
  <2>1. Cnt(t, Y) = Cardinality(Within(T, h, Y)) BY CntListed
  <2> QED BY <2>1 DEF Within
<1>3. Pos(s, X) = A \cup B BY <1>0 DEF Pos
<1>4. A \cap B = {} OBVIOUS
<1>5. IsFiniteSet(A) /\ IsFiniteSet(B)
  <2>1. IsFiniteSet(1..n) BY <1>0, FS_Interval
  <2>2. A \subseteq 1..n /\ B \subseteq 1..n BY <1>0
  <2> HIDE DEF A, B
  <2> QED BY <2>1, <2>2, FS_Subset
<1> HIDE DEF A, B
<1>6. /\ Cardinality(A) \in Nat /\ Cardinality(B) \in Nat
      /\ Cardinality(A \cup B) = Cardinality(A) + Cardinality(B)
  BY <1>4, <1>5, TwoParts
<1> QED BY <1>1, <1>2, <1>3, <1>6 DEF Cnt

\* The indications about the Id d for e, those with the buffer b; the entries
\* of the RNR queue about d, those that keep b
IndOf(d, e) == {m \in RingType : m.k = "ind" /\ m.Id = d /\ m.own = e}
BufOf(b) == {m \in RingType : m.k = "ind" /\ m.buf = b}
RnrOf(d) == {h \in REntry : h.Id = d}
RxOf(b) == {h \in REntry : h.keep = "rx" /\ h.buf = b}

\* What diva_process_rnr_ind takes from the queue is acknowledged.
LEMMA ProcessCounts ==
    ASSUME Kept, NEW d, NEW a, ProcessRnr(d, a)
    PROVE  /\ \A b : Cnt(bufAck', {b}) + Cnt(rnrq', RxOf(b))
                       = Cnt(bufAck, {b}) + Cnt(rnrq, RxOf(b))
           /\ (\A k \in DOMAIN rnrq : IdTable[rnrq[k].Id] # Null) =>
                \A i : Cnt(idAck', {i}) + Cnt(rnrq', RnrOf(i))
                         = Cnt(idAck, {i}) + Cnt(rnrq, RnrOf(i))
           /\ \A k \in DOMAIN rnrq' : \E j \in DOMAIN rnrq :
                rnrq'[k].Id = rnrq[j].Id /\ rnrq'[k].own = rnrq[j].own
<1> DEFINE Asked(k) == d = 0 \/ rnrq[k].Id = d
           Kn(k) == IdTable[rnrq[k].Id] # Null
           Later(k) == IdTable[rnrq[k].Id] \in DSIG /\ rnrq[k].ctr + 1 < RnrTicks
           Stays(k) == \/ ~Asked(k)
                       \/ Kn(k) /\ (Later(k) \/ a[k] = "rnr")
           After(k) == IF ~Asked(k) THEN rnrq[k]
                       ELSE IF Later(k) THEN [rnrq[k] EXCEPT !.ctr = @ + 1]
                       ELSE [rnrq[k] EXCEPT !.ctr = 0]
           S == {k \in DOMAIN rnrq : Stays(k)}
           T == {k \in DOMAIN rnrq : ~Stays(k) /\ Kn(k)}
           K == {k \in DOMAIN rnrq : ~Stays(k) /\ rnrq[k].keep = "rx"}
           g == [k \in DOMAIN rnrq |-> After(k)]
           ids == [k \in DOMAIN rnrq |-> rnrq[k].Id]
           bufs == [k \in DOMAIN rnrq |-> rnrq[k].buf]
<1>1. PICK q \in Seq(REntry) : q = rnrq BY DEF Kept
<1>2. PICK n \in Nat : n = Len(rnrq) /\ DOMAIN rnrq = 1..n BY RnrTypes
<1>3. S \in SUBSET (1..n) /\ T \in SUBSET (1..n) /\ K \in SUBSET (1..n)
      /\ T \cap S = {} /\ K \cap S = {}
  BY <1>2
<1>4. ASSUME NEW k \in 1..n
      PROVE  /\ After(k) \in REntry
             /\ After(k).Id = rnrq[k].Id /\ After(k).own = rnrq[k].own
             /\ After(k).keep = rnrq[k].keep /\ After(k).buf = rnrq[k].buf
  <2>1. PICK h \in REntry : h = rnrq[k] BY <1>2, RnrTypes
  <2>2. RnrTicks \in Nat BY VidiAssumption
  <2>3. h.ctr \in 0..RnrTicks BY DEF REntry
  <2>4. \A c \in 0..RnrTicks :
          /\ [h EXCEPT !.ctr = c] \in REntry
          /\ [h EXCEPT !.ctr = c].Id = h.Id /\ [h EXCEPT !.ctr = c].own = h.own
          /\ [h EXCEPT !.ctr = c].keep = h.keep
          /\ [h EXCEPT !.ctr = c].buf = h.buf
    BY DEF REntry
  <2>5. Later(k) => h.ctr + 1 \in 0..RnrTicks BY <2>1, <2>2, <2>3
  <2>6. 0 \in 0..RnrTicks BY <2>2
  <2>7. \/ After(k) = h \/ After(k) = [h EXCEPT !.ctr = 0]
        \/ Later(k) /\ After(k) = [h EXCEPT !.ctr = h.ctr + 1]
    BY <2>1
  <2> HIDE DEF Asked, Later, After
  <2> QED BY <2>1, <2>4, <2>5, <2>6, <2>7
<1>5. /\ \A k \in 1..n : g[k] = After(k)
      /\ \A k \in 1..n : ids[k] = rnrq[k].Id /\ bufs[k] = rnrq[k].buf
  BY <1>2
<1>6. PICK fs, ft, fk :
        /\ fs = [k \in DOMAIN InOrder(S) |-> g[InOrder(S)[k]]]
        /\ ft = [k \in DOMAIN InOrder(T) |-> ids[InOrder(T)[k]]]
        /\ fk = [k \in DOMAIN InOrder(K) |-> bufs[InOrder(K)[k]]]
  OBVIOUS
<1>7. /\ \A k \in DOMAIN InOrder(S) : InOrder(S)[k] \in S
      /\ \A k \in DOMAIN InOrder(T) : InOrder(T)[k] \in T
      /\ \A k \in DOMAIN InOrder(K) : InOrder(K)[k] \in K
  <2>1. ASSUME NEW Z \in SUBSET (1..n), NEW k \in DOMAIN InOrder(Z)
        PROVE  InOrder(Z)[k] \in Z
    <3>1. PICK o \in Seq(Z) : o = InOrder(Z) BY InOrderIs
    <3>2. \A j \in DOMAIN o : o[j] \in Z BY ElementOfSeq
    <3> QED BY <3>1, <3>2
  <2> HIDE DEF S, T, K
  <2> QED BY <1>3, <2>1
<1>8. rnrq' = fs /\ idAck' = idAck \o ft /\ bufAck' = bufAck \o fk
  <2>1. /\ rnrq' = [k \in DOMAIN InOrder(S) |-> After(InOrder(S)[k])]
        /\ idAck' = idAck \o [k \in DOMAIN InOrder(T) |-> rnrq[InOrder(T)[k]].Id]
        /\ bufAck' = bufAck \o [k \in DOMAIN InOrder(K) |-> rnrq[InOrder(K)[k]].buf]
    BY DEF ProcessRnr, Among
  <2> HIDE DEF S, T, K, After, g, ids, bufs
  <2>2. fs = [k \in DOMAIN InOrder(S) |-> After(InOrder(S)[k])]
    <3>1. \A k \in DOMAIN InOrder(S) : InOrder(S)[k] \in 1..n BY <1>3, <1>7
    <3> QED BY <1>5, <1>6, <3>1
  <2>3. ft = [k \in DOMAIN InOrder(T) |-> rnrq[InOrder(T)[k]].Id]
    <3>1. \A k \in DOMAIN InOrder(T) : InOrder(T)[k] \in 1..n BY <1>3, <1>7
    <3> QED BY <1>5, <1>6, <3>1
  <2>4. fk = [k \in DOMAIN InOrder(K) |-> rnrq[InOrder(K)[k]].buf]
    <3>1. \A k \in DOMAIN InOrder(K) : InOrder(K)[k] \in 1..n BY <1>3, <1>7
    <3> QED BY <1>5, <1>6, <3>1
  <2> QED BY <2>1, <2>2, <2>3, <2>4
<1>9. ft \in Seq(Ids) /\ fk \in Seq(RxBuf)
  <2>1. \A k \in T : rnrq[k].Id \in Ids BY RnrTypes
  <2>2. \A k \in K : rnrq[k].buf \in RxBuf BY RnrTypes
  <2> HIDE DEF S, T, K, g, ids, bufs
  <2>3. PICK o \in Seq(T) : o = InOrder(T) BY <1>3, InOrderIs
  <2>4. \A k \in 1..Len(o) : o[k] \in T BY ElementOfSeq
  <2>5. PICK f : f = [k \in 1..Len(o) |-> ids[o[k]]] OBVIOUS
  <2>6. f \in [1..Len(o) -> Ids] BY <1>3, <1>5, <2>1, <2>4, <2>5
  <2>7. f \in Seq(Ids) BY <2>6, MadeSeq
  <2>8. ft = f BY <1>6, <2>3, <2>5
  <2>13. PICK p \in Seq(K) : p = InOrder(K) BY <1>3, InOrderIs
  <2>14. \A k \in 1..Len(p) : p[k] \in K BY ElementOfSeq
  <2>15. PICK e : e = [k \in 1..Len(p) |-> bufs[p[k]]] OBVIOUS
  <2>16. e \in [1..Len(p) -> RxBuf] BY <1>3, <1>5, <2>2, <2>14, <2>15
  <2>17. e \in Seq(RxBuf) BY <2>16, MadeSeq
  <2>18. fk = e BY <1>6, <2>13, <2>15
  <2> QED BY <2>7, <2>8, <2>17, <2>18
<1>10. ASSUME NEW x
       PROVE  /\ Cnt(idAck', {x}) = Cnt(idAck, {x}) + Cnt(ft, {x})
              /\ Cnt(bufAck', {x}) = Cnt(bufAck, {x}) + Cnt(fk, {x})
              /\ Cnt(idAck, {x}) \in Nat /\ Cnt(bufAck, {x}) \in Nat
  <2>1. PICK ia \in Seq(Ids), ba \in Seq(RxBuf) : ia = idAck /\ ba = bufAck
    BY DEF Kept
  <2>2. Cnt(ia \o ft, {x}) = Cnt(ia, {x}) + Cnt(ft, {x}) /\ Cnt(ia, {x}) \in Nat
    BY <1>9, CntConcat, CntIs
  <2>3. Cnt(ba \o fk, {x}) = Cnt(ba, {x}) + Cnt(fk, {x}) /\ Cnt(ba, {x}) \in Nat
    BY <1>9, CntConcat, CntIs
  <2> QED BY <1>8, <2>1, <2>2, <2>3
<1>11. ASSUME NEW b
       PROVE  Cnt(fs, RxOf(b)) + Cnt(fk, {b}) = Cnt(rnrq, RxOf(b))
              /\ Cnt(fs, RxOf(b)) \in Nat /\ Cnt(fk, {b}) \in Nat
  <2>1. \A k \in S : g[k] \in RxOf(b) <=> rnrq[k] \in RxOf(b)
    <3> SUFFICES ASSUME NEW k \in S
                 PROVE  g[k] \in RxOf(b) <=> rnrq[k] \in RxOf(b)
      OBVIOUS
    <3>1. k \in 1..n BY <1>3
    <3>2. rnrq[k] \in REntry BY <1>2, <3>1, RnrTypes
    <3> HIDE DEF S, g, After
    <3> QED BY <1>4, <1>5, <3>1, <3>2 DEF RxOf
  <2>2. {k \in K : bufs[k] \in {b}} = {k \in (1..n) \ S : rnrq[k] \in RxOf(b)}
    <3>1. K = {k \in (1..n) \ S : rnrq[k].keep = "rx"} BY <1>2
    <3>2. \A k \in 1..n : rnrq[k] \in REntry BY <1>2, RnrTypes
    <3> HIDE DEF K, S, bufs
    <3> QED BY <1>5, <3>1, <3>2 DEF RxOf
  <2> HIDE DEF S, K, g, bufs, Stays, After
  <2>3. Listed(n, S, g, fs) /\ Listed(n, K, bufs, fk) BY <1>3, <1>6 DEF Listed
  <2>4. Within(S, g, RxOf(b)) = Within(S, rnrq, RxOf(b)) BY <2>1 DEF Within
  <2>5. Within(K, bufs, {b}) = Within((1..n) \ S, rnrq, RxOf(b))
    BY <2>2 DEF Within
  <2> QED BY <1>2, <2>3, <2>4, <2>5, Moved
<1>12. ASSUME NEW i, \A k \in DOMAIN rnrq : IdTable[rnrq[k].Id] # Null
       PROVE  Cnt(fs, RnrOf(i)) + Cnt(ft, {i}) = Cnt(rnrq, RnrOf(i))
              /\ Cnt(fs, RnrOf(i)) \in Nat /\ Cnt(ft, {i}) \in Nat
  <2>1. \A k \in S : g[k] \in RnrOf(i) <=> rnrq[k] \in RnrOf(i)
    <3> SUFFICES ASSUME NEW k \in S
                 PROVE  g[k] \in RnrOf(i) <=> rnrq[k] \in RnrOf(i)
      OBVIOUS
    <3>1. k \in 1..n BY <1>3
    <3>2. rnrq[k] \in REntry BY <1>2, <3>1, RnrTypes
    <3> HIDE DEF S, g, After
    <3> QED BY <1>4, <1>5, <3>1, <3>2 DEF RnrOf
  <2>2. {k \in T : ids[k] \in {i}} = {k \in (1..n) \ S : rnrq[k] \in RnrOf(i)}
    <3>1. T = (1..n) \ S BY <1>2, <1>12
    <3>2. \A k \in 1..n : rnrq[k] \in REntry BY <1>2, RnrTypes
    <3> HIDE DEF T, S, ids
    <3> QED BY <1>5, <3>1, <3>2 DEF RnrOf
  <2> HIDE DEF S, T, g, ids, Stays, After
  <2>3. Listed(n, S, g, fs) /\ Listed(n, T, ids, ft) BY <1>3, <1>6 DEF Listed
  <2>4. Within(S, g, RnrOf(i)) = Within(S, rnrq, RnrOf(i)) BY <2>1 DEF Within
  <2>5. Within(T, ids, {i}) = Within((1..n) \ S, rnrq, RnrOf(i))
    BY <2>2 DEF Within
  <2> QED BY <1>2, <2>3, <2>4, <2>5, Moved
<1>13. ASSUME NEW k \in DOMAIN rnrq'
       PROVE  \E j \in DOMAIN rnrq :
                rnrq'[k].Id = rnrq[j].Id /\ rnrq'[k].own = rnrq[j].own
  <2> HIDE DEF S, g, After
  <2>1. k \in DOMAIN InOrder(S) /\ rnrq'[k] = g[InOrder(S)[k]]
    BY <1>6, <1>8, <1>13
  <2>2. InOrder(S)[k] \in 1..n BY <1>3, <1>7, <2>1
  <2> QED BY <1>2, <1>4, <1>5, <2>1, <2>2
<1> HIDE DEF S, T, K, g, ids, bufs
<1>14. ASSUME NEW b
       PROVE  Cnt(bufAck', {b}) + Cnt(rnrq', RxOf(b))
                = Cnt(bufAck, {b}) + Cnt(rnrq, RxOf(b))
  <2>1. PICK p \in Nat, q1 \in Nat, r \in Nat :
          p = Cnt(bufAck, {b}) /\ q1 = Cnt(fk, {b}) /\ r = Cnt(fs, RxOf(b))
    BY <1>10, <1>11
  <2>2. Cnt(bufAck', {b}) = p + q1 /\ r + q1 = Cnt(rnrq, RxOf(b))
    BY <1>10, <1>11, <2>1
  <2>3. Cnt(rnrq', RxOf(b)) = r BY <1>8, <2>1
  <2> QED BY <2>1, <2>2, <2>3
<1>15. ASSUME NEW i, \A k \in DOMAIN rnrq : IdTable[rnrq[k].Id] # Null
       PROVE  Cnt(idAck', {i}) + Cnt(rnrq', RnrOf(i))
                = Cnt(idAck, {i}) + Cnt(rnrq, RnrOf(i))
  <2>1. PICK p \in Nat, q1 \in Nat, r \in Nat :
          p = Cnt(idAck, {i}) /\ q1 = Cnt(ft, {i}) /\ r = Cnt(fs, RnrOf(i))
    BY <1>10, <1>12, <1>15
  <2>2. Cnt(idAck', {i}) = p + q1 /\ r + q1 = Cnt(rnrq, RnrOf(i))
    BY <1>10, <1>12, <1>15, <2>1
  <2>3. Cnt(rnrq', RnrOf(i)) = r BY <1>8, <2>1
  <2> QED BY <2>1, <2>2, <2>3
<1> QED BY <1>13, <1>14, <1>15

\* cancel_rnr_on_remove takes one entry about the Id, and acknowledges the
\* buffer that it keeps.
LEMMA CancelCounts ==
    ASSUME Kept, NEW d, CancelRnr(d)
    PROVE  /\ \A b : Cnt(bufAck', {b}) + Cnt(rnrq', RxOf(b))
                       = Cnt(bufAck, {b}) + Cnt(rnrq, RxOf(b))
           /\ \A i : i # d => Cnt(rnrq', RnrOf(i)) = Cnt(rnrq, RnrOf(i))
           /\ Cnt(rnrq, RnrOf(d)) <= 1 => Cnt(rnrq', RnrOf(d)) = 0
           /\ \A k \in DOMAIN rnrq' : \E j \in DOMAIN rnrq : rnrq'[k] = rnrq[j]
<1>1. PICK q \in Seq(REntry) : q = rnrq BY DEF Kept
<1>2. PICK ba \in Seq(RxBuf) : ba = bufAck BY DEF Kept
<1>3. \A k \in DOMAIN q : q[k] \in REntry BY <1>1, RnrTypes
<1>4. CASE WithId(d) = {}
  <2>1. rnrq' = rnrq /\ bufAck' = bufAck BY <1>4 DEF CancelRnr, rnrVars
  <2>2. Pos(q, RnrOf(d)) = {} BY <1>1, <1>3, <1>4 DEF WithId, Pos, RnrOf
  <2>3. Cnt(q, RnrOf(d)) = 0 BY <2>2, CntIs
  <2> QED BY <1>1, <2>1, <2>3
<1>5. CASE WithId(d) # {}
  <2>1. PICK k \in DOMAIN rnrq :
          /\ rnrq[k].Id = d
          /\ rnrq' = SubSeq(rnrq, 1, k - 1) \o SubSeq(rnrq, k + 1, Len(rnrq))
          /\ FreeEntry(rnrq[k])
    BY <1>5 DEF CancelRnr, WithId
  <2>2. k \in DOMAIN q BY <1>1, <2>1
  <2>3. PICK h \in REntry : h = q[k] BY <1>3, <2>2
  <2>4. PICK r \in Seq(REntry) :
          /\ r = SubSeq(q, 1, k - 1) \o SubSeq(q, k + 1, Len(q))
          /\ \A j \in DOMAIN r : \E i \in DOMAIN q : r[j] = q[i]
    <3>1. LET t == SubSeq(q, 1, k - 1) \o SubSeq(q, k + 1, Len(q)) IN
          /\ t \in Seq(REntry) /\ Len(t) = Len(q) - 1
          /\ \A j \in DOMAIN t : \E i \in DOMAIN q : t[j] = q[i]
      BY <2>2, LessIs
    <3> QED BY <3>1
  <2>5. rnrq' = r BY <1>1, <2>1, <2>4
  <2>6. ASSUME NEW X
        PROVE  /\ Cnt(q, X) = Cnt(r, X) + (IF h \in X THEN 1 ELSE 0)
               /\ Cnt(q, X) \in Nat /\ Cnt(r, X) \in Nat
    <3>1. Cnt(q, X) = Cnt(SubSeq(q, 1, k - 1) \o SubSeq(q, k + 1, Len(q)), X)
                        + (IF q[k] \in X THEN 1 ELSE 0)
      BY <2>2, CntLess
    <3>2. Cnt(q, X) \in Nat /\ Cnt(r, X) \in Nat BY CntIs
    <3> QED BY <2>3, <2>4, <3>1, <3>2
  <2>7. ASSUME NEW b
        PROVE  Cnt(bufAck', {b}) + Cnt(rnrq', RxOf(b))
                 = Cnt(bufAck, {b}) + Cnt(rnrq, RxOf(b))
    <3>1. bufAck' = ba \o KeptBuffer(h)
      BY <1>1, <1>2, <2>1, <2>3 DEF FreeEntry
    <3>2. PICK x \in Nat, y \in Nat : x = Cnt(ba, {b}) /\ y = Cnt(r, RxOf(b))
      BY <2>6, CntIs
    <3>3. h \in RxOf(b) <=> h.keep = "rx" /\ h.buf = b BY DEF RxOf
    <3>4. CASE h.keep = "rx"
      <4>1. h.buf \in RxBuf BY <1>1, <2>1, <2>3, <3>4, RnrTypes
      <4>2. PICK t \in Seq(RxBuf) : t = <<h.buf>>
        <5>1. PICK x1 \in RxBuf : x1 = h.buf BY <4>1
        <5>2. <<x1>> \in Seq(RxBuf) OBVIOUS
        <5> QED BY <5>1, <5>2
      <4>3. Cnt(ba \o t, {b}) = Cnt(ba, {b}) + Cnt(t, {b}) BY CntConcat
      <4>4. Cnt(t, {b}) = IF h.buf = b THEN 1 ELSE 0 BY <4>2, CntOne
      <4>5. bufAck' = ba \o t BY <3>1, <3>4, <4>2 DEF KeptBuffer
      <4>6. PICK z \in {0, 1} : z = IF h.buf = b THEN 1 ELSE 0 OBVIOUS
      <4>7. Cnt(q, RxOf(b)) = y + z BY <2>6, <3>2, <3>3, <3>4, <4>6
      <4>8. Cnt(bufAck', {b}) = x + z BY <3>2, <4>3, <4>4, <4>5, <4>6
      <4>9. (x + z) + y = x + (y + z) OBVIOUS
      <4> QED BY <1>1, <1>2, <2>5, <3>2, <4>7, <4>8, <4>9
    <3>5. CASE h.keep # "rx"
      <4>1. bufAck' = ba
        <5>1. KeptBuffer(h) = <<>> BY <3>5 DEF KeptBuffer
        <5> QED BY <3>1, <5>1
      <4>2. Cnt(q, RxOf(b)) = y BY <2>6, <3>2, <3>3, <3>5
      <4> QED BY <1>1, <1>2, <2>5, <3>2, <4>1, <4>2
    <3> QED BY <3>4, <3>5
  <2>8. h.Id = d BY <1>1, <2>1, <2>3
  <2>9. ASSUME NEW i, i # d PROVE Cnt(rnrq', RnrOf(i)) = Cnt(rnrq, RnrOf(i))
    <3>1. h \notin RnrOf(i) BY <2>8, <2>9 DEF RnrOf
    <3> QED BY <1>1, <2>5, <2>6, <3>1
  <2>10. ASSUME Cnt(rnrq, RnrOf(d)) <= 1 PROVE Cnt(rnrq', RnrOf(d)) = 0
    <3>1. h \in RnrOf(d) BY <2>8 DEF RnrOf
    <3>2. PICK y \in Nat : y = Cnt(r, RnrOf(d)) BY <2>6
    <3>3. Cnt(q, RnrOf(d)) = y + 1 BY <2>6, <3>1, <3>2
    <3>4. Cnt(q, RnrOf(d)) <= 1 BY <1>1, <2>10
    <3>5. y + 1 <= 1 => y = 0 OBVIOUS
    <3>6. y = 0 BY ONLY <3>3, <3>4, <3>5
    <3> QED BY <2>5, <3>2, <3>6
  <2>11. \A i \in DOMAIN rnrq' : \E j \in DOMAIN rnrq : rnrq'[i] = rnrq[j]
    <3>1. \A j \in DOMAIN r : \E i \in DOMAIN q : r[j] = q[i] BY <2>4
    <3>2. rnrq' = r /\ rnrq = q BY <1>1, <2>5
    <3> QED BY ONLY <3>1, <3>2
  <2> QED BY <2>7, <2>9, <2>10, <2>11
<1> QED BY <1>4, <1>5

\* What an indication brings
IndFields(m) ==
    /\ m.Id \in Ids /\ m.own \in Entity /\ m.buf \in RxBuf \cup {0}
    /\ m.big \in BOOLEAN /\ (m.big => m.buf # 0)

\* One acknowledge more, if the indication has a buffer
LEMMA BufCounts ==
    ASSUME Kept, NEW m, IndFields(m), AckBuf(m), NEW b \in RxBuf
    PROVE  /\ Cnt(bufAck', {b}) = Cnt(bufAck, {b}) + (IF m.buf = b THEN 1 ELSE 0)
           /\ Cnt(bufAck, {b}) \in Nat
<1>1. PICK ba \in Seq(RxBuf) : ba = bufAck BY DEF Kept
<1>2. Cnt(ba, {b}) \in Nat BY CntIs
<1>3. CASE m.buf # 0
  <2>1. PICK x \in RxBuf : x = m.buf BY <1>3 DEF IndFields
  <2>2. Cnt(Append(ba, x), {b}) = Cnt(ba, {b}) + (IF x \in {b} THEN 1 ELSE 0)
    BY CntAppend
  <2>3. bufAck' = Append(ba, x) BY <1>1, <1>3, <2>1 DEF AckBuf
  <2> QED BY <1>1, <1>2, <2>1, <2>2, <2>3
<1>4. CASE m.buf = 0
  <2>1. bufAck' = bufAck BY <1>4 DEF AckBuf
  <2>2. m.buf # b BY <1>4, VidiAssumption
  <2> QED BY <1>1, <1>2, <2>1, <2>2
<1> QED BY <1>3, <1>4

\* One acknowledge more of an Id
LEMMA IdCounts ==
    ASSUME Kept, NEW d \in Ids, idAck' = Append(idAck, d), NEW i
    PROVE  /\ Cnt(idAck', {i}) = Cnt(idAck, {i}) + (IF d = i THEN 1 ELSE 0)
           /\ Cnt(idAck, {i}) \in Nat
<1>1. PICK ia \in Seq(Ids) : ia = idAck BY DEF Kept
<1>2. Cnt(ia, {i}) \in Nat BY CntIs
<1>3. Cnt(Append(ia, d), {i}) = Cnt(ia, {i}) + (IF d \in {i} THEN 1 ELSE 0)
  BY CntAppend
<1> QED BY <1>1, <1>2, <1>3

\* vidi_save_rnr_ind: the indication is kept or, without a header, acknowledged;
\* its buffer is kept with it or acknowledged.
LEMMA SaveCounts ==
    ASSUME Kept, NEW m, IndFields(m), SaveRnr(m)
    PROVE  /\ \A b \in RxBuf :
                Cnt(bufAck', {b}) + Cnt(rnrq', RxOf(b))
                  = Cnt(bufAck, {b}) + Cnt(rnrq, RxOf(b))
                    + (IF m.buf = b THEN 1 ELSE 0)
           /\ \A i : /\ Cnt(idAck', {i}) + Cnt(rnrq', RnrOf(i))
                          = Cnt(idAck, {i}) + Cnt(rnrq, RnrOf(i))
                            + (IF m.Id = i THEN 1 ELSE 0)
                     /\ i # m.Id => Cnt(idAck', {i}) = Cnt(idAck, {i})
           /\ \A k \in DOMAIN rnrq' :
                \/ \E j \in DOMAIN rnrq : rnrq'[k] = rnrq[j]
                \/ rnrq'[k].Id = m.Id /\ rnrq'[k].own = m.own
<1>0. Hdrs \in Nat /\ RnrTicks \in Nat /\ 0 \notin RxBuf BY VidiAssumption
<1>1. PICK q \in Seq(REntry), ia \in Seq(Ids), ba \in Seq(RxBuf) :
        q = rnrq /\ ia = idAck /\ ba = bufAck
  BY DEF Kept
<1>2. ASSUME NEW X PROVE Cnt(q, X) \in Nat /\ Cnt(ia, X) \in Nat /\ Cnt(ba, X) \in Nat
  BY CntIs
<1>3. CASE Lost(m)
  <2>1. rnrq' = rnrq BY <1>3 DEF Lost, rnrVars
  <2>2. AckBuf(m) /\ idAck' = Append(idAck, m.Id) BY <1>3 DEF Lost, AckBuf
  <2>3. \A b \in RxBuf :
          Cnt(bufAck', {b}) + Cnt(rnrq', RxOf(b))
            = Cnt(bufAck, {b}) + Cnt(rnrq, RxOf(b))
              + (IF m.buf = b THEN 1 ELSE 0)
    <3> SUFFICES ASSUME NEW b \in RxBuf
                 PROVE  Cnt(bufAck', {b}) + Cnt(rnrq', RxOf(b))
                          = Cnt(bufAck, {b}) + Cnt(rnrq, RxOf(b))
                            + (IF m.buf = b THEN 1 ELSE 0)
      OBVIOUS
    <3>1. PICK x \in Nat, y \in Nat, z \in {0, 1} :
            /\ x = Cnt(bufAck, {b}) /\ y = Cnt(rnrq, RxOf(b))
            /\ z = IF m.buf = b THEN 1 ELSE 0
      BY <1>1, <1>2
    <3>2. Cnt(bufAck', {b}) = x + z BY <2>2, <3>1, BufCounts
    <3> QED BY <2>1, <3>1, <3>2
  <2>4. ASSUME NEW i
        PROVE  /\ Cnt(idAck', {i}) + Cnt(rnrq', RnrOf(i))
                    = Cnt(idAck, {i}) + Cnt(rnrq, RnrOf(i))
                      + (IF m.Id = i THEN 1 ELSE 0)
               /\ i # m.Id => Cnt(idAck', {i}) = Cnt(idAck, {i})
    <3>1. PICK x \in Nat, y \in Nat, z \in {0, 1} :
            /\ x = Cnt(idAck, {i}) /\ y = Cnt(rnrq, RnrOf(i))
            /\ z = IF m.Id = i THEN 1 ELSE 0
      BY <1>1, <1>2
    <3>2. PICK d \in Ids : d = m.Id BY DEF IndFields
    <3>3. Cnt(idAck', {i}) = Cnt(idAck, {i}) + (IF d = i THEN 1 ELSE 0)
      BY <2>2, <3>2, IdCounts
    <3>4. Cnt(idAck', {i}) = x + z BY <3>1, <3>2, <3>3
    <3>5. Cnt(rnrq', RnrOf(i)) = y BY <2>1, <3>1
    <3>6. (x + z) + y = x + y + z OBVIOUS
    <3>7. i # m.Id => z = 0 /\ x + z = x BY <3>1
    <3> QED BY <3>1, <3>4, <3>5, <3>6, <3>7
  <2> QED BY <2>1, <2>3, <2>4
<1>4. ASSUME NEW keep \in {"local", "buf", "rx"}, SaveAs(m, keep),
             keep = "rx" => m.big
      PROVE  /\ \A b \in RxBuf :
                  Cnt(bufAck', {b}) + Cnt(rnrq', RxOf(b))
                    = Cnt(bufAck, {b}) + Cnt(rnrq, RxOf(b))
                      + (IF m.buf = b THEN 1 ELSE 0)
             /\ \A i : /\ Cnt(idAck', {i}) + Cnt(rnrq', RnrOf(i))
                            = Cnt(idAck, {i}) + Cnt(rnrq, RnrOf(i))
                              + (IF m.Id = i THEN 1 ELSE 0)
                       /\ i # m.Id => Cnt(idAck', {i}) = Cnt(idAck, {i})
             /\ \A k \in DOMAIN rnrq' :
                  \/ \E j \in DOMAIN rnrq : rnrq'[k] = rnrq[j]
                  \/ rnrq'[k].Id = m.Id /\ rnrq'[k].own = m.own
  <2>1. PICK h : h = Entry(m, keep) OBVIOUS
  <2>2. h \in REntry
    <3>1. 0 \in 0..RnrTicks BY <1>0
    <3> QED BY <2>1, <3>1 DEF Entry, REntry, IndFields
  <2>3. /\ h.Id = m.Id /\ h.own = m.own /\ h.keep = keep
        /\ h.buf = IF keep = "rx" THEN m.buf ELSE 0
    BY <2>1 DEF Entry
  <2>4. rnrq' = Append(q, h) BY <1>1, <1>4, <2>1 DEF SaveAs
  <2>5. ASSUME NEW X
        PROVE  Cnt(rnrq', X) = Cnt(q, X) + (IF h \in X THEN 1 ELSE 0)
    BY <2>2, <2>4, CntAppend
  <2>6. ASSUME NEW b \in RxBuf
        PROVE  Cnt(bufAck', {b}) + Cnt(rnrq', RxOf(b))
                 = Cnt(bufAck, {b}) + Cnt(rnrq, RxOf(b))
                   + (IF m.buf = b THEN 1 ELSE 0)
    <3>1. PICK x \in Nat, y \in Nat, z \in {0, 1} :
            /\ x = Cnt(bufAck, {b}) /\ y = Cnt(rnrq, RxOf(b))
            /\ z = IF m.buf = b THEN 1 ELSE 0
      BY <1>1, <1>2
    <3>2. h \in RxOf(b) <=> keep = "rx" /\ m.buf = b
      BY <1>0, <2>2, <2>3 DEF RxOf
    <3>3. CASE keep = "rx"
      <4>1. bufAck' = bufAck BY <1>4, <3>3 DEF SaveAs
      <4>2. Cnt(rnrq', RxOf(b)) = y + z
        BY <1>1, <2>5, <3>1, <3>2, <3>3
      <4>3. x + (y + z) = x + y + z OBVIOUS
      <4> QED BY <3>1, <4>1, <4>2, <4>3
    <3>4. CASE keep # "rx"
      <4>1. AckBuf(m) BY <1>4, <3>4 DEF SaveAs, AckBuf
      <4>2. Cnt(bufAck', {b}) = x + z BY <3>1, <4>1, BufCounts
      <4>3. Cnt(rnrq', RxOf(b)) = y
        BY <1>1, <2>5, <3>1, <3>2, <3>4
      <4>4. (x + z) + y = x + y + z OBVIOUS
      <4> QED BY <3>1, <4>2, <4>3, <4>4
    <3> QED BY <3>3, <3>4
  <2>7. ASSUME NEW i
        PROVE  /\ Cnt(idAck', {i}) + Cnt(rnrq', RnrOf(i))
                    = Cnt(idAck, {i}) + Cnt(rnrq, RnrOf(i))
                      + (IF m.Id = i THEN 1 ELSE 0)
               /\ i # m.Id => Cnt(idAck', {i}) = Cnt(idAck, {i})
    <3>1. PICK x \in Nat, y \in Nat, z \in {0, 1} :
            /\ x = Cnt(idAck, {i}) /\ y = Cnt(rnrq, RnrOf(i))
            /\ z = IF m.Id = i THEN 1 ELSE 0
      BY <1>1, <1>2
    <3>2. idAck' = idAck BY <1>4 DEF SaveAs
    <3>3. h \in RnrOf(i) <=> m.Id = i BY <2>2, <2>3 DEF RnrOf
    <3>4. Cnt(rnrq', RnrOf(i)) = y + z BY <1>1, <2>5, <3>1, <3>3
    <3>5. x + (y + z) = x + y + z OBVIOUS
    <3> QED BY <3>1, <3>2, <3>4, <3>5
  <2>8. ASSUME NEW k \in DOMAIN rnrq'
        PROVE  \/ \E j \in DOMAIN rnrq : rnrq'[k] = rnrq[j]
               \/ rnrq'[k].Id = m.Id /\ rnrq'[k].own = m.own
    <3>1. PICK n \in Nat :
            /\ n = Len(q) /\ DOMAIN q = 1..n /\ DOMAIN rnrq' = 1..(n + 1)
            /\ \A j \in 1..n : rnrq'[j] = q[j]
            /\ rnrq'[n + 1] = h
      BY <2>2, <2>4, AppendIs
    <3>2. k \in 1..n \/ k = n + 1 BY <2>8, <3>1
    <3> QED BY <1>1, <2>3, <3>1, <3>2
  <2> QED BY <2>6, <2>7, <2>8
<1>5. Lost(m) \/ \E keep \in {"local", "buf", "rx"} :
                   SaveAs(m, keep) /\ (keep = "rx" => m.big)
  BY DEF SaveRnr
<1> QED BY <1>3, <1>4, <1>5

\* A message leaves the indication ring at its head, or comes at its end.
LEMMA HeadCounts ==
    ASSUME Types, Locals, NEW k, NEW m, Dispatch(k, m), NEW X
    PROVE  /\ Cnt(indRing, X) = Cnt(indRing', X) + (IF m \in X THEN 1 ELSE 0)
           /\ m \in RingType /\ m.k = k
<1>1. /\ indRing # <<>> /\ indRing' = Tail(indRing)
      /\ m = Head(indRing) /\ m.k = k /\ m \in RingType
  BY Dispatched
<1>2. PICK s \in Seq(RingType) : s = indRing BY DEF Types
<1>3. Cnt(s, X) = Cnt(Tail(s), X) + (IF Head(s) \in X THEN 1 ELSE 0)
  BY <1>1, <1>2, CntTail
<1> QED BY <1>1, <1>2, <1>3

\* The card adds one message.
LEMMA PostCounts ==
    ASSUME Types, NEW m \in RingType, CardPost(m), NEW X
    PROVE  Cnt(indRing', X) = Cnt(indRing, X) + (IF m \in X THEN 1 ELSE 0)
<1>1. PICK s \in Seq(RingType) : s = indRing BY DEF Types
<1>2. indRing' = Append(s, m) BY <1>1, PostIs
<1> QED BY <1>1, <1>2, CntAppend

\* The card takes a message from the request ring.
LEMMA TakeCounts ==
    ASSUME Types, Short(reqRing), NEW m, CardTake(m),
           NEW kind \in {"ack_buf", "ack_id"}, NEW x
    PROVE  /\ m \in ReqType /\ m = Head(reqRing) /\ reqRing' = Tail(reqRing)
           /\ reqRing # <<>>
           /\ Times(reqRing, kind, x) = Times(reqRing', kind, x)
                + (IF m.k = kind THEN Cnt(m.of, {x}) ELSE 0)
           /\ m.k = kind => /\ Cnt(m.of, {x}) \in Nat
                            /\ Cnt(m.of, {x}) = 0 <=> x \notin SeqSet(m.of)
<1>1. PICK s \in Seq(ReqType) : s = reqRing BY DEF Types
<1>2. /\ m = Head(s) /\ reqRing' = Tail(s) /\ Len(s) > staged
  BY <1>1 DEF CardTake
<1>3. s # <<>>
  <2>1. staged \in Nat BY <1>1 DEF Types, TypeOK
  <2> QED BY <1>2, <2>1
<1>4. m \in ReqType /\ m = s[1] /\ 1 \in DOMAIN s BY <1>2, <1>3, TailIs
<1>5. PICK T : /\ T = IF kind = "ack_buf" THEN RxBuf ELSE Ids
               /\ m.k = kind => m.of \in Seq(T)
  BY <1>4, ReqKinds
<1>6. m.k = kind => Len(m.of) <= AckPer + IdPer BY <1>1, <1>4 DEF Short
<1>7. Times(s, kind, x) = Times(Tail(s), kind, x)
        + (IF Head(s).k = kind THEN Cnt(Head(s).of, {x}) ELSE 0)
  BY <1>2, <1>3, <1>5, <1>6, TimesTail
<1>8. ASSUME m.k = kind
      PROVE  /\ Cnt(m.of, {x}) \in Nat
             /\ Cnt(m.of, {x}) = 0 <=> x \notin SeqSet(m.of)
  <2>1. PICK q \in Seq(T) : q = m.of BY <1>5, <1>8
  <2>2. Cnt(q, {x}) \in Nat /\ (Cnt(q, {x}) = 0 <=> Pos(q, {x}) = {})
    BY CntIs
  <2>3. Pos(q, {x}) = {} <=> x \notin SeqSet(q) BY DEF Pos, SeqSet
  <2> QED BY <2>1, <2>2, <2>3
<1> QED BY <1>1, <1>2, <1>3, <1>4, <1>7, <1>8

\* No step makes an acknowledge too long.
LEMMA ShortNext ==
    ASSUME IInv, Short(reqRing), [Next]_vars
    PROVE  Short(reqRing')
<1>0. Types /\ Locals BY DEF IInv, Counts
<1>1. CASE reqRing' = reqRing BY <1>1
<1>2. CASE OutSystem
  <2>1. PICK out \in Seq(SysType) : reqRing' = reqRing \o out /\ Short(out)
    BY <1>0, <1>2, OutAcks
  <2>2. PICK s \in Seq(ReqType) : s = reqRing BY <1>0 DEF Types
  <2>3. out \in Seq(ReqType) BY Amounts
  <2>4. Short(s \o out) BY <2>1, <2>2, <2>3, ShortConcat
  <2> QED BY <2>1, <2>2, <2>4
<1>3. CASE OutRequest
  <2>1. PICK e, m :
          /\ e = eno /\ pc = "req" /\ e # Null /\ m.k = ent[e].Req
          /\ reqRing' = Append(reqRing, m)
    BY <1>3 DEF OutRequest, ReqMsg
  <2>2. e \in Entity BY <1>0, <2>1 DEF Types, TypeOK
  <2>3. m.k \notin {"ack_buf", "ack_id"} BY <1>0, <2>1, <2>2, EntTypes DEF Code
  <2>4. PICK S : S = ReqType \cup {m} OBVIOUS
  <2>5. PICK s \in Seq(S), t \in Seq(S) : s = reqRing /\ t = <<m>>
    <3>1. reqRing \in Seq(S) BY <1>0, <2>4 DEF Types
    <3>2. <<m>> \in Seq(S) BY <2>4
    <3> QED BY <3>1, <3>2
  <2>6. Short(t) BY <2>3, <2>5 DEF Short
  <2>7. Short(s \o t) BY <2>5, <2>6, ShortConcat
  <2>8. Append(s, m) = s \o <<m>> BY <2>4, <2>5, AppendIsConcat
  <2> QED BY <2>1, <2>5, <2>7, <2>8
<1>4. CASE CardReads
  <2>1. PICK m : CardTake(m) BY <1>4 DEF CardReads, CardSystem, CardRequest
  <2>2. PICK s \in Seq(ReqType) : s = reqRing BY <1>0 DEF Types
  <2>3. reqRing' = Tail(s) /\ s # <<>>
    <3>1. reqRing' = Tail(s) /\ Len(s) > staged BY <2>1, <2>2 DEF CardTake
    <3>2. staged \in Nat BY <1>0, <2>2 DEF Types, TypeOK
    <3> QED BY <3>1, <3>2
  <2>4. PICK n \in Nat : /\ n = Len(s) /\ DOMAIN s = 1..n
                         /\ DOMAIN Tail(s) = 1..(n - 1)
                         /\ \A k \in 1..(n - 1) : Tail(s)[k] = s[k + 1]
    BY <2>3, TailIs
  <2>5. \A k \in 1..(n - 1) : k + 1 \in 1..n OBVIOUS
  <2> QED BY <2>2, <2>3, <2>4, <2>5 DEF Short
<1>5. CASE UNCHANGED vars \/ ClientNext \/ IndNext \/ DpcStart \/ Oob \/ Count
           \/ IndEnd \/ OutImpossible \/ OutSync
  <2>1. reqRing' = reqRing
    BY <1>5 DEF vars, ClientNext, Request, Xon, IndNext, SysAckReq, SysRnrInd,
       SysState, RcIgnored, RcRemoved, RcAnswer, RcAssign, IndDropped,
       IndTaken, IndRnr, Dispatch, DpcStart, Oob, Count, IndEnd,
       OutImpossible, OutSync, outRing
  <2> QED BY <1>1, <2>1
<1>6. CASE CardNext /\ ~CardReads
  <2>1. reqRing' = reqRing
    BY <1>6 DEF CardNext, CardStops, CardAnswers, CardAssign, CardData,
       CardRemove, CardXon, CardAck, CardInd, CardTick, CardWarn, CardJob,
       CardPost
  <2> QED BY <1>1, <2>1
<1> QED BY <1>2, <1>3, <1>4, <1>5, <1>6 DEF Next, DpcNext, CardNext

-----------------------------------------------------------------------------
(* The receive buffers *)

\* Where a receive buffer is: in the card, with an indication in the ring or in
\* the RNR queue, to be acknowledged, or in an acknowledge on its way
Held(b) == IF b \in cardBufs THEN 1 ELSE 0
Where(b) == Held(b) + Cnt(indRing, BufOf(b)) + Cnt(rnrq, RxOf(b))
            + Cnt(bufAck, {b}) + Times(reqRing, "ack_buf", b)

\* Every buffer is in one place.
Bufs == Short(reqRing) /\ \A b \in RxBuf : Where(b) = 1

\* The counts of a buffer are numbers.
Numbered == \A b : /\ Held(b) \in {0, 1} /\ Cnt(indRing, BufOf(b)) \in Nat
                   /\ Cnt(rnrq, RxOf(b)) \in Nat /\ Cnt(bufAck, {b}) \in Nat
                   /\ Times(reqRing, "ack_buf", b) \in Nat
LEMMA NumberedNow == Types => Numbered
<1> SUFFICES ASSUME Types PROVE Numbered OBVIOUS
<1>1. PICK i \in Seq(RingType), r \in Seq(REntry), a \in Seq(RxBuf),
           t \in Seq(ReqType) :
        i = indRing /\ r = rnrq /\ a = bufAck /\ t = reqRing
  BY DEF Types, TypeOK
<1>2. \A b : /\ Cnt(i, BufOf(b)) \in Nat /\ Cnt(r, RxOf(b)) \in Nat
             /\ Cnt(a, {b}) \in Nat /\ Times(t, "ack_buf", b) \in Nat
  BY CntIs, NamesAre
<1> QED BY <1>1, <1>2 DEF Numbered, Held
LEMMA NumberedNext == Types' => Numbered' BY NumberedNow, PTL

\* Nobody touches the buffers.
LEMMA BufsSame ==
    ASSUME NEW b, UNCHANGED <<cardBufs, indRing, rnrq, bufAck, reqRing>>
    PROVE  Where(b)' = Where(b)
BY DEF Where, Held

\* A message that is no indication is taken; what leaves the RNR queue is
\* acknowledged.
LEMMA BufsHead ==
    ASSUME Types, Locals, Types', NEW b, NEW k, NEW m, Dispatch(k, m), k # "ind",
           UNCHANGED <<cardBufs, reqRing>>,
           Cnt(bufAck', {b}) + Cnt(rnrq', RxOf(b))
             = Cnt(bufAck, {b}) + Cnt(rnrq, RxOf(b))
    PROVE  Where(b)' = Where(b)
<1>1. PICK c \in {0, 1}, i \in Nat, r \in Nat, a \in Nat, t \in Nat :
        /\ c = Held(b) /\ i = Cnt(indRing, BufOf(b)) /\ r = Cnt(rnrq, RxOf(b))
        /\ a = Cnt(bufAck, {b}) /\ t = Times(reqRing, "ack_buf", b)
  BY NumberedNow DEF Numbered
<1>2. PICK i1 \in Nat, r1 \in Nat, a1 \in Nat :
        /\ i1 = Cnt(indRing', BufOf(b)) /\ r1 = Cnt(rnrq', RxOf(b))
        /\ a1 = Cnt(bufAck', {b})
  BY NumberedNext DEF Numbered
<1>3. i = i1
  <2>1. m.k # "ind" /\ Cnt(indRing, BufOf(b))
          = Cnt(indRing', BufOf(b)) + (IF m \in BufOf(b) THEN 1 ELSE 0)
    BY HeadCounts
  <2>2. m \notin BufOf(b) BY <2>1 DEF BufOf
  <2> QED BY <1>1, <1>2, <2>1, <2>2
<1>4. a1 + r1 = a + r BY <1>1, <1>2
<1>5. c + i1 + r1 + a1 + t = c + i + r + a + t BY <1>3, <1>4
<1>6. Where(b)' = c + i1 + r1 + a1 + t BY <1>1, <1>2 DEF Where, Held
<1> QED BY <1>1, <1>5, <1>6 DEF Where

\* An indication is taken, and its buffer kept or acknowledged.
LEMMA BufsInd ==
    ASSUME Types, Locals, Types', NEW b, NEW m, Dispatch("ind", m),
           UNCHANGED <<cardBufs, reqRing>>,
           Cnt(bufAck', {b}) + Cnt(rnrq', RxOf(b))
             = Cnt(bufAck, {b}) + Cnt(rnrq, RxOf(b))
               + (IF m.buf = b THEN 1 ELSE 0)
    PROVE  Where(b)' = Where(b)
<1>1. PICK c \in {0, 1}, i \in Nat, r \in Nat, a \in Nat, t \in Nat :
        /\ c = Held(b) /\ i = Cnt(indRing, BufOf(b)) /\ r = Cnt(rnrq, RxOf(b))
        /\ a = Cnt(bufAck, {b}) /\ t = Times(reqRing, "ack_buf", b)
  BY NumberedNow DEF Numbered
<1>2. PICK i1 \in Nat, r1 \in Nat, a1 \in Nat :
        /\ i1 = Cnt(indRing', BufOf(b)) /\ r1 = Cnt(rnrq', RxOf(b))
        /\ a1 = Cnt(bufAck', {b})
  BY NumberedNext DEF Numbered
<1>3. PICK z \in {0, 1} : z = IF m.buf = b THEN 1 ELSE 0 OBVIOUS
<1>4. i = i1 + z
  <2>1. /\ m.k = "ind" /\ m \in RingType
        /\ Cnt(indRing, BufOf(b))
             = Cnt(indRing', BufOf(b)) + (IF m \in BufOf(b) THEN 1 ELSE 0)
    BY HeadCounts
  <2>2. m \in BufOf(b) <=> m.buf = b BY <2>1 DEF BufOf
  <2> QED BY <1>1, <1>2, <1>3, <2>1, <2>2
<1>5. a1 + r1 = a + r + z BY <1>1, <1>2, <1>3
<1>6. c + i1 + r1 + a1 + t = c + i + r + a + t BY <1>4, <1>5
<1>7. Where(b)' = c + i1 + r1 + a1 + t BY <1>1, <1>2 DEF Where, Held
<1> QED BY <1>1, <1>6, <1>7 DEF Where

\* The host keeps the rest of a step.
LEMMA BufsHost ==
    ASSUME Types, Locals, Types', NEW b,
           UNCHANGED <<cardBufs, indRing>>,
           Cnt(bufAck', {b}) + Cnt(rnrq', RxOf(b)) + Times(reqRing', "ack_buf", b)
             = Cnt(bufAck, {b}) + Cnt(rnrq, RxOf(b))
               + Times(reqRing, "ack_buf", b)
    PROVE  Where(b)' = Where(b)
<1>1. PICK c \in {0, 1}, i \in Nat, r \in Nat, a \in Nat, t \in Nat :
        /\ c = Held(b) /\ i = Cnt(indRing, BufOf(b)) /\ r = Cnt(rnrq, RxOf(b))
        /\ a = Cnt(bufAck, {b}) /\ t = Times(reqRing, "ack_buf", b)
  BY NumberedNow DEF Numbered
<1>2. PICK r1 \in Nat, a1 \in Nat, t1 \in Nat :
        /\ r1 = Cnt(rnrq', RxOf(b)) /\ a1 = Cnt(bufAck', {b})
        /\ t1 = Times(reqRing', "ack_buf", b)
  BY NumberedNext DEF Numbered
<1>3. a1 + r1 + t1 = a + r + t BY <1>1, <1>2
<1>4. c + i + r1 + a1 + t1 = c + i + r + a + t BY <1>3
<1>5. Where(b)' = c + i + r1 + a1 + t1 BY <1>1, <1>2 DEF Where, Held
<1> QED BY <1>1, <1>4, <1>5 DEF Where

\* The card takes a message, and with it the buffers that the message returns.
LEMMA BufsTaken ==
    ASSUME Types, Types', Short(reqRing), NEW b, Where(b) = 1, NEW m,
           CardTake(m), UNCHANGED <<rnrq, bufAck>>,
           cardBufs' = IF m.k = "ack_buf" THEN cardBufs \cup SeqSet(m.of)
                       ELSE cardBufs
    PROVE  Where(b)' = 1
<1>1. PICK c \in {0, 1}, i \in Nat, r \in Nat, a \in Nat, t \in Nat :
        /\ c = Held(b) /\ i = Cnt(indRing, BufOf(b)) /\ r = Cnt(rnrq, RxOf(b))
        /\ a = Cnt(bufAck, {b}) /\ t = Times(reqRing, "ack_buf", b)
  BY NumberedNow DEF Numbered
<1>2. PICK c1 \in {0, 1}, t1 \in Nat :
        /\ c1 = Held(b)' /\ t1 = Times(reqRing', "ack_buf", b)
  BY NumberedNext DEF Numbered
<1>3. c + i + r + a + t = 1 BY <1>1 DEF Where
<1>4. /\ t = t1 + (IF m.k = "ack_buf" THEN Cnt(m.of, {b}) ELSE 0)
      /\ m.k = "ack_buf" => /\ Cnt(m.of, {b}) \in Nat
                            /\ Cnt(m.of, {b}) = 0 <=> b \notin SeqSet(m.of)
  BY <1>1, <1>2, TakeCounts
<1>5. PICK z \in Nat : /\ t = t1 + z
                       /\ z = 0 <=> ~(m.k = "ack_buf" /\ b \in SeqSet(m.of))
  BY <1>4
<1>6. c1 + t1 = c + t
  <2>1. CASE z = 0
    <3>1. c1 = c BY <1>1, <1>2, <1>5, <2>1 DEF Held
    <3> QED BY <1>5, <2>1, <3>1
  <2>2. CASE z # 0
    <3>1. c1 = 1 BY <1>2, <1>5, <2>2 DEF Held
    <3>2. z >= 1 /\ c = 0 /\ z = 1 /\ t1 = 0 BY <1>3, <1>5, <2>2
    <3> QED BY <1>5, <3>1, <3>2
  <2> QED BY <2>1, <2>2
<1>7. c1 + i + r + a + t1 = 1 BY <1>3, <1>6
<1>8. Where(b)' = c1 + i + r + a + t1
  <2>1. indRing' = indRing BY DEF CardTake
  <2> QED BY <1>1, <1>2, <2>1 DEF Where
<1> QED BY <1>7, <1>8

\* The card posts a message, with one of its buffers or with none.
LEMMA BufsPosted ==
    ASSUME Types, Types', NEW b \in RxBuf, NEW m \in RingType, CardPost(m),
           \/ m.k # "ind" /\ cardBufs' = cardBufs
           \/ /\ m.k = "ind" /\ m.buf \in cardBufs \cup {0}
              /\ cardBufs' = cardBufs \ {m.buf}
    PROVE  Where(b)' = Where(b)
<1>1. PICK c \in {0, 1}, i \in Nat, r \in Nat, a \in Nat, t \in Nat :
        /\ c = Held(b) /\ i = Cnt(indRing, BufOf(b)) /\ r = Cnt(rnrq, RxOf(b))
        /\ a = Cnt(bufAck, {b}) /\ t = Times(reqRing, "ack_buf", b)
  BY NumberedNow DEF Numbered
<1>2. PICK c1 \in {0, 1}, i1 \in Nat :
        c1 = Held(b)' /\ i1 = Cnt(indRing', BufOf(b))
  BY NumberedNext DEF Numbered
<1>3. b # 0 BY VidiAssumption
<1>4. i1 = i + (IF m \in BufOf(b) THEN 1 ELSE 0) BY <1>1, <1>2, PostCounts
<1>5. c1 + i1 = c + i
  <2>1. CASE m \in BufOf(b)
    <3>1. m.k = "ind" /\ m.buf = b BY <2>1 DEF BufOf
    <3>2. c = 1 /\ c1 = 0 BY <1>1, <1>2, <1>3, <3>1 DEF Held
    <3> QED BY <1>4, <2>1, <3>2
  <2>2. CASE m \notin BufOf(b)
    <3>1. ~(m.k = "ind" /\ m.buf = b) BY <2>2 DEF BufOf
    <3>2. c1 = c BY <1>1, <1>2, <3>1 DEF Held
    <3> QED BY <1>4, <2>2, <3>2
  <2> QED BY <2>1, <2>2
<1>6. c1 + i1 + r + a + t = c + i + r + a + t BY <1>5
<1>7. Where(b)' = c1 + i1 + r + a + t
  <2>1. UNCHANGED <<rnrq, bufAck, reqRing>> BY PostIs
  <2> QED BY <1>1, <1>2, <2>1 DEF Where
<1> QED BY <1>1, <1>6, <1>7 DEF Where

\* Whatever the card posts but an indication
LEMMA CardOthers ==
    ASSUME Types, Ents, CardNext, ~CardReads, ~CardInd
    PROVE  /\ \E m \in RingType : CardPost(m) /\ m.k # "ind"
           /\ cardBufs' = cardBufs
<1>1. PICK m \in RingType : CardPost(m) BY CardPosts
<1>2. PICK n : CardPost(n) /\ n.k # "ind" /\ cardBufs' = cardBufs
  <2>1. CASE CardStops \/ CardXon \/ CardAck \/ CardTick \/ CardWarn
    BY <2>1 DEF CardStops, CardXon, CardAck, CardTick, CardWarn, CardJob, Rc
  <2>2. CASE \E e \in Entity : CardAnswers(e)
    <3>1. PICK j : CardAssign(j) \/ CardData(j) \/ CardRemove(j)
      BY <2>2 DEF CardAnswers
    <3>2. CASE CardAssign(j) BY <3>2 DEF CardAssign, CardJob, Rc
    <3>3. CASE CardData(j) BY <3>3 DEF CardData, CardJob, Rc
    <3>4. CASE CardRemove(j) BY <3>4 DEF CardRemove, CardJob, Rc
    <3> QED BY <3>1, <3>2, <3>3, <3>4
  <2> QED BY <2>1, <2>2 DEF CardNext
<1>3. m = n
  <2>1. PICK s \in Seq(RingType) : s = indRing BY DEF Types
  <2>2. PICK S : S = RingType \cup {n} OBVIOUS
  <2>3. PICK t \in Seq(S) : t = s BY <2>2
  <2>4. Append(t, m)[Len(t) + 1] = m /\ Append(t, n)[Len(t) + 1] = n
    BY <2>2, AppendIs
  <2>5. Append(t, m) = Append(t, n) BY <1>1, <1>2, <2>1, <2>3, PostIs
  <2> QED BY <2>4, <2>5
<1> QED BY <1>1, <1>2, <1>3

\* Every step keeps each buffer in one place.
LEMMA BufsNext ==
    ASSUME IInv, Types', Bufs, [Next]_vars
    PROVE  Bufs'
<1>0. Types /\ Locals /\ Kept /\ BigHasBuf /\ Ents /\ Short(reqRing)
  BY InvGroups DEF IInv, Counts, Groups, Bufs
<1>1. Short(reqRing') BY ShortNext DEF Bufs
<1> SUFFICES ASSUME NEW b \in RxBuf PROVE Where(b)' = 1
  BY <1>1 DEF Bufs
<1>2. Where(b) = 1 BY DEF Bufs
<1>3. CASE UNCHANGED vars \/ ClientNext
  <2>1. UNCHANGED <<cardBufs, indRing, rnrq, bufAck, reqRing>>
    BY <1>3 DEF vars, ClientNext, Request, Xon, ackVars, rnrVars, outRing,
                cardVars
  <2> QED BY <1>2, <2>1, BufsSame
<1>4. CASE DpcStart \/ Count \/ IndEnd \/ OutImpossible \/ OutSync
  <2>1. UNCHANGED <<cardBufs, indRing, rnrq, bufAck, reqRing>>
    BY <1>4 DEF DpcStart, Count, IndEnd, OutImpossible, OutSync, ackVars,
                rnrVars, outRing, cardVars
  <2> QED BY <1>2, <2>1, BufsSame
<1>5. CASE SysAckReq \/ SysState \/ RcIgnored \/ RcAnswer \/ RcAssign
  <2>1. PICK k, m : /\ Dispatch(k, m) /\ k # "ind" /\ UNCHANGED <<rnrq, bufAck>>
    BY <1>5 DEF SysAckReq, SysState, RcIgnored, RcAnswer, RcAssign, ackVars,
                rnrVars
  <2>2. UNCHANGED <<cardBufs, reqRing>>
    BY <2>1 DEF Dispatch, cardVars, outRing
  <2> QED BY <1>0, <1>2, <2>1, <2>2, BufsHead
<1>6. CASE SysRnrInd
  <2>1. PICK m, x : Dispatch("rnr_ind", m) /\ ProcessRnr(0, x)
    BY <1>6 DEF SysRnrInd
  <2>2. UNCHANGED <<cardBufs, reqRing>>
    BY <2>1 DEF Dispatch, cardVars, outRing
  <2>3. Cnt(bufAck', {b}) + Cnt(rnrq', RxOf(b))
          = Cnt(bufAck, {b}) + Cnt(rnrq, RxOf(b))
    BY <1>0, <2>1, ProcessCounts
  <2> QED BY <1>0, <1>2, <2>1, <2>2, <2>3, BufsHead
<1>7. CASE Oob
  <2>1. PICK d, x : ProcessRnr(d, x) BY <1>7 DEF Oob
  <2>2. UNCHANGED <<cardBufs, indRing, reqRing>>
    BY <1>7 DEF Oob, cardVars, outRing
  <2>3. Cnt(bufAck', {b}) + Cnt(rnrq', RxOf(b))
          = Cnt(bufAck, {b}) + Cnt(rnrq, RxOf(b))
    BY <1>0, <2>1, ProcessCounts
  <2> QED BY <1>0, <1>2, <2>2, <2>3, BufsHost
<1>8. CASE RcRemoved
  <2>1. PICK m, d : Dispatch("rc", m) /\ CancelRnr(d) BY <1>8 DEF RcRemoved
  <2>2. UNCHANGED <<cardBufs, reqRing>>
    BY <2>1 DEF Dispatch, cardVars, outRing
  <2>3. Cnt(bufAck', {b}) + Cnt(rnrq', RxOf(b))
          = Cnt(bufAck, {b}) + Cnt(rnrq, RxOf(b))
    BY <1>0, <2>1, CancelCounts
  <2> QED BY <1>0, <1>2, <2>1, <2>2, <2>3, BufsHead
<1>9. CASE IndDropped \/ IndTaken \/ IndRnr
  <2>1. PICK m : /\ Dispatch("ind", m)
                 /\ (AckBuf(m) /\ rnrq' = rnrq) \/ SaveRnr(m)
    BY <1>9 DEF IndDropped, IndTaken, IndRnr, rnrVars
  <2>2. UNCHANGED <<cardBufs, reqRing>>
    BY <2>1 DEF Dispatch, cardVars, outRing
  <2>3. IndFields(m) BY <1>0, <2>1, IndIs DEF IndFields
  <2>4. PICK x \in Nat, y \in Nat, z \in {0, 1} :
          /\ x = Cnt(bufAck, {b}) /\ y = Cnt(rnrq, RxOf(b))
          /\ z = IF m.buf = b THEN 1 ELSE 0
    BY <1>0, NumberedNow DEF Numbered
  <2>5. Cnt(bufAck', {b}) + Cnt(rnrq', RxOf(b)) = x + y + z
    <3>1. CASE AckBuf(m) /\ rnrq' = rnrq
      <4>1. Cnt(bufAck', {b}) = x + z BY <1>0, <2>3, <2>4, <3>1, BufCounts
      <4>2. (x + z) + y = x + y + z OBVIOUS
      <4> QED BY <2>4, <3>1, <4>1, <4>2
    <3>2. CASE SaveRnr(m)
      BY <1>0, <2>3, <2>4, <3>2, SaveCounts
    <3> QED BY <2>1, <3>1, <3>2
  <2>6. Cnt(bufAck', {b}) + Cnt(rnrq', RxOf(b))
          = Cnt(bufAck, {b}) + Cnt(rnrq, RxOf(b))
            + (IF m.buf = b THEN 1 ELSE 0)
    BY <2>4, <2>5
  <2> QED BY <1>0, <1>2, <2>1, <2>2, <2>6, BufsInd
<1>10. CASE OutSystem
  <2>1. PICK out \in Seq(SysType) :
          /\ reqRing' = reqRing \o out
          /\ Times(out, "ack_buf", b) + Cnt(bufAck', {b}) = Cnt(bufAck, {b})
    BY <1>0, <1>10, OutAcks
  <2>2. PICK s \in Seq(ReqType), o \in Seq(ReqType) : s = reqRing /\ o = out
    BY <1>0, Amounts DEF Types
  <2>3. Times(s \o o, "ack_buf", b)
          = Times(s, "ack_buf", b) + Times(o, "ack_buf", b)
    BY TimesConcat
  <2>4. PICK t \in Nat, u \in Nat, a1 \in Nat, r \in Nat :
          /\ t = Times(s, "ack_buf", b) /\ u = Times(o, "ack_buf", b)
          /\ a1 = Cnt(bufAck', {b}) /\ r = Cnt(rnrq, RxOf(b))
    BY <1>0, NamesAre, NumberedNow, NumberedNext DEF Numbered
  <2>5. UNCHANGED <<cardBufs, indRing, rnrq>> BY <1>10 DEF OutSystem, cardVars
  <2>6. Cnt(bufAck', {b}) + Cnt(rnrq', RxOf(b)) + Times(reqRing', "ack_buf", b)
          = Cnt(bufAck, {b}) + Cnt(rnrq, RxOf(b)) + Times(reqRing, "ack_buf", b)
    <3>1. a1 + r + (t + u) = (u + a1) + r + t OBVIOUS
    <3>2. Times(reqRing', "ack_buf", b) = t + u BY <2>1, <2>2, <2>3, <2>4
    <3>3. Cnt(bufAck, {b}) = u + a1 BY <2>1, <2>2, <2>4
    <3> QED BY <2>2, <2>4, <2>5, <3>1, <3>2, <3>3
  <2> QED BY <1>0, <1>2, <2>5, <2>6, BufsHost
<1>11. CASE OutRequest
  <2>1. PICK e, m :
          /\ e = eno /\ pc = "req" /\ e # Null /\ m.k = ent[e].Req
          /\ reqRing' = Append(reqRing, m)
          /\ (\E d : CancelRnr(d)) \/ UNCHANGED <<rnrq, bufAck>>
          /\ UNCHANGED <<cardBufs, indRing>>
    BY <1>11 DEF OutRequest, ReqMsg, rnrVars, cardVars
  <2>2. e \in Entity BY <1>0, <2>1 DEF Types, TypeOK
  <2>3. m.k # "ack_buf" BY <1>0, <2>1, <2>2, EntTypes DEF Code
  <2>4. PICK S : S = ReqType \cup {m} OBVIOUS
  <2>5. PICK s \in Seq(S) : s = reqRing BY <1>0, <2>4 DEF Types
  <2>6. Times(Append(s, m), "ack_buf", b) = Times(s, "ack_buf", b)
    BY <2>3, <2>4, TimesAppend
  <2>7. Cnt(bufAck', {b}) + Cnt(rnrq', RxOf(b))
          = Cnt(bufAck, {b}) + Cnt(rnrq, RxOf(b))
    BY <1>0, <2>1, CancelCounts
  <2> QED BY <1>0, <1>2, <2>1, <2>5, <2>6, <2>7, BufsHost
<1>12. CASE CardReads
  <2>1. PICK m :
          /\ CardTake(m)
          /\ cardBufs' = IF m.k = "ack_buf" THEN cardBufs \cup SeqSet(m.of)
                         ELSE cardBufs
    BY <1>12 DEF CardReads, CardSystem, CardRequest, Code
  <2>2. UNCHANGED <<rnrq, bufAck>>
    BY <2>1 DEF CardTake, HostFrame, rnrVars, ackVars
  <2> QED BY <1>0, <1>2, <2>1, <2>2, BufsTaken
<1>13. CASE CardInd
  <2>1. PICK d \in Ids, x \in cardBufs \cup {0}, big \in BOOLEAN :
          /\ cardId[d] # Null /\ CardPost(Ind(d, cardId[d], x, big))
          /\ cardBufs' = cardBufs \ {x}
    BY <1>13 DEF CardInd
  <2>2. PICK m : m = Ind(d, cardId[d], x, big) OBVIOUS
  <2>3. m \in RingType
    <3>1. cardId[d] \in Entity /\ x \in RxBuf \cup {0}
      BY <1>0, <2>1 DEF Types
    <3> QED BY <2>2, <3>1, MsgTypes
  <2>4. m.k = "ind" /\ m.buf = x BY <2>2 DEF Ind
  <2> QED BY <1>0, <1>2, <2>1, <2>2, <2>3, <2>4, BufsPosted
<1>14. CASE CardNext /\ ~CardReads /\ ~CardInd
  <2>1. PICK m \in RingType : CardPost(m) /\ m.k # "ind"
    BY <1>0, <1>14, CardOthers
  <2>2. cardBufs' = cardBufs BY <1>0, <1>14, CardOthers
  <2> QED BY <1>0, <1>2, <2>1, <2>2, BufsPosted
<1> QED BY <1>3, <1>4, <1>5, <1>6, <1>7, <1>8, <1>9, <1>10, <1>11, <1>12,
           <1>13, <1>14 DEF Next, DpcNext, IndNext, CardNext

\* At the start every buffer is going to be lent to the card.
LEMMA BufsInit ==
    ASSUME Init, Types
    PROVE  Bufs
<1>1. /\ indRing = <<[k |-> "start"]>> /\ reqRing = <<>> /\ rnrq = <<>>
      /\ cardBufs = {}
  BY DEF Init
<1>2. Short(reqRing) BY <1>1 DEF Short
<1> SUFFICES ASSUME NEW b \in RxBuf PROVE Where(b) = 1 BY <1>2 DEF Bufs
<1>3. Held(b) = 0 BY <1>1 DEF Held
<1>4. Cnt(indRing, BufOf(b)) = 0
  <2>1. [k |-> "start"] \notin BufOf(b) BY DEF BufOf
  <2> QED BY <1>1, <2>1, CntOne
<1>5. Cnt(rnrq, RxOf(b)) = 0 /\ Times(reqRing, "ack_buf", b) = 0
  <2>1. Pos(rnrq, RxOf(b)) = {} BY <1>1 DEF Pos
  <2>2. \A k \in DOMAIN reqRing : reqRing[k].k # "ack_buf" BY <1>1
  <2> QED BY <2>1, <2>2, TimesNone, FS_EmptySet DEF Cnt
<1>6. Cnt(bufAck, {b}) = 1
  <2>1. IsFiniteSet(RxBuf) /\ RxBuf \subseteq Nat BY VidiAssumption
  <2>2. PICK n \in Nat : n = Cardinality(RxBuf) BY <2>1, FS_CardinalityType
  <2>3. PICK s \in [1..n -> RxBuf] :
          s = bufAck /\ \A i, j \in 1..n : i < j => s[i] < s[j]
    BY <2>2 DEF Init
  <2>4. \A i, j \in 1..n : s[i] = s[j] => i = j
    <3> SUFFICES ASSUME NEW i \in 1..n, NEW j \in 1..n, s[i] = s[j], i # j
                 PROVE  FALSE
      OBVIOUS
    <3>1. s[i] \in Nat BY <2>1
    <3>2. i < j \/ j < i OBVIOUS
    <3>3. s[i] < s[j] \/ s[j] < s[i] BY <2>3, <3>2
    <3> QED BY <3>1, <3>3
  <2>5. s \in Injection(1..n, RxBuf) BY <2>4 DEF Injection, IsInjective
  <2>6. IsFiniteSet(1..n) /\ Cardinality(1..n) = n
    <3>1. IsFiniteSet(1..n) /\ Cardinality(1..n) = IF 1 > n THEN 0 ELSE n - 1 + 1
      BY FS_Interval
    <3> QED BY <3>1
  <2>7. s \in Surjection(1..n, RxBuf) BY <2>1, <2>2, <2>5, <2>6, FS_Injection
  <2>8. PICK i \in 1..n : s[i] = b BY <2>7 DEF Surjection
  <2>9. Pos(s, {b}) = {i} BY <2>4, <2>8 DEF Pos
  <2> QED BY <2>3, <2>9, FS_Singleton DEF Cnt
<1> QED BY <1>3, <1>4, <1>5, <1>6 DEF Where

\* The sum is the one of BuffersKept.
LEMMA WhereIs ==
    ASSUME Types, NEW b
    PROVE  Places(b) = Where(b)
<1>1. Cardinality(IF b \in cardBufs THEN {b} ELSE {}) = Held(b)
  <2>1. Cardinality({b}) = 1 /\ Cardinality({}) = 0
    BY FS_Singleton, FS_EmptySet
  <2> QED BY <2>1 DEF Held
<1>2. At(indRing, LAMBDA m : m.k = "ind" /\ m.buf = b) = Pos(indRing, BufOf(b))
  <2>1. \A k \in DOMAIN indRing : indRing[k] \in RingType BY OwnersAre
  <2> QED BY <2>1 DEF At, Pos, BufOf
<1>3. At(rnrq, LAMBDA h : h.keep = "rx" /\ h.buf = b) = Pos(rnrq, RxOf(b))
  <2>1. \A k \in DOMAIN rnrq : rnrq[k] \in REntry
    BY ElementOfSeq DEF Types, TypeOK
  <2> QED BY <2>1 DEF At, Pos, RxOf
<1>4. At(bufAck, LAMBDA x : x = b) = Pos(bufAck, {b}) BY DEF At, Pos
<1>5. Named("ack_buf", b) = Names(reqRing, "ack_buf", b) BY DEF Named, Names
<1> QED BY <1>1, <1>2, <1>3, <1>4, <1>5 DEF Places, Where, Cnt, Times

\* Every receive buffer is in one place, and every fragment with one user
\* (vidi_di.c:436, 344; io.c:573).
THEOREM MemorySafe == Spec => []MemoryKept
<1>1. Init /\ IInv => Bufs BY BufsInit DEF IInv
<1>2. IInv /\ IInv' /\ Bufs /\ [Next]_vars => Bufs'
  BY BufsNext DEF IInv
<1>3. IInv /\ Bufs => BuffersKept
  BY WhereIs DEF IInv, Bufs, BuffersKept
<1>4. Spec => []BuffersKept BY <1>1, <1>2, <1>3, InvSafe, PTL DEF Spec
<1> QED BY <1>4, FragmentsSafe, PTL DEF MemoryKept

-----------------------------------------------------------------------------
(* Whom the host and the card mean by an Id *)

\* Host and card agree about the Id of an entity whose request is not answered.
LEMMA Agreed ==
    ASSUME Types, NEW st \in [Entity -> Stage], Placed(st), Known,
           NEW e \in Entity, st[e] # "answer", ent[e].Id # 0
    PROVE  /\ ent[e].Id \in Ids /\ IdTable[ent[e].Id] = e
           /\ cardId[ent[e].Id] = e
<1>1. PICK d \in Ids : d = ent[e].Id BY EntTypes
<1>2. IdAt(d) BY DEF Known
<1>3. IdTable[d] = e BY <1>1, <1>2 DEF IdAt
<1>4. Ended(d) = {}
  <2> SUFFICES ASSUME NEW k \in Ended(d) PROVE FALSE OBVIOUS
  <2>1. /\ k \in DOMAIN indRing /\ IsAnswer(indRing[k])
        /\ indRing[k].Id = d /\ indRing[k].own \in rmPending
    BY DEF Ended, Ending, IsAbout
  <2>2. AnswerAt(indRing[k], st[indRing[k].own] = "answer")
    BY <2>1 DEF Placed, Stages
  <2>3. ent[indRing[k].own].Id = d BY <2>1, <2>2 DEF AnswerAt, Assigns
  <2>4. indRing[k].own \in Entity BY <2>1, OwnersAre
  <2>5. indRing[k].own = e BY <1>2, <1>3, <2>3, <2>4 DEF IdAt
  <2> QED BY <2>2, <2>5 DEF AnswerAt
<1>5. cardId[d] = e BY <1>2, <1>3, <1>4, Numbers DEF IdAt
<1> QED BY <1>1, <1>3, <1>5

\* A REMOVE of the Id d
IsRemove(m, d) == m.k = "REMOVE" /\ m.Id = d

\* A REMOVE on its way is of the entity that has the Id, and that is marked.
LEMMA RemoveOwned ==
    ASSUME Types, Ents, NEW d \in Ids, NEW m, IsRemove(m, d),
           m \in jobs \/ \E k \in DOMAIN reqRing : m = reqRing[k]
    PROVE  cardId[d] \in rmPending
<1>1. PICK st \in [Entity -> Stage] : Placed(st) BY DEF Ents
<1>2. IsReq(m) BY DEF IsRemove, IsReq, Code
<1>3. m.own \in Entity BY <1>2, OwnersAre
<1>4. /\ st[m.own] \in {"ring", "card"}
      /\ ent[m.own].Req = "REMOVE" /\ ent[m.own].Id = d
  <2>1. RequestAt(m, st[m.own] = "ring") \/ RequestAt(m, st[m.own] = "card")
    BY <1>1, <1>2 DEF Placed, Stages
  <2> QED BY <2>1 DEF RequestAt, IsRemove
<1>5. EntityAt(m.own, st[m.own]) BY <1>1, <1>3 DEF Placed, Stages
<1>6. m.own \in rmPending BY <1>4, <1>5 DEF EntityAt
<1>7. d # 0 BY Numbers
<1>8. cardId[d] = m.own
  <2>1. st[m.own] # "answer" /\ ent[m.own].Id # 0 BY <1>4, <1>7
  <2>2. cardId[ent[m.own].Id] = m.own BY <1>1, <1>3, <2>1, Agreed DEF Ents
  <2> QED BY <1>4, <2>2
<1> QED BY <1>6, <1>8

\* An Id whose entity is not being removed belongs to it on the card too.
LEMMA OwnedId ==
    ASSUME Types, Ents, NEW d \in Ids, IdTable[d] \in Entity \ rmPending
    PROVE  cardId[d] = IdTable[d]
<1>1. IdAt(d) BY DEF Ents, Known
<1>2. Ended(d) = {}
  <2> SUFFICES ASSUME NEW k \in Ended(d) PROVE FALSE OBVIOUS
  <2>1. k \in About(d) /\ indRing[k].own \in rmPending /\ k \in DOMAIN indRing
    BY DEF Ended, Ending, About
  <2>2. PICK n \in Nat : DOMAIN indRing = 1..n BY DEF Types
  <2>3. k \in 1..n /\ Assigned(d) \subseteq 1..n BY <2>1, <2>2 DEF Assigned
  <2>4. ~\E j \in Assigned(d) : j <= k
    <3> SUFFICES ASSUME NEW j \in Assigned(d), j <= k PROVE FALSE OBVIOUS
    <3>1. k < j BY <1>1 DEF IdAt
    <3>2. j \in Nat /\ k \in Nat
      <4>1. \A y \in 1..n : y \in Nat OBVIOUS
      <4> QED BY <2>3, <4>1
    <3> QED BY <3>1, <3>2
  <2>5. indRing[k].own = IdTable[d] BY <1>1, <2>1, <2>4 DEF IdAt
  <2> QED BY <2>1, <2>5
<1> QED BY <1>1, <1>2, Numbers DEF IdAt

\* An indication is meant for the entity that has the Id when the host takes it.
LEMMA IndOwner ==
    ASSUME Types, Locals, Ents, NEW m, Dispatch("ind", m), m.Id \in Ids
    PROVE  m.own = IdTable[m.Id]
<1>1. PICK d \in Ids : d = m.Id OBVIOUS
<1>2. IdAt(d) BY DEF Ents, Known
<1>3. indRing # <<>> /\ m = Head(indRing) /\ m.k = "ind" BY Dispatched
<1>4. PICK n \in Nat : /\ DOMAIN indRing = 1..n /\ 1 \in 1..n
                       /\ m = indRing[1]
  <2>1. /\ Head(indRing) = indRing[1] /\ Len(indRing) \in Nat \ {0}
        /\ DOMAIN indRing = 1..Len(indRing)
    BY <1>3, TailIs DEF Types
  <2>2. PICK l \in Nat \ {0} : l = Len(indRing) BY <2>1
  <2>3. l \in Nat /\ 1 \in 1..l OBVIOUS
  <2>4. DOMAIN indRing = 1..l /\ m = indRing[1] BY <1>3, <2>1, <2>2
  <2> QED BY <2>3, <2>4
<1>5. 1 \in About(d) BY <1>1, <1>3, <1>4 DEF About, IsAbout
<1>6. ~\E j \in Assigned(d) : j <= 1
  <2> SUFFICES ASSUME NEW j \in Assigned(d), j <= 1 PROVE FALSE OBVIOUS
  <2>1. j \in 1..n /\ Assigning(indRing[j], d) BY <1>4 DEF Assigned
  <2>2. j = 1 BY <2>1
  <2> QED BY <1>3, <1>4, <2>1, <2>2 DEF Assigning
<1>7. indRing[1].own = IdTable[d] BY <1>2, <1>5, <1>6 DEF IdAt
<1> QED BY <1>1, <1>4, <1>7

\* While an entity is being removed, the card's Id of it is the host's, and the
\* answer that ends it has not come yet.
LEMMA RemovingId ==
    ASSUME Types, Ents, NEW d \in Ids, cardId[d] \in rmPending
    PROVE  IdTable[d] = cardId[d] /\ Ended(d) = {}
<1>1. IdAt(d) BY DEF Ents, Known
<1>2. PICK st \in [Entity -> Stage] : Placed(st) BY DEF Ents
<1>3. cardId[d] \in Entity /\ cardId[d] # Null
  BY Numbers DEF Types, TypeOK
<1>4. CASE IdTable[d] # Null /\ Ended(d) = {}
  BY <1>1, <1>4 DEF IdAt
<1>5. CASE ~(IdTable[d] # Null /\ Ended(d) = {})
  <2>1. Assigned(d) # {} BY <1>1, <1>3, <1>5 DEF IdAt
  <2>2. PICK k \in Assigned(d) : TRUE BY <2>1
  <2>3. /\ k \in DOMAIN indRing /\ k \in About(d) /\ indRing[k].k = "rc"
        /\ indRing[k].rc = "ASSIGN_OK"
    BY DEF Assigned, Assigning, About
  <2>4. PICK n \in Nat : DOMAIN indRing = 1..n BY DEF Types
  <2>5. k <= k BY <2>3, <2>4
  <2>6. indRing[k].own = cardId[d]
    <3>1. \E j \in Assigned(d) : j <= k BY <2>5
    <3> QED BY <1>1, <2>3, <3>1 DEF IdAt
  <2>7. IsAnswer(indRing[k])
    BY <1>2, <2>3 DEF Placed, Channels, IsAnswer
  <2>8. indRing[k].rc = "OK"
    BY <1>2, <2>3, <2>6, <2>7 DEF Placed, Stages, AnswerAt
  <2> QED BY <2>3, <2>8
<1> QED BY <1>4, <1>5

-----------------------------------------------------------------------------
(* The acknowledges of indications *)

\* The acknowledges of d, written and on their way; what the card waits for;
\* the indications about d that the host has not acknowledged
Due(d) == IF d \in await THEN 1 ELSE 0
Sent(d) == Times(reqRing, "ack_id", d)
Acked(d) == Cnt(idAck, {d}) + Sent(d)
Given(d) == Cnt(indRing, IndOf(d, cardId[d]))
Later(d) == Cnt(rnrq, RnrOf(d))
Owned(d) == cardId[d] \in Entity \ rmPending

\* Every acknowledge is written before the REMOVE of its Id.
Last(d) ==
    /\ \A k \in DOMAIN reqRing : IsRemove(reqRing[k], d) =>
         /\ Cnt(idAck, {d}) = 0
         /\ \A p \in Names(reqRing, "ack_id", d) : p[1] < k
    /\ \A m \in jobs : IsRemove(m, d) => Acked(d) = 0

\* What host and card say about the acknowledges of d
AckAt(d) ==
    /\ Acked(d) <= Due(d)
    /\ Owned(d) => Acked(d) + Given(d) + Later(d) = Due(d)
    /\ d \in await => cardId[d] # Null
    /\ Last(d)

\* What is kept for later is meant for the entity that has the Id.
RnrAt == \A k \in DOMAIN rnrq :
           /\ IdTable[rnrq[k].Id] = rnrq[k].own
           /\ rnrq[k].own \notin rmPending

\* The acknowledges go out before the requests.
NothingLeft == pc = "req" /\ ReadyCount # 0 => idAck = <<>>

\* The inductive invariant of the acknowledges
AckInv == Short(reqRing) /\ RnrAt /\ NothingLeft /\ \A d \in Ids : AckAt(d)

\* The counts of an Id are numbers.
AckNumbers == \A d : /\ Cnt(idAck, {d}) \in Nat /\ Sent(d) \in Nat
                     /\ Given(d) \in Nat /\ Later(d) \in Nat
                     /\ Due(d) \in {0, 1}
LEMMA AckNumbersNow == Types => AckNumbers
<1> SUFFICES ASSUME Types PROVE AckNumbers OBVIOUS
<1>1. PICK i \in Seq(RingType), r \in Seq(REntry), a \in Seq(Ids),
           t \in Seq(ReqType) :
        i = indRing /\ r = rnrq /\ a = idAck /\ t = reqRing
  BY DEF Types, TypeOK
<1>2. \A d : /\ Cnt(i, IndOf(d, cardId[d])) \in Nat /\ Cnt(r, RnrOf(d)) \in Nat
             /\ Cnt(a, {d}) \in Nat /\ Times(t, "ack_id", d) \in Nat
  BY CntIs, NamesAre
<1> QED BY <1>1, <1>2 DEF AckNumbers, Sent, Given, Later, Due
LEMMA AckNumbersNext == Types' => AckNumbers' BY AckNumbersNow, PTL

\* An entry of the RNR queue about d belongs to the owner of d.
LEMMA LaterOwned ==
    ASSUME Types, Ents, RnrAt, NEW d \in Ids, Later(d) # 0
    PROVE  Owned(d) /\ cardId[d] = IdTable[d]
<1>1. PICK q \in Seq(REntry) : q = rnrq BY DEF Types, TypeOK
<1>2. Pos(q, RnrOf(d)) # {} BY <1>1, CntIs DEF Later
<1>3. PICK k \in DOMAIN rnrq : rnrq[k] \in RnrOf(d) BY <1>1, <1>2 DEF Pos
<1>4. IdTable[d] \in Entity \ rmPending
  BY <1>3 DEF RnrAt, RnrOf, REntry
<1>5. cardId[d] = IdTable[d] BY <1>4, OwnedId
<1> QED BY <1>4, <1>5 DEF Owned

\* A step that acknowledges what is there, and touches neither the request ring
\* nor what the card awaits for d
LEMMA AckKeep ==
    ASSUME Types, Types', Ents, NEW d \in Ids, AckAt(d),
           reqRing' = reqRing, cardId'[d] = cardId[d], Due(d)' = Due(d),
           \A m \in jobs' : IsRemove(m, d) => m \in jobs,
           Owned(d)' => /\ Owned(d)
                        /\ Cnt(idAck', {d}) + Given(d)' + Later(d)'
                             = Cnt(idAck, {d}) + Given(d) + Later(d),
           \/ Cnt(idAck', {d}) <= Cnt(idAck, {d})
           \/ /\ Owned(d)
              /\ Cnt(idAck', {d}) + Given(d)' + Later(d)'
                   = Cnt(idAck, {d}) + Given(d) + Later(d)
    PROVE  AckAt(d)'
<1>1. PICK a \in Nat, t \in Nat, g \in Nat, l \in Nat, u \in {0, 1} :
        /\ a = Cnt(idAck, {d}) /\ t = Sent(d) /\ g = Given(d) /\ l = Later(d)
        /\ u = Due(d)
  BY AckNumbersNow DEF AckNumbers
<1>2. PICK a1 \in Nat, g1 \in Nat, l1 \in Nat :
        a1 = Cnt(idAck', {d}) /\ g1 = Given(d)' /\ l1 = Later(d)'
  BY AckNumbersNext DEF AckNumbers
<1>3. Sent(d)' = t BY <1>1 DEF Sent
<1>4. a + t <= u /\ (Owned(d) => a + t + g + l = u)
  BY <1>1 DEF AckAt, Acked
<1>5. (a1 <= a) \/ (Owned(d) /\ a1 + g1 + l1 = a + g + l)
  BY <1>1, <1>2
<1>6. a1 + t <= u
  <2>1. CASE a1 <= a BY <1>4, <2>1
  <2>2. CASE Owned(d) /\ a1 + g1 + l1 = a + g + l
    <3>1. a1 + t + g1 + l1 = u BY <1>4, <2>2
    <3> QED BY <3>1
  <2> QED BY <1>5, <2>1, <2>2
<1>7. Owned(d)' => a1 + t + g1 + l1 = u
  <2> SUFFICES ASSUME Owned(d)' PROVE a1 + t + g1 + l1 = u OBVIOUS
  <2>1. Owned(d) /\ a1 + g1 + l1 = a + g + l BY <1>1, <1>2
  <2> QED BY <1>4, <2>1
<1>8. Acked(d) = a + t /\ Acked(d)' = a1 + t
  BY <1>1, <1>2, <1>3 DEF Acked
<1>9. d \in await' => cardId'[d] # Null
  BY DEF AckAt, Due
<1>10. ASSUME ~Owned(d) PROVE a1 <= a BY <1>5, <1>10
<1>11. ASSUME NEW k \in DOMAIN reqRing', IsRemove(reqRing'[k], d)
       PROVE  /\ Cnt(idAck', {d}) = 0
              /\ \A p \in Names(reqRing', "ack_id", d) : p[1] < k
  <2>1. cardId[d] \in rmPending BY <1>11, RemoveOwned
  <2>2. a1 <= a BY <1>10, <2>1 DEF Owned
  <2>3. a = 0 /\ \A p \in Names(reqRing, "ack_id", d) : p[1] < k
    BY <1>1, <1>11 DEF AckAt, Last
  <2> QED BY <1>2, <2>2, <2>3
<1>12. ASSUME NEW m \in jobs', IsRemove(m, d)
       PROVE  a1 + t = 0
  <2>1. m \in jobs BY <1>12
  <2>2. cardId[d] \in rmPending BY <1>12, <2>1, RemoveOwned
  <2>3. a1 <= a BY <1>10, <2>2 DEF Owned
  <2>4. a + t = 0 BY <1>1, <1>12, <2>1 DEF AckAt, Last, Acked
  <2> QED BY <2>3, <2>4
<1>13. Last(d)' BY <1>8, <1>11, <1>12 DEF Last
<1>14. Acked(d)' <= Due(d)' BY <1>1, <1>6, <1>8
<1>15. Owned(d)' => Acked(d)' + Given(d)' + Later(d)' = Due(d)'
  BY <1>1, <1>2, <1>7, <1>8
<1> QED BY <1>9, <1>13, <1>14, <1>15 DEF AckAt

\* A step that touches nothing of all this
LEMMA AckSame ==
    ASSUME Types, Types', Ents, NEW d \in Ids, AckAt(d),
           UNCHANGED <<reqRing, idAck, rnrq, rmPending>>, cardId'[d] = cardId[d],
           Given(d)' = Given(d), Due(d)' = Due(d),
           \A m \in jobs' : IsRemove(m, d) => m \in jobs
    PROVE  AckAt(d)'
<1>1. Cnt(idAck', {d}) = Cnt(idAck, {d}) /\ Later(d)' = Later(d)
  BY DEF Later
<1>2. Owned(d)' <=> Owned(d) BY DEF Owned
<1>3. Cnt(idAck', {d}) <= Cnt(idAck, {d})
  <2>1. PICK a \in Nat : a = Cnt(idAck, {d}) BY AckNumbersNow DEF AckNumbers
  <2> QED BY <1>1, <2>1
<1> QED BY <1>1, <1>2, <1>3, AckKeep

\* Acknowledges in two sequences of messages
LEMMA NamesConcat ==
    ASSUME NEW S, NEW s \in Seq(S), NEW t \in Seq(S), NEW kind, NEW x,
           Names(t, kind, x) = {}
    PROVE  Names(s \o t, kind, x) = Names(s, kind, x)
<1>1. PICK n \in Nat, l \in Nat : n = Len(s) /\ l = Len(t) BY LenProperties
<1>2. /\ DOMAIN s = 1..n /\ DOMAIN t = 1..l /\ DOMAIN (s \o t) = 1..(n + l)
      /\ \A k \in 1..n : (s \o t)[k] = s[k]
      /\ \A k \in 1..l : (s \o t)[n + k] = t[k]
  <2>1. \A k \in 1..(n + l) : (s \o t)[k] = IF k <= n THEN s[k] ELSE t[k - n]
    BY <1>1, ConcatProperties
  <2>2. \A k \in 1..l : n + k \in 1..(n + l) /\ ~(n + k <= n) /\ n + k - n = k
    OBVIOUS
  <2> QED BY <1>1, <2>1, <2>2, ConcatProperties, LenProperties
<1>3. ASSUME NEW p \in Names(s \o t, kind, x)
      PROVE  p \in Names(s, kind, x)
  <2>1. PICK k \in 1..(n + l), i \in 1..(AckPer + IdPer) : p = <<k, i>>
    BY <1>2, <1>3 DEF Names
  <2>2. /\ (s \o t)[k].k = kind /\ i \in DOMAIN (s \o t)[k].of
        /\ (s \o t)[k].of[i] = x
    BY <1>3, <2>1 DEF Names
  <2>3. k <= n
    <3> SUFFICES ASSUME ~(k <= n) PROVE FALSE OBVIOUS
    <3>1. PICK j \in 1..l : k = n + j
      <4>1. k - n \in 1..l /\ k = n + (k - n) OBVIOUS
      <4> QED BY <4>1
    <3>2. (s \o t)[k] = t[j] BY <1>2, <3>1
    <3>3. <<j, i>> \in Names(t, kind, x) BY <1>2, <2>2, <3>2 DEF Names
    <3> QED BY <3>3
  <2>4. k \in 1..n BY <2>3
  <2> QED BY <1>2, <2>1, <2>2, <2>4 DEF Names
<1>4. ASSUME NEW p \in Names(s, kind, x)
      PROVE  p \in Names(s \o t, kind, x)
  <2>1. PICK k \in 1..n, i \in 1..(AckPer + IdPer) : p = <<k, i>>
    BY <1>2, <1>4 DEF Names
  <2>2. k \in 1..(n + l) BY <1>1
  <2> QED BY <1>2, <1>4, <2>1, <2>2 DEF Names
<1> QED BY <1>3, <1>4

\* The acknowledges go out, with the other messages of the system.
LEMMA AckOutSystem ==
    ASSUME Types, Locals, Types', NEW d \in Ids, AckAt(d), OutSystem
    PROVE  AckAt(d)'
<1>1. PICK out \in Seq(SysType) :
        /\ reqRing' = reqRing \o out
        /\ Times(out, "ack_id", d) + Cnt(idAck', {d}) = Cnt(idAck, {d})
  BY OutAcks
<1>2. PICK s \in Seq(ReqType), o \in Seq(ReqType) : s = reqRing /\ o = out
  BY Amounts DEF Types
<1>3. Times(s \o o, "ack_id", d) = Times(s, "ack_id", d) + Times(o, "ack_id", d)
  BY TimesConcat
<1>4. UNCHANGED <<indRing, rnrq, cardId, await, jobs, rmPending>>
  BY DEF OutSystem, cardVars, idVars
<1>5. /\ Given(d)' = Given(d) /\ Later(d)' = Later(d) /\ Due(d)' = Due(d)
      /\ Owned(d)' <=> Owned(d)
  BY <1>4 DEF Given, Later, Due, Owned
<1>6. PICK a \in Nat, t \in Nat, u \in Nat, a1 \in Nat :
        /\ a = Cnt(idAck, {d}) /\ t = Times(s, "ack_id", d)
        /\ u = Times(o, "ack_id", d) /\ a1 = Cnt(idAck', {d})
  BY <1>2, NamesAre, AckNumbersNow, AckNumbersNext DEF AckNumbers
<1>7. u + a1 = a BY <1>1, <1>2, <1>6
<1>8. Acked(d) = a + t /\ Acked(d)' = a1 + (t + u)
  BY <1>1, <1>2, <1>3, <1>6 DEF Acked, Sent
<1>9. Acked(d)' = Acked(d)
  <2>1. a1 + (t + u) = (u + a1) + t OBVIOUS
  <2> QED BY <1>7, <1>8, <2>1
<1>10. ASSUME NEW k \in DOMAIN reqRing', IsRemove(reqRing'[k], d)
       PROVE  /\ Cnt(idAck', {d}) = 0
              /\ \A p \in Names(reqRing', "ack_id", d) : p[1] < k
  <2>1. PICK n \in Nat, l \in Nat : n = Len(s) /\ l = Len(o) BY LenProperties
  <2>2. k \in 1..(n + l) /\ (s \o o)[k] = IF k <= n THEN s[k] ELSE o[k - n]
    BY <1>1, <1>2, <1>10, <2>1, ConcatProperties, LenProperties
  <2>3. k <= n
    <3> SUFFICES ASSUME ~(k <= n) PROVE FALSE OBVIOUS
    <3>1. k - n \in 1..l /\ DOMAIN out = 1..l BY <1>2, <2>1, <2>2, LenProperties
    <3>2. out[k - n] \in SysType BY <3>1, ElementOfSeq
    <3>3. reqRing'[k] = out[k - n] BY <1>1, <1>2, <2>2
    <3> QED BY <1>10, <3>2, <3>3 DEF SysType, IsRemove
  <2>4. k \in DOMAIN s /\ reqRing'[k] = s[k]
    BY <1>1, <1>2, <2>1, <2>2, <2>3, LenProperties
  <2>5. a = 0 /\ \A p \in Names(s, "ack_id", d) : p[1] < k
    BY <1>2, <1>6, <1>10, <2>4 DEF AckAt, Last
  <2>6. a1 = 0 /\ u = 0 BY <1>7, <2>5
  <2>7. Names(o, "ack_id", d) = {} BY <1>6, <2>6, NamesAre
  <2>8. Names(s \o o, "ack_id", d) = Names(s, "ack_id", d)
    BY <2>7, NamesConcat
  <2> QED BY <1>1, <1>2, <1>6, <2>5, <2>6, <2>8
<1>11. Last(d)'
  BY <1>4, <1>9, <1>10 DEF Last, AckAt
<1> QED BY <1>4, <1>5, <1>9, <1>11 DEF AckAt

\* A request that goes out; what it removes is empty.
RemoveSent(d, e) ==
    /\ d = ent[e].Id /\ d \in Ids /\ IdTable[d] = e /\ cardId[d] = e
    /\ rmPending' = rmPending \cup {e} /\ CancelRnr(d)

\* What a request does that goes out
LEMMA RequestSent ==
    ASSUME Types, Locals, Ents, OutRequest
    PROVE  \E m \in ReqType, e \in Entity :
             /\ reqRing' = Append(reqRing, m) /\ m.k \in Code
             /\ pc = "req" /\ ReadyCount # 0
             /\ UNCHANGED <<idAck, indRing, IdTable, cardId, await, jobs>>
             /\ \/ m.k # "REMOVE" /\ UNCHANGED <<rmPending, rnrq>>
                \/ IsRemove(m, ent[e].Id) /\ RemoveSent(ent[e].Id, e)
<1>1. PICK f, e, m :
        /\ f \in fragFree \cup {NoFrag} /\ e = eno
        /\ m = ReqMsg(ent[e].Req, ent[e].Id, e, f)
        /\ pc = "req" /\ e # Null /\ ReadyCount # 0
        /\ reqRing' = Append(reqRing, m)
        /\ IF ent[e].Req = "REMOVE"
           THEN rmPending' = rmPending \cup {e} /\ CancelRnr(ent[e].Id)
           ELSE UNCHANGED <<rmPending, rnrq>>
        /\ UNCHANGED <<idAck, indRing, IdTable, cardId, await, jobs>>
  BY DEF OutRequest, rnrVars, cardVars
<1>2. e \in Entity BY <1>1 DEF Types, TypeOK
<1>3. m.k = ent[e].Req /\ m.Id = ent[e].Id BY <1>1 DEF ReqMsg
<1>4. m \in ReqType
  <2>1. f \in Frag \cup {NoFrag} BY <1>1 DEF Types, TypeOK
  <2>2. m \in Host BY <1>1, <1>2, <2>1, EntTypes DEF ReqMsg, Host
  <2> QED BY <2>2 DEF ReqType
<1>5. m.k \in Code BY <1>2, <1>3, EntTypes
<1>6. ASSUME ent[e].Req = "REMOVE"
      PROVE  ent[e].Id \in Ids /\ IdTable[ent[e].Id] = e /\ cardId[ent[e].Id] = e
  <2>1. PICK st \in [Entity -> Stage] : Placed(st) BY DEF Ents
  <2>2. queue # <<>> /\ e = Head(queue) BY <1>1 DEF Locals
  <2>3. 1 \in DOMAIN queue /\ e = queue[1]
    <3>1. PICK q \in Seq(Entity) : q = queue BY DEF Types, TypeOK
    <3>2. /\ Head(q) = q[1] /\ DOMAIN q = 1..Len(q) /\ Len(q) \in Nat \ {0}
      BY <2>2, <3>1, TailIs
    <3>3. 1 \in 1..Len(q) BY <3>2
    <3> QED BY <2>2, <3>1, <3>2, <3>3
  <2>4. st[e] = "queue" BY <2>1, <2>3 DEF Placed, Stages
  <2>5. ent[e].Id # 0 BY <1>2, <1>6, <2>1, <2>4 DEF Placed, Stages, EntityAt
  <2> QED BY <1>2, <2>1, <2>4, <2>5, Agreed DEF Ents
<1>7. \/ m.k # "REMOVE" /\ UNCHANGED <<rmPending, rnrq>>
      \/ IsRemove(m, ent[e].Id) /\ RemoveSent(ent[e].Id, e)
  BY <1>1, <1>3, <1>6 DEF IsRemove, RemoveSent
<1> QED BY <1>1, <1>2, <1>4, <1>5, <1>7

\* Acknowledges before the last message
LEMMA NamesAppend ==
    ASSUME NEW S, NEW s \in Seq(S), NEW m \in S, NEW kind, NEW x, m.k # kind
    PROVE  /\ Names(Append(s, m), kind, x) = Names(s, kind, x)
           /\ \A p \in Names(s, kind, x) : p[1] < Len(s) + 1
<1>1. Append(s, m) = s \o <<m>> BY AppendIsConcat
<1>2. PICK t \in Seq(S) : t = <<m>>
  <2>1. <<m>> \in Seq(S) OBVIOUS
  <2> QED BY <2>1
<1>3. Names(t, kind, x) = {} BY <1>2 DEF Names
<1>4. Names(s \o t, kind, x) = Names(s, kind, x) BY <1>3, NamesConcat
<1>5. ASSUME NEW p \in Names(s, kind, x) PROVE p[1] < Len(s) + 1
  <2>1. PICK n \in Nat : n = Len(s) /\ DOMAIN s = 1..n BY LenProperties
  <2>2. p[1] \in 1..n BY <1>5, <2>1 DEF Names
  <2> QED BY <2>1, <2>2
<1> QED BY <1>1, <1>2, <1>4, <1>5

\* A request goes out, and with a REMOVE nothing is left to acknowledge.
LEMMA AckOutRequest ==
    ASSUME IInv, Types', AckInv, NEW d \in Ids, OutRequest
    PROVE  AckAt(d)'
<1>0. Types /\ Locals /\ Kept /\ Ents /\ AckAt(d)
  BY InvGroups DEF IInv, Counts, Groups, AckInv
<1>1. PICK m \in ReqType, e \in Entity :
        /\ reqRing' = Append(reqRing, m) /\ m.k \in Code
        /\ pc = "req" /\ ReadyCount # 0
        /\ UNCHANGED <<idAck, indRing, IdTable, cardId, await, jobs>>
        /\ \/ m.k # "REMOVE" /\ UNCHANGED <<rmPending, rnrq>>
           \/ IsRemove(m, ent[e].Id) /\ RemoveSent(ent[e].Id, e)
  BY <1>0, RequestSent
<1>2. PICK s \in Seq(ReqType) : s = reqRing BY <1>0 DEF Types
<1>3. m.k # "ack_id" BY <1>1 DEF Code
<1>4. /\ Names(Append(s, m), "ack_id", d) = Names(s, "ack_id", d)
      /\ \A p \in Names(s, "ack_id", d) : p[1] < Len(s) + 1
  BY <1>3, NamesAppend
<1>5. Sent(d)' = Sent(d) BY <1>1, <1>2, <1>4 DEF Sent, Times
<1>6. /\ Acked(d)' = Acked(d) /\ Due(d)' = Due(d) /\ Given(d)' = Given(d)
  BY <1>1, <1>5 DEF Acked, Due, Given
<1>7. d \in await' => cardId'[d] # Null BY <1>0, <1>1 DEF AckAt
<1>8. Owned(d)' => Owned(d) /\ Later(d)' = Later(d)
  <2>1. CASE m.k # "REMOVE" /\ UNCHANGED <<rmPending, rnrq>>
    BY <1>1, <2>1 DEF Owned, Later
  <2>2. CASE RemoveSent(ent[e].Id, e)
    <3>1. CASE d = ent[e].Id
      <4>1. cardId'[d] = e /\ e \in rmPending' BY <1>1, <2>2, <3>1 DEF RemoveSent
      <4> QED BY <4>1 DEF Owned
    <3>2. CASE d # ent[e].Id
      <4>1. rmPending \subseteq rmPending' /\ CancelRnr(ent[e].Id)
        BY <2>2 DEF RemoveSent
      <4>2. Later(d)' = Later(d) BY <1>0, <3>2, <4>1, CancelCounts DEF Later
      <4>3. Owned(d)' => Owned(d) BY <1>1, <4>1 DEF Owned
      <4> QED BY <4>2, <4>3
    <3> QED BY <3>1, <3>2
  <2> QED BY <1>1, <2>1, <2>2
<1>9. ASSUME NEW k \in DOMAIN reqRing', IsRemove(reqRing'[k], d)
      PROVE  /\ Cnt(idAck', {d}) = 0
             /\ \A p \in Names(reqRing', "ack_id", d) : p[1] < k
  <2>1. PICK n \in Nat : n = Len(s) /\ DOMAIN s = 1..n BY LenProperties
  <2>2. /\ k \in 1..(n + 1) /\ Append(s, m)[n + 1] = m
        /\ \A j \in 1..n : Append(s, m)[j] = s[j]
    BY <1>1, <1>2, <1>9, <2>1, AppendIs
  <2>3. CASE k = n + 1
    <3>1. idAck = <<>> BY <1>1 DEF AckInv, NothingLeft
    <3>2. Cnt(idAck, {d}) = 0
      <4>1. Pos(idAck, {d}) = {} BY <3>1 DEF Pos
      <4> QED BY <4>1, FS_EmptySet DEF Cnt
    <3> QED BY <1>1, <1>2, <1>4, <2>1, <2>3, <3>2
  <2>4. CASE k # n + 1
    <3>1. k \in 1..n BY <2>2, <2>4
    <3>2. k \in DOMAIN reqRing /\ reqRing'[k] = reqRing[k]
      BY <1>1, <1>2, <2>1, <2>2, <3>1
    <3>3. /\ Cnt(idAck, {d}) = 0
          /\ \A p \in Names(reqRing, "ack_id", d) : p[1] < k
      BY <1>0, <1>9, <3>2 DEF AckAt, Last
    <3> QED BY <1>1, <1>2, <1>4, <3>3
  <2> QED BY <2>3, <2>4
<1>10. \A x \in jobs' : IsRemove(x, d) => Acked(d)' = 0
  BY <1>0, <1>1, <1>6 DEF AckAt, Last
<1>11. Last(d)' BY <1>9, <1>10 DEF Last
<1> QED BY <1>0, <1>6, <1>7, <1>8, <1>11 DEF AckAt

\* The card takes acknowledges, or another message of the host.
LEMMA AckTaken ==
    ASSUME Types, Types', Ents, Short(reqRing), NEW d \in Ids, AckAt(d),
           NEW m, CardTake(m),
           await' = IF m.k = "ack_id" THEN await \ SeqSet(m.of) ELSE await,
           jobs' \subseteq jobs \cup {m}
    PROVE  AckAt(d)'
<1>1. UNCHANGED <<idAck, rnrq, rmPending, indRing, cardId>>
  BY DEF CardTake, HostFrame, ackVars, rnrVars, idVars
<1>2. /\ m \in ReqType /\ m = Head(reqRing) /\ reqRing' = Tail(reqRing)
      /\ reqRing # <<>>
      /\ Times(reqRing, "ack_id", d) = Times(reqRing', "ack_id", d)
           + (IF m.k = "ack_id" THEN Cnt(m.of, {d}) ELSE 0)
      /\ m.k = "ack_id" => /\ Cnt(m.of, {d}) \in Nat
                           /\ Cnt(m.of, {d}) = 0 <=> d \notin SeqSet(m.of)
  BY TakeCounts
<1>3. PICK z \in Nat : z = IF m.k = "ack_id" THEN Cnt(m.of, {d}) ELSE 0
  BY <1>2
<1>4. PICK a \in Nat, t1 \in Nat, g \in Nat, l \in Nat, u \in {0, 1} :
        /\ a = Cnt(idAck, {d}) /\ t1 = Sent(d)' /\ g = Given(d) /\ l = Later(d)
        /\ u = Due(d)
  BY AckNumbersNow, AckNumbersNext DEF AckNumbers
<1>5. Sent(d) = t1 + z BY <1>2, <1>3, <1>4 DEF Sent
<1>6. Acked(d) = a + (t1 + z) /\ Acked(d)' = a + t1
  BY <1>1, <1>4, <1>5 DEF Acked
<1>7. Given(d)' = g /\ Later(d)' = l /\ (Owned(d)' <=> Owned(d))
  BY <1>1, <1>4 DEF Given, Later, Owned
<1>8. a + (t1 + z) <= u /\ (Owned(d) => a + (t1 + z) + g + l = u)
  BY <1>4, <1>6 DEF AckAt
<1>9. Due(d)' = IF z = 0 THEN u ELSE 0
  <2>1. CASE m.k = "ack_id"
    <3>1. z = 0 <=> d \notin SeqSet(m.of) BY <1>2, <1>3, <2>1
    <3> QED BY <1>4, <2>1, <3>1 DEF Due
  <2>2. CASE m.k # "ack_id"
    BY <1>3, <1>4, <2>2 DEF Due
  <2> QED BY <2>1, <2>2
<1>10. Acked(d)' <= Due(d)' /\ (Owned(d)' => Acked(d)' + Given(d)' + Later(d)' = Due(d)')
  <2>1. CASE z = 0
    <3>1. a + t1 <= u /\ (Owned(d) => a + t1 + g + l = u) BY <1>8, <2>1
    <3> QED BY <1>6, <1>7, <1>9, <2>1, <3>1
  <2>2. CASE z # 0
    <3>1. a + t1 = 0 BY <1>8, <2>2
    <3>2. Owned(d) => a + t1 + g + l = 0 BY <1>8, <2>2
    <3> QED BY <1>6, <1>7, <1>9, <2>2, <3>1, <3>2
  <2> QED BY <2>1, <2>2
<1>11. d \in await' => cardId'[d] # Null
  <2>1. await' \subseteq await OBVIOUS
  <2> QED BY <1>1, <2>1 DEF AckAt
<1>12. PICK s \in Seq(ReqType), n \in Nat \ {0} :
         /\ s = reqRing /\ n = Len(s) /\ DOMAIN s = 1..n
         /\ DOMAIN Tail(s) = 1..(n - 1) /\ Head(s) = s[1]
         /\ \A k \in 1..(n - 1) : Tail(s)[k] = s[k + 1]
  <2>1. PICK s \in Seq(ReqType) : s = reqRing BY DEF Types
  <2>2. PICK n \in Nat \ {0} : n = Len(s) BY <1>2, <2>1, TailIs
  <2> QED BY <1>2, <2>1, <2>2, TailIs
<1>13. ASSUME NEW k \in DOMAIN reqRing', IsRemove(reqRing'[k], d)
       PROVE  /\ Cnt(idAck', {d}) = 0
              /\ \A p \in Names(reqRing', "ack_id", d) : p[1] < k
  <2>1. k \in 1..(n - 1) BY <1>2, <1>12, <1>13
  <2>2. k + 1 \in 1..n /\ reqRing'[k] = s[k + 1] BY <1>2, <1>12, <2>1
  <2>3. a = 0 /\ \A p \in Names(s, "ack_id", d) : p[1] < k + 1
    BY <1>4, <1>12, <1>13, <2>2 DEF AckAt, Last
  <2>4. ASSUME NEW p \in Names(reqRing', "ack_id", d) PROVE p[1] < k
    <3>1. PICK j \in 1..(n - 1), i \in 1..(AckPer + IdPer) : p = <<j, i>>
      BY <1>2, <1>12, <2>4 DEF Names
    <3>2. j + 1 \in 1..n /\ reqRing'[j] = s[j + 1] BY <1>2, <1>12, <3>1
    <3>3. <<j + 1, i>> \in Names(s, "ack_id", d)
      BY <1>12, <2>4, <3>1, <3>2 DEF Names
    <3>4. j + 1 < k + 1 BY <2>3, <3>3
    <3> QED BY <2>1, <3>1, <3>4
  <2> QED BY <1>1, <1>4, <2>3, <2>4
<1>14. ASSUME NEW x \in jobs', IsRemove(x, d) PROVE Acked(d)' = 0
  <2>1. CASE x \in jobs
    <3>1. a + (t1 + z) = 0 BY <1>6, <1>14, <2>1 DEF AckAt, Last
    <3> QED BY <1>6, <3>1
  <2>2. CASE x = m
    <3>1. 1 \in 1..n OBVIOUS
    <3>2. s[1] = m /\ 1 \in DOMAIN reqRing BY <1>2, <1>12, <3>1
    <3>3. a = 0 /\ \A p \in Names(s, "ack_id", d) : p[1] < 1
      BY <1>4, <1>12, <1>14, <2>2, <3>2 DEF AckAt, Last
    <3>4. Names(s, "ack_id", d) = {}
      <4> SUFFICES ASSUME NEW p \in Names(s, "ack_id", d) PROVE FALSE OBVIOUS
      <4>1. p[1] \in 1..n BY <1>12 DEF Names
      <4>2. p[1] < 1 BY <3>3
      <4> QED BY <4>1, <4>2
    <3>5. Sent(d) = 0 BY <1>12, <3>4, NamesAre DEF Sent
    <3>6. t1 = 0 BY <1>5, <3>5
    <3> QED BY <1>6, <3>3, <3>6
  <2> QED BY <1>14, <2>1, <2>2
<1>15. Last(d)' BY <1>13, <1>14 DEF Last
<1> QED BY <1>10, <1>11, <1>15 DEF AckAt

\* The card posts something that is no indication.
LEMMA AckPosted ==
    ASSUME Types, Types', Ents, NEW d \in Ids, AckAt(d), NEW m \in RingType,
           CardPost(m), m.k # "ind", cardId'[d] = cardId[d],
           d \in await' <=> d \in await, jobs' \subseteq jobs
    PROVE  AckAt(d)'
<1>1. UNCHANGED <<reqRing, idAck, rnrq, rmPending>> BY PostIs
<1>2. PICK X : X = IndOf(d, cardId[d]) OBVIOUS
<1>3. m \notin X BY <1>2 DEF IndOf
<1>4. Cnt(indRing', X) = Cnt(indRing, X)
  <2>1. Cnt(indRing', X) = Cnt(indRing, X) + 0 BY <1>3, PostCounts
  <2>2. PICK g \in Nat : g = Cnt(indRing, X)
    BY <1>2, AckNumbersNow DEF AckNumbers, Given
  <2> QED BY <2>1, <2>2
<1>5. Given(d)' = Given(d) BY <1>2, <1>4 DEF Given
<1>6. Due(d)' = Due(d) BY DEF Due
<1> QED BY <1>1, <1>5, <1>6, AckSame

\* The card posts an indication: it now waits for the acknowledge.
LEMMA AckCardInd ==
    ASSUME Types, Types', Ents, NEW d \in Ids, AckAt(d), CardInd
    PROVE  AckAt(d)'
<1>1. PICK i, b, big, m :
        /\ i \in Ids \ await /\ b \in cardBufs \cup {0} /\ big \in BOOLEAN
        /\ m = Ind(i, cardId[i], b, big) /\ cardId[i] # Null /\ CardPost(m)
        /\ await' = await \cup {i} /\ UNCHANGED <<jobs, cardId>>
  BY DEF CardInd
<1>2. UNCHANGED <<reqRing, idAck, rnrq, rmPending>> BY <1>1, PostIs
<1>3. m.k = "ind" /\ m.Id = i /\ m.own = cardId[i] BY <1>1 DEF Ind
<1>4. m \in RingType
  <2>1. cardId[i] \in Entity /\ b \in RxBuf \cup {0} BY <1>1 DEF Types
  <2> QED BY <1>1, <2>1, MsgTypes
<1>5. PICK X : X = IndOf(d, cardId[d]) OBVIOUS
<1>6. m \in X <=> i = d BY <1>3, <1>4, <1>5 DEF IndOf
<1>7. PICK a \in Nat, t \in Nat, g \in Nat, l \in Nat, u \in {0, 1} :
        /\ a = Cnt(idAck, {d}) /\ t = Sent(d) /\ g = Given(d) /\ l = Later(d)
        /\ u = Due(d)
  BY AckNumbersNow DEF AckNumbers
<1>8. Given(d)' = g + (IF i = d THEN 1 ELSE 0)
  BY <1>1, <1>4, <1>5, <1>6, <1>7, PostCounts DEF Given
<1>9. Due(d)' = IF i = d THEN 1 ELSE u BY <1>1, <1>7 DEF Due
<1>10. i = d => u = 0 BY <1>1, <1>7 DEF Due
<1>11. /\ Acked(d) = a + t /\ Acked(d)' = a + t /\ Later(d)' = l
       /\ (Owned(d)' <=> Owned(d))
  BY <1>1, <1>2, <1>7 DEF Acked, Sent, Later, Owned
<1>12. a + t <= u /\ (Owned(d) => a + t + g + l = u)
  BY <1>7, <1>11 DEF AckAt
<1>13. /\ Acked(d)' <= Due(d)'
       /\ Owned(d)' => Acked(d)' + Given(d)' + Later(d)' = Due(d)'
  <2>1. CASE i = d
    <3>1. u = 0 /\ a + t <= 0 BY <1>10, <1>12, <2>1
    <3>2. Owned(d) => a + t + g + l = 0 BY <1>10, <1>12, <2>1
    <3>3. Owned(d) => a + t + (g + 1) + l = 1 BY <3>2
    <3> QED BY <1>8, <1>9, <1>11, <2>1, <3>1, <3>3
  <2>2. CASE i # d
    <3>1. Given(d)' = g /\ Due(d)' = u BY <1>8, <1>9, <2>2
    <3> QED BY <1>11, <1>12, <3>1
  <2> QED BY <2>1, <2>2
<1>14. d \in await' => cardId'[d] # Null BY <1>1 DEF AckAt
<1>15. Last(d)' BY <1>1, <1>2, <1>11 DEF AckAt, Last
<1> QED BY <1>13, <1>14, <1>15 DEF AckAt

\* The card gives a free Id to an entity: nothing in the ring or kept for later
\* is meant for it.
LEMMA AckCardAssign ==
    ASSUME Types, Types', Ents, RnrAt, NEW d \in Ids, AckAt(d),
           NEW j \in jobs, CardAssign(j)
    PROVE  AckAt(d)'
<1>1. PICK m, i :
        /\ CardPost(m) /\ j.k = "ASSIGN" /\ jobs' = jobs \ {j}
        /\ await' = await
        /\ \/ /\ i \in Ids /\ cardId[i] = Null /\ m = Rc("ASSIGN_OK", i, j.own, "none")
              /\ cardId' = [cardId EXCEPT ![i] = j.own]
           \/ /\ m = Rc("ASSIGN_FAIL", 0, j.own, "none") /\ cardId' = cardId
  <2>1. /\ await' = await
        /\ \/ \E i \in Ids :
                /\ cardId[i] = Null
                /\ CardJob(j, {"ASSIGN"}, Rc("ASSIGN_OK", i, j.own, "none"))
                /\ cardId' = [cardId EXCEPT ![i] = j.own]
           \/ /\ CardJob(j, {"ASSIGN"}, Rc("ASSIGN_FAIL", 0, j.own, "none"))
              /\ cardId' = cardId
    BY DEF CardAssign
  <2>2. CASE /\ CardJob(j, {"ASSIGN"}, Rc("ASSIGN_FAIL", 0, j.own, "none"))
             /\ cardId' = cardId
    <3>1. PICK m : m = Rc("ASSIGN_FAIL", 0, j.own, "none") OBVIOUS
    <3>2. CardPost(m) /\ j.k = "ASSIGN" /\ jobs' = jobs \ {j}
      BY <2>2, <3>1 DEF CardJob
    <3> QED BY <2>1, <2>2, <3>1, <3>2
  <2>3. CASE \E i \in Ids :
               /\ cardId[i] = Null
               /\ CardJob(j, {"ASSIGN"}, Rc("ASSIGN_OK", i, j.own, "none"))
               /\ cardId' = [cardId EXCEPT ![i] = j.own]
    <3>1. PICK i \in Ids :
            /\ cardId[i] = Null
            /\ CardJob(j, {"ASSIGN"}, Rc("ASSIGN_OK", i, j.own, "none"))
            /\ cardId' = [cardId EXCEPT ![i] = j.own]
      BY <2>3
    <3>2. PICK m : m = Rc("ASSIGN_OK", i, j.own, "none") OBVIOUS
    <3>3. CardPost(m) /\ j.k = "ASSIGN" /\ jobs' = jobs \ {j}
      BY <3>1, <3>2 DEF CardJob
    <3> QED BY <2>1, <3>1, <3>2, <3>3
  <2> QED BY <2>1, <2>2, <2>3
<1>2. PICK st \in [Entity -> Stage] : Placed(st) BY DEF Ents
<1>3. j.own \in Entity /\ j.Id = ent[j.own].Id /\ j.Id = 0
  BY <1>1, <1>2, JobIs DEF Ents, IsReq, Code
<1>4. m \in RingType /\ m.k = "rc"
  <2>1. ASSUME NEW rc \in {"ASSIGN_OK", "ASSIGN_FAIL"}, NEW n \in Ids \cup {0},
               m = Rc(rc, n, j.own, "none")
        PROVE  m \in RingType /\ m.k = "rc"
    BY <1>3, <2>1, MsgTypes DEF Rc
  <2>2. \/ i \in Ids \cup {0} /\ m = Rc("ASSIGN_OK", i, j.own, "none")
        \/ m = Rc("ASSIGN_FAIL", 0, j.own, "none")
    BY <1>1
  <2>3. 0 \in Ids \cup {0} OBVIOUS
  <2> QED BY <2>1, <2>2, <2>3
<1>5. CASE cardId'[d] = cardId[d]
  BY <1>1, <1>4, <1>5, AckPosted
<1>6. CASE cardId'[d] # cardId[d]
  <2>1. i = d /\ cardId[d] = Null /\ cardId'[d] = j.own
    <3>1. cardId \in [Ids -> Entity \cup {Null}] BY DEF Types
    <3> QED BY <1>1, <1>6, <3>1
  <2>2. UNCHANGED <<reqRing, idAck, rnrq, rmPending>> BY <1>1, PostIs
  <2>3. Due(d) = 0 /\ Due(d)' = 0 BY <1>1, <2>1 DEF AckAt, Due
  <2>4. Acked(d)' = 0
    <3>1. PICK a \in Nat, t \in Nat : a = Cnt(idAck, {d}) /\ t = Sent(d)
      BY AckNumbersNow DEF AckNumbers
    <3>2. a + t <= 0 BY <2>3, <3>1 DEF AckAt, Acked
    <3>3. a + t = 0 BY <3>2
    <3> QED BY <2>2, <3>1, <3>3 DEF Acked, Sent
  <2>5. Later(d)' = 0
    <3>1. Later(d) = 0
      <4> SUFFICES ASSUME Later(d) # 0 PROVE FALSE OBVIOUS
      <4>1. cardId[d] \in Entity BY LaterOwned DEF Owned
      <4> QED BY <2>1, <4>1, Numbers
    <3> QED BY <2>2, <3>1 DEF Later
  <2>6. Given(d)' = 0
    <3>1. IdAt(d) BY DEF Ents, Known
    <3>2. IdTable[d] # j.own BY <1>3, <3>1, Numbers DEF IdAt
    <3>3. Assigned(d) = {} BY <2>1, <3>1 DEF IdAt
    <3>4. PICK s \in Seq(RingType) : s = indRing BY DEF Types
    <3>5. Pos(s, IndOf(d, j.own)) = {}
      <4> SUFFICES ASSUME NEW k \in Pos(s, IndOf(d, j.own)) PROVE FALSE OBVIOUS
      <4>1. /\ k \in DOMAIN indRing /\ indRing[k].k = "ind" /\ indRing[k].Id = d
            /\ indRing[k].own = j.own
        BY <3>4 DEF Pos, IndOf
      <4>2. k \in About(d) BY <4>1 DEF About, IsAbout
      <4>3. indRing[k].own = IdTable[d] BY <3>1, <3>3, <4>2 DEF IdAt
      <4> QED BY <3>2, <4>1, <4>3
    <3>6. Cnt(s, IndOf(d, j.own)) = 0 BY <3>5, CntIs
    <3>7. m \notin IndOf(d, j.own) BY <1>4 DEF IndOf
    <3>8. Cnt(indRing', IndOf(d, j.own)) = 0 + 0
      BY <1>1, <1>4, <3>4, <3>6, <3>7, PostCounts
    <3> QED BY <2>1, <3>8 DEF Given
  <2>7. ASSUME NEW x, IsRemove(x, d),
               x \in jobs \/ \E k \in DOMAIN reqRing : x = reqRing[k]
        PROVE  FALSE
    <3>1. cardId[d] \in rmPending BY <2>7, RemoveOwned
    <3> QED BY <2>1, <3>1, Numbers DEF Types, TypeOK
  <2>8. Last(d)' BY <1>1, <2>2, <2>7 DEF Last
  <2>9. d \in await' => cardId'[d] # Null
    BY <1>3, <2>1, Numbers
  <2>10. 0 <= 0 /\ 0 + 0 + 0 = 0 OBVIOUS
  <2> QED BY <2>3, <2>4, <2>5, <2>6, <2>8, <2>9, <2>10 DEF AckAt
<1> QED BY <1>5, <1>6

\* The card answers a REMOVE: nothing more comes for the Id.
LEMMA AckCardRemove ==
    ASSUME Types, Types', Ents, NEW d \in Ids, AckAt(d),
           NEW j \in jobs, CardRemove(j)
    PROVE  AckAt(d)'
<1>1. PICK m, ext :
        /\ ext \in {"none", "OK_FC", "REMOVE_COMPLETE"} /\ CardPost(m) /\ j.k = "REMOVE" /\ jobs' = jobs \ {j}
        /\ m = Rc("OK", j.Id, j.own, ext)
        /\ cardId' = [cardId EXCEPT ![j.Id] = Null]
        /\ await' = await \ {j.Id}
  <2>1. PICK ext \in {"none", "OK_FC", "REMOVE_COMPLETE"} :
          ext = IF j.own \in DSIG THEN "none" ELSE "REMOVE_COMPLETE"
    OBVIOUS
  <2>2. PICK m : m = Rc("OK", j.Id, j.own, ext) OBVIOUS
  <2>3. CardPost(m) /\ j.k = "REMOVE" /\ jobs' = jobs \ {j}
    BY <2>1, <2>2 DEF CardRemove, CardJob
  <2>4. /\ cardId' = [cardId EXCEPT ![j.Id] = Null]
        /\ await' = await \ {j.Id}
    BY DEF CardRemove
  <2> QED BY <2>2, <2>3, <2>4
<1>2. PICK st \in [Entity -> Stage] : Placed(st) BY DEF Ents
<1>3. j.own \in Entity /\ j.Id \in Ids
  BY <1>1, <1>2, JobIs DEF Ents, IsReq, Code
<1>4. m \in RingType /\ m.k = "rc" BY <1>1, <1>3, MsgTypes DEF Rc
<1>5. cardId \in [Ids -> Entity \cup {Null}] BY DEF Types
<1>6. CASE d # j.Id
  <2>1. cardId'[d] = cardId[d] /\ (d \in await' <=> d \in await)
    BY <1>1, <1>5, <1>6
  <2> QED BY <1>1, <1>4, <2>1, AckPosted
<1>7. CASE d = j.Id
  <2>1. IsRemove(j, d) BY <1>1, <1>7 DEF IsRemove
  <2>2. Acked(d) = 0 BY <2>1 DEF AckAt, Last
  <2>3. UNCHANGED <<reqRing, idAck>> BY <1>1, PostIs
  <2>4. Acked(d)' = 0 BY <2>2, <2>3 DEF Acked, Sent
  <2>5. cardId'[d] = Null /\ d \notin await' BY <1>1, <1>5, <1>7
  <2>6. Due(d)' = 0 /\ ~Owned(d)' BY <2>5, Numbers DEF Due, Owned
  <2>7. Last(d)' BY <2>3, <2>4 DEF AckAt, Last
  <2> QED BY <2>4, <2>5, <2>6, <2>7 DEF AckAt
<1> QED BY <1>6, <1>7

\* Everything else that the card does
LEMMA AckCardNext ==
    ASSUME IInv, Types', AckInv, NEW d \in Ids, CardNext
    PROVE  AckAt(d)'
<1>0. /\ Types /\ Locals /\ Ents /\ AckAt(d) /\ RnrAt /\ Short(reqRing)
  BY DEF IInv, Counts, AckInv
<1>1. CASE CardReads
  <2>1. PICK m : /\ CardTake(m) /\ jobs' \subseteq jobs \cup {m}
                 /\ await' = IF m.k = "ack_id" THEN await \ SeqSet(m.of)
                             ELSE await
    BY <1>1 DEF CardReads, CardSystem, CardRequest, Code
  <2> QED BY <1>0, <2>1, AckTaken
<1>2. CASE CardInd BY <1>0, <1>2, AckCardInd
<1>3. CASE \E e \in Entity : CardAnswers(e)
  <2>1. PICK j \in jobs : CardAssign(j) \/ CardData(j) \/ CardRemove(j)
    BY <1>3 DEF CardAnswers
  <2>2. CASE CardAssign(j) BY <1>0, <2>2, AckCardAssign
  <2>3. CASE CardRemove(j) BY <1>0, <2>3, AckCardRemove
  <2>4. CASE CardData(j)
    <3>1. UNCHANGED <<cardId, await>> /\ jobs' \subseteq jobs
      BY <2>4 DEF CardData, CardJob
    <3>2. PICK m \in RingType : CardPost(m) /\ m.k # "ind"
      <4>1. \E rc \in {"OK", "OK_FC"} : CardPost(Rc(rc, j.Id, j.own, "none"))
        BY <2>4 DEF CardData, CardJob
      <4>2. PICK st \in [Entity -> Stage] : Placed(st) BY <1>0 DEF Ents
      <4>3. IsReq(j) BY <2>4 DEF CardData, CardJob, IsReq, Code
      <4>4. j.own \in Entity /\ j.Id \in Ids \cup {0}
        BY <1>0, <4>2, <4>3, JobIs, EntTypes DEF Ents
      <4>5. \A rc \in {"OK", "OK_FC"} :
              /\ Rc(rc, j.Id, j.own, "none") \in RingType
              /\ Rc(rc, j.Id, j.own, "none").k = "rc"
        BY <4>4, MsgTypes DEF Rc
      <4> QED BY <4>1, <4>5
    <3> QED BY <1>0, <3>1, <3>2, AckPosted
  <2> QED BY <2>1, <2>2, <2>3, <2>4
<1>4. CASE CardStops \/ CardXon \/ CardAck \/ CardTick \/ CardWarn
  <2>1. UNCHANGED <<cardId, await>> /\ jobs' \subseteq jobs
    BY <1>4 DEF CardStops, CardXon, CardAck, CardTick, CardWarn, CardJob
  <2>2. PICK m \in RingType : CardPost(m) /\ m.k # "ind"
    <3>1. CASE CardXon
      <4>1. PICK i \in held : CardPost(Rc("OK", i, cardId[i], "OK_FC"))
        BY <3>1 DEF CardXon
      <4>2. i \in Ids /\ cardId[i] \in Entity
        BY <1>0 DEF Types, Ents, Placed, Channels
      <4>3. Rc("OK", i, cardId[i], "OK_FC") \in RingType BY <4>2, MsgTypes
      <4>4. Rc("OK", i, cardId[i], "OK_FC").k = "rc" BY DEF Rc
      <4> QED BY <4>1, <4>3, <4>4
    <3>2. CASE CardAck
      BY <1>0, <3>2, MsgTypes DEF CardAck, Types
    <3>3. CASE CardStops \/ CardTick \/ CardWarn
      BY <3>3, MsgTypes DEF CardStops, CardJob, CardTick, CardWarn
    <3> QED BY <1>4, <3>1, <3>2, <3>3
  <2> QED BY <1>0, <2>1, <2>2, AckPosted
<1> QED BY <1>1, <1>2, <1>3, <1>4 DEF CardNext

\* A message that is no indication is taken from the ring.
LEMMA GivenHead ==
    ASSUME Types, Types', Locals, NEW d, NEW k, NEW m, Dispatch(k, m), k # "ind",
           cardId'[d] = cardId[d]
    PROVE  Given(d)' = Given(d)
<1>1. PICK X : X = IndOf(d, cardId[d]) OBVIOUS
<1>2. Cnt(indRing, X) = Cnt(indRing', X) + 0
  <2>1. m.k = k /\ Cnt(indRing, X) = Cnt(indRing', X) + (IF m \in X THEN 1 ELSE 0)
    BY HeadCounts
  <2>2. m \notin X BY <1>1, <2>1 DEF IndOf
  <2> QED BY <2>1, <2>2
<1>3. PICK g \in Nat : g = Given(d)' BY AckNumbersNext DEF AckNumbers
<1>4. Cnt(indRing', X) = g BY <1>1, <1>3 DEF Given
<1> QED BY <1>1, <1>2, <1>3, <1>4 DEF Given

\* What the return code to a REMOVE says
LEMMA RemovedIs ==
    ASSUME Types, Locals, Ents, RnrAt, RcRemoved
    PROVE  \E e, i, m :
             /\ e \in rmPending /\ i \in Ids
             /\ Dispatch("rc", m) /\ IdTable[i] = e
             /\ 1 \in Ended(i) /\ \A d \in Ids : IdTable[d] = e => d = i
             /\ rmPending' = rmPending \ {e}
             /\ IdTable' = [IdTable EXCEPT ![i] = Null]
             /\ UNCHANGED <<rnrq, idAck>>
             /\ \A k \in DOMAIN rnrq : rnrq[k].Id # i
<1>1. PICK e, m :
        /\ e \in Entity /\ Dispatch("rc", m) /\ m.Id # 0 /\ m = Head(indRing)
        /\ e = IdTable[m.Id] /\ Removal(e, m) /\ ~Premature(e, m)
        /\ rmPending' = rmPending \ {e}
        /\ CancelRnr(m.Id) /\ IdTable' = [IdTable EXCEPT ![m.Id] = Null]
        /\ idAck' = idAck
  BY DEF RcRemoved
<1>2. /\ indRing # <<>> /\ m.k = "rc" /\ m \in RingType
      /\ indRing \in Seq(RingType)
  BY <1>1, Dispatched
<1>3. m \in RcType BY <1>2, RingKinds
<1>4. PICK i \in Ids : i = m.Id BY <1>1, <1>3 DEF RcType
<1>5. e \in rmPending /\ m.rc = "OK" BY <1>1 DEF Removal
<1>6. m.own = e /\ m.rc # "ASSIGN_OK" /\ ent[e].Id = m.Id
  BY <1>1, <1>2, <1>4, RcOwner
<1>7. PICK st \in [Entity -> Stage] : Placed(st) BY DEF Ents
<1>8. 1 \in DOMAIN indRing /\ indRing[1] = m
  <2>1. /\ Head(indRing) = indRing[1] /\ Len(indRing) \in Nat \ {0}
        /\ DOMAIN indRing = 1..Len(indRing)
    BY <1>2, TailIs
  <2>2. PICK l \in Nat \ {0} : l = Len(indRing) BY <2>1
  <2>3. 1 \in 1..l OBVIOUS
  <2> QED BY <1>1, <2>1, <2>2, <2>3
<1>9. m.ext # "OK_FC"
  <2> SUFFICES ASSUME m.ext = "OK_FC" PROVE FALSE OBVIOUS
  <2>1. m.own \notin DSIG BY <1>2, <1>7, <1>8 DEF Placed, Channels
  <2> QED BY <1>1, <1>6, <2>1 DEF Premature
<1>10. 1 \in Ended(i)
  BY <1>2, <1>4, <1>5, <1>6, <1>8, <1>9
     DEF Ended, Ending, IsAbout, IsAnswer
<1>11. ASSUME NEW d \in Ids, IdTable[d] = e PROVE d = i
  <2>1. IdAt(d) BY DEF Ents, Known
  <2> QED BY <1>1, <1>4, <1>6, <1>11, <2>1 DEF IdAt
<1>12. ASSUME NEW k \in DOMAIN rnrq PROVE rnrq[k].Id # i
  <2> SUFFICES ASSUME rnrq[k].Id = i PROVE FALSE OBVIOUS
  <2>1. rnrq[k].own = e /\ rnrq[k].own \notin rmPending
    BY <1>1, <1>4 DEF RnrAt
  <2> QED BY <1>5, <2>1
<1>13. rnrq' = rnrq
  <2>1. WithId(m.Id) = {} BY <1>4, <1>12 DEF WithId
  <2> QED BY <1>1, <2>1 DEF CancelRnr, rnrVars
<1>14. /\ Dispatch("rc", m) /\ IdTable[i] = e
       /\ rmPending' = rmPending \ {e} /\ UNCHANGED <<rnrq, idAck>>
       /\ IdTable' = [IdTable EXCEPT ![i] = Null]
  BY <1>1, <1>4, <1>13
<1> QED BY <1>5, <1>10, <1>11, <1>12, <1>14

\* The entity that was removed has no Id on the card any more.
LEMMA AckRcRemoved ==
    ASSUME Types, Types', Locals, Ents, RnrAt, NEW d \in Ids, AckAt(d), RcRemoved
    PROVE  AckAt(d)'
<1>1. PICK e, i, m :
        /\ e \in rmPending /\ i \in Ids
        /\ Dispatch("rc", m) /\ IdTable[i] = e
        /\ 1 \in Ended(i) /\ \A x \in Ids : IdTable[x] = e => x = i
        /\ rmPending' = rmPending \ {e}
        /\ UNCHANGED <<rnrq, idAck>>
  BY RemovedIs
<1>2. UNCHANGED <<reqRing, jobs, cardId, await>>
  BY <1>1 DEF Dispatch, cardVars, outRing
<1>3. Given(d)' = Given(d) BY <1>1, <1>2, GivenHead
<1>4. Due(d)' = Due(d) /\ Later(d)' = Later(d) /\ Cnt(idAck', {d}) = Cnt(idAck, {d})
  BY <1>1, <1>2 DEF Due, Later
<1>5. ASSUME Owned(d)' PROVE Owned(d)
  <2> SUFFICES ASSUME cardId[d] = e PROVE FALSE BY <1>1, <1>2, <1>5 DEF Owned
  <2>1. cardId[d] \in rmPending BY <1>1
  <2>2. IdTable[d] = e /\ Ended(d) = {} BY <2>1, RemovingId
  <2> QED BY <1>1, <2>2
<1>6. Cnt(idAck', {d}) <= Cnt(idAck, {d})
  <2>1. PICK a \in Nat : a = Cnt(idAck, {d}) BY AckNumbersNow DEF AckNumbers
  <2> QED BY <1>4, <2>1
<1> QED BY <1>2, <1>3, <1>4, <1>5, <1>6, AckKeep

\* Indications that were kept are offered again.
LEMMA AckProcess ==
    ASSUME Types, Types', Kept, Ents, RnrAt, NEW d \in Ids, AckAt(d),
           NEW x, NEW y, ProcessRnr(x, y), Given(d)' = Given(d),
           UNCHANGED <<reqRing, jobs, cardId, await, rmPending>>
    PROVE  AckAt(d)'
<1>1. ASSUME NEW k \in DOMAIN rnrq PROVE IdTable[rnrq[k].Id] # Null
  <2>1. rnrq[k].own \in Entity BY <1>1, RnrTypes
  <2>2. IdTable[rnrq[k].Id] = rnrq[k].own BY <1>1 DEF RnrAt
  <2> QED BY <2>1, <2>2, Numbers
<1>2. Cnt(idAck', {d}) + Later(d)' = Cnt(idAck, {d}) + Later(d)
  BY <1>1, ProcessCounts DEF Later
<1>3. PICK a \in Nat, l \in Nat, g \in Nat, a1 \in Nat, l1 \in Nat :
        /\ a = Cnt(idAck, {d}) /\ l = Later(d) /\ g = Given(d)
        /\ a1 = Cnt(idAck', {d}) /\ l1 = Later(d)'
  BY AckNumbersNow, AckNumbersNext DEF AckNumbers
<1>4. a1 + g + l1 = a + g + l
  <2>1. a1 + l1 = a + l BY <1>2, <1>3
  <2> QED BY <2>1
<1>5. Due(d)' = Due(d) /\ (Owned(d)' <=> Owned(d)) BY DEF Due, Owned
<1>6. \/ Cnt(idAck', {d}) <= Cnt(idAck, {d})
      \/ Owned(d)
  <2>1. CASE l = 0
    <3>1. a1 <= a BY <1>4, <2>1
    <3> QED BY <1>3, <3>1
  <2>2. CASE l # 0 BY <1>3, <2>2, LaterOwned
  <2> QED BY <2>1, <2>2
<1>7. Cnt(idAck', {d}) + Given(d)' + Later(d)'
        = Cnt(idAck, {d}) + Given(d) + Later(d)
  BY <1>3, <1>4
<1> QED BY <1>5, <1>6, <1>7, AckKeep

\* The client takes an indication, or it is kept for later.
LEMMA AckInd ==
    ASSUME Types, Types', Locals, Ents, NEW d \in Ids, AckAt(d), NEW m,
           Dispatch("ind", m), m.Id \in Ids, IdTable[m.Id] \in Entity \ rmPending,
           rmPending' = rmPending,
           Cnt(idAck', {d}) + Later(d)'
             = Cnt(idAck, {d}) + Later(d) + (IF m.Id = d THEN 1 ELSE 0),
           m.Id # d => Cnt(idAck', {d}) = Cnt(idAck, {d})
    PROVE  AckAt(d)'
<1>1. UNCHANGED <<reqRing, jobs, cardId, await>>
  BY DEF Dispatch, cardVars, outRing
<1>2. PICK X : X = IndOf(d, cardId[d]) OBVIOUS
<1>3. /\ Cnt(indRing, X) = Cnt(indRing', X) + (IF m \in X THEN 1 ELSE 0)
      /\ m \in RingType /\ m.k = "ind"
  BY HeadCounts
<1>4. m.Id = d => Owned(d) /\ m \in X
  <2> SUFFICES ASSUME m.Id = d PROVE Owned(d) /\ m \in X OBVIOUS
  <2>1. m.own = IdTable[d] BY IndOwner
  <2>2. cardId[d] = IdTable[d] BY OwnedId
  <2> QED BY <1>2, <1>3, <2>1, <2>2 DEF Owned, IndOf
<1>5. m.Id # d => m \notin X BY <1>2 DEF IndOf
<1>6. PICK a \in Nat, l \in Nat, g \in Nat, a1 \in Nat, l1 \in Nat, g1 \in Nat :
        /\ a = Cnt(idAck, {d}) /\ l = Later(d) /\ g = Given(d)
        /\ a1 = Cnt(idAck', {d}) /\ l1 = Later(d)' /\ g1 = Given(d)'
  BY AckNumbersNow, AckNumbersNext DEF AckNumbers
<1>7. g = g1 + (IF m.Id = d THEN 1 ELSE 0)
  BY <1>1, <1>2, <1>3, <1>4, <1>5, <1>6 DEF Given
<1>8. a1 + l1 = a + l + (IF m.Id = d THEN 1 ELSE 0) BY <1>6
<1>9. a1 + g1 + l1 = a + g + l
  <2>1. CASE m.Id = d
    <3>1. g = g1 + 1 /\ a1 + l1 = a + l + 1 BY <1>7, <1>8, <2>1
    <3> QED BY <3>1
  <2>2. CASE m.Id # d
    <3>1. g = g1 /\ a1 + l1 = a + l BY <1>7, <1>8, <2>2
    <3> QED BY <3>1
  <2> QED BY <2>1, <2>2
<1>10. Cnt(idAck', {d}) <= Cnt(idAck, {d}) \/ Owned(d)
  <2>1. CASE m.Id = d BY <1>4, <2>1
  <2>2. CASE m.Id # d
    <3>1. a1 <= a BY <1>6, <2>2
    <3> QED BY <1>6, <3>1
  <2> QED BY <2>1, <2>2
<1>11. Cnt(idAck', {d}) + Given(d)' + Later(d)'
         = Cnt(idAck, {d}) + Given(d) + Later(d)
  BY <1>6, <1>9
<1>12. Due(d)' = Due(d) /\ (Owned(d)' <=> Owned(d)) BY <1>1 DEF Due, Owned
<1> QED BY <1>1, <1>10, <1>11, <1>12, AckKeep

\* An indication that is dropped was not meant for an entity that has the Id.
LEMMA AckIndDropped ==
    ASSUME Types, Types', Locals, BigHasBuf, Ents, NEW d \in Ids, AckAt(d),
           IndDropped
    PROVE  AckAt(d)'
<1>1. PICK m : /\ Dispatch("ind", m) /\ IdTable[m.Id] \in rmPending \cup {Null}
               /\ UNCHANGED <<idAck, rnrq, rmPending>>
  BY DEF IndDropped, rnrVars, idVars
<1>2. m.Id \in Ids BY <1>1, IndIs
<1>3. UNCHANGED <<reqRing, jobs, cardId, await>>
  BY <1>1 DEF Dispatch, cardVars, outRing
<1>4. PICK X : X = IndOf(d, cardId[d]) OBVIOUS
<1>5. Cnt(indRing, X) = Cnt(indRing', X) + (IF m \in X THEN 1 ELSE 0)
  BY <1>1, HeadCounts
<1>6. ASSUME Owned(d) PROVE m \notin X
  <2> SUFFICES ASSUME m \in X PROVE FALSE OBVIOUS
  <2>1. m.Id = d /\ m.own = cardId[d] BY <1>4 DEF IndOf
  <2>2. m.own = IdTable[d] BY <1>1, <1>2, <2>1, IndOwner
  <2>3. cardId[d] \in Entity \ rmPending BY <1>6 DEF Owned
  <2> QED BY <1>1, <2>1, <2>2, <2>3, Numbers
<1>7. PICK g \in Nat, g1 \in Nat, a \in Nat :
        /\ g = Cnt(indRing, X) /\ g1 = Cnt(indRing', X) /\ a = Cnt(idAck, {d})
        /\ g = Given(d) /\ g1 = Given(d)'
  BY <1>3, <1>4, AckNumbersNow, AckNumbersNext DEF AckNumbers, Given
<1>8. Owned(d) => Given(d)' = Given(d)
  <2> SUFFICES ASSUME Owned(d) PROVE g1 = g BY <1>7
  <2>1. g = g1 + 0 BY <1>5, <1>6, <1>7
  <2> QED BY <2>1
<1>9. /\ Due(d)' = Due(d) /\ (Owned(d)' <=> Owned(d)) /\ Later(d)' = Later(d)
      /\ Cnt(idAck', {d}) <= Cnt(idAck, {d})
      /\ Cnt(idAck', {d}) = Cnt(idAck, {d})
  BY <1>1, <1>3, <1>7 DEF Due, Owned, Later
<1> QED BY <1>3, <1>8, <1>9, AckKeep

\* What is kept for later stays with its owner.
LEMMA RnrKeep ==
    ASSUME RnrAt, UNCHANGED <<IdTable, rmPending>>,
           \A k \in DOMAIN rnrq' : \E j \in DOMAIN rnrq :
             rnrq'[k].Id = rnrq[j].Id /\ rnrq'[k].own = rnrq[j].own
    PROVE  RnrAt'
BY DEF RnrAt

\* Every step keeps what is kept for later with its owner.
LEMMA RnrNext ==
    ASSUME IInv, Types', AckInv, [Next]_vars
    PROVE  RnrAt'
<1>0. /\ Types /\ Locals /\ Kept /\ BigHasBuf /\ Ents /\ RnrAt
      /\ \A d \in Ids : AckAt(d)
  BY InvGroups DEF IInv, Counts, Groups, AckInv
<1>1. ASSUME UNCHANGED <<rnrq, IdTable, rmPending>> PROVE RnrAt'
  BY <1>0, <1>1 DEF RnrAt
<1>2. CASE UNCHANGED vars \/ ClientNext
  <2>1. UNCHANGED <<rnrq, IdTable, rmPending>>
    BY <1>2 DEF vars, ClientNext, Request, Xon, idVars, rnrVars
  <2> QED BY <1>1, <2>1
<1>3. CASE DpcStart \/ Count \/ IndEnd \/ OutImpossible \/ OutSync \/ OutSystem
  <2>1. UNCHANGED <<rnrq, IdTable, rmPending>>
    BY <1>3 DEF DpcStart, Count, IndEnd, OutImpossible, OutSync, OutSystem,
                rnrVars, idVars
  <2> QED BY <1>1, <2>1
<1>4. CASE SysAckReq \/ SysState \/ RcIgnored \/ RcAnswer \/ IndDropped \/ IndTaken
  <2>1. UNCHANGED <<rnrq, IdTable, rmPending>>
    BY <1>4 DEF SysAckReq, SysState, RcIgnored, RcAnswer, IndDropped, IndTaken,
                rnrVars, idVars
  <2> QED BY <1>1, <2>1
<1>5. CASE SysRnrInd \/ Oob
  <2>1. PICK d, a : ProcessRnr(d, a) /\ UNCHANGED <<IdTable, rmPending>>
    BY <1>5 DEF SysRnrInd, Oob, idVars
  <2>2. \A k \in DOMAIN rnrq' : \E j \in DOMAIN rnrq :
          rnrq'[k].Id = rnrq[j].Id /\ rnrq'[k].own = rnrq[j].own
    BY <1>0, <2>1, ProcessCounts
  <2> QED BY <1>0, <2>1, <2>2, RnrKeep
<1>6. CASE RcRemoved
  <2>1. PICK e, i :
          /\ rmPending' = rmPending \ {e}
          /\ IdTable' = [IdTable EXCEPT ![i] = Null]
          /\ rnrq' = rnrq /\ \A k \in DOMAIN rnrq : rnrq[k].Id # i
    BY <1>0, <1>6, RemovedIs
  <2> SUFFICES ASSUME NEW k \in DOMAIN rnrq
               PROVE  IdTable'[rnrq[k].Id] = rnrq[k].own
                      /\ rnrq[k].own \notin rmPending'
    BY <2>1 DEF RnrAt
  <2>2. rnrq[k].Id \in Ids /\ DOMAIN IdTable = Ids
    BY <1>0, RnrTypes DEF Types, TypeOK
  <2>3. IdTable[rnrq[k].Id] = rnrq[k].own /\ rnrq[k].own \notin rmPending
    BY <1>0 DEF RnrAt
  <2> QED BY <2>1, <2>2, <2>3
<1>7. CASE RcAssign
  <2>1. PICK m :
          /\ Dispatch("rc", m) /\ m.rc \in {"ASSIGN_OK", "ASSIGN_FAIL"}
          /\ IdTable' = IF m.rc = "ASSIGN_OK" THEN [IdTable EXCEPT ![m.Id] = m.own]
                        ELSE IdTable
          /\ UNCHANGED <<rnrq, rmPending>>
    BY <1>7 DEF RcAssign, rnrVars
  <2>2. CASE m.rc = "ASSIGN_FAIL" BY <1>1, <2>1, <2>2
  <2>3. CASE m.rc = "ASSIGN_OK"
    <3>1. /\ indRing # <<>> /\ m = Head(indRing) /\ m \in RingType /\ m.k = "rc"
          /\ indRing \in Seq(RingType)
      BY <1>0, <2>1, Dispatched
    <3> SUFFICES ASSUME NEW k \in DOMAIN rnrq
                 PROVE  IdTable'[rnrq[k].Id] = rnrq[k].own
      BY <1>0, <2>1 DEF RnrAt
    <3>2. PICK i \in Ids : i = rnrq[k].Id BY <1>0, RnrTypes
    <3>3. /\ IdTable[i] = rnrq[k].own
          /\ IdTable[i] \in Entity \ rmPending
      BY <1>0, <3>2, RnrTypes DEF RnrAt
    <3>4. m.Id # i
      <4> SUFFICES ASSUME m.Id = i PROVE FALSE OBVIOUS
      <4>1. 1 \in DOMAIN indRing /\ indRing[1] = m
        <5>1. /\ Head(indRing) = indRing[1] /\ Len(indRing) \in Nat \ {0}
              /\ DOMAIN indRing = 1..Len(indRing)
          BY <3>1, TailIs
        <5>2. PICK l \in Nat \ {0} : l = Len(indRing) BY <5>1
        <5>3. 1 \in 1..l OBVIOUS
        <5> QED BY <3>1, <5>1, <5>2, <5>3
      <4>2. 1 \in Assigned(i)
        BY <2>3, <3>1, <4>1 DEF Assigned, Assigning, IsAbout
      <4>3. IdAt(i) BY <1>0 DEF Ents, Known
      <4>4. cardId[i] # Null /\ cardId[i] # IdTable[i]
        BY <3>3, <4>2, <4>3 DEF IdAt
      <4> QED BY <1>0, <3>3, <4>4, OwnedId
    <3>5. IdTable'[i] = IdTable[i]
      BY <1>0, <2>1, <3>4 DEF Types, TypeOK
    <3> QED BY <3>2, <3>3, <3>5
  <2> QED BY <2>1, <2>2, <2>3
<1>8. CASE IndRnr
  <2>1. PICK m : /\ Dispatch("ind", m) /\ IdTable[m.Id] \in Entity \ rmPending
                 /\ SaveRnr(m) /\ UNCHANGED <<IdTable, rmPending>>
    BY <1>8 DEF IndRnr, idVars
  <2>2. IndFields(m) /\ m.Id \in Ids BY <1>0, <2>1, IndIs DEF IndFields
  <2>3. m.own = IdTable[m.Id] BY <1>0, <2>1, <2>2, IndOwner
  <2>4. \A k \in DOMAIN rnrq' : \/ \E j \in DOMAIN rnrq : rnrq'[k] = rnrq[j]
                                \/ rnrq'[k].Id = m.Id /\ rnrq'[k].own = m.own
    BY <1>0, <2>1, <2>2, SaveCounts
  <2> SUFFICES ASSUME NEW k \in DOMAIN rnrq'
               PROVE  IdTable[rnrq'[k].Id] = rnrq'[k].own
                      /\ rnrq'[k].own \notin rmPending
    BY <2>1 DEF RnrAt
  <2>5. CASE \E j \in DOMAIN rnrq : rnrq'[k] = rnrq[j]
    BY <1>0, <2>5 DEF RnrAt
  <2>6. CASE rnrq'[k].Id = m.Id /\ rnrq'[k].own = m.own
    BY <2>1, <2>3, <2>6
  <2> QED BY <2>4, <2>5, <2>6
<1>9. CASE OutRequest
  <2>1. PICK m \in ReqType, e \in Entity :
          /\ IdTable' = IdTable
          /\ \/ m.k # "REMOVE" /\ UNCHANGED <<rmPending, rnrq>>
             \/ IsRemove(m, ent[e].Id) /\ RemoveSent(ent[e].Id, e)
    BY <1>0, <1>9, RequestSent
  <2>2. CASE UNCHANGED <<rmPending, rnrq>> BY <1>1, <2>1, <2>2
  <2>3. CASE RemoveSent(ent[e].Id, e)
    <3>1. PICK i \in Ids :
            /\ i = ent[e].Id /\ IdTable[i] = e /\ cardId[i] = e
            /\ rmPending' = rmPending \cup {e} /\ CancelRnr(i)
      BY <2>3 DEF RemoveSent
    <3>2. Later(i) <= 1
      <4>1. PICK a \in Nat, t \in Nat, g \in Nat, l \in Nat, u \in {0, 1} :
              /\ a = Cnt(idAck, {i}) /\ t = Sent(i) /\ g = Given(i)
              /\ l = Later(i) /\ u = Due(i)
        BY <1>0, AckNumbersNow DEF AckNumbers
      <4>2. CASE l = 0 BY <4>1, <4>2
      <4>3. CASE l # 0
        <5>1. Owned(i) BY <1>0, <4>1, <4>3, LaterOwned
        <5>2. a + t + g + l = u BY <1>0, <4>1, <5>1 DEF AckAt, Acked
        <5>3. l <= 1 BY <5>2
        <5> QED BY <4>1, <5>3
      <4> QED BY <4>2, <4>3
    <3>3. /\ Cnt(rnrq', RnrOf(i)) = 0
          /\ \A k \in DOMAIN rnrq' : \E j \in DOMAIN rnrq : rnrq'[k] = rnrq[j]
      BY <1>0, <3>1, <3>2, CancelCounts DEF Later
    <3>4. PICK q \in Seq(REntry) : q = rnrq' BY DEF Types, TypeOK
    <3>5. Pos(q, RnrOf(i)) = {} BY <3>3, <3>4, CntIs
    <3> SUFFICES ASSUME NEW k \in DOMAIN rnrq'
                 PROVE  IdTable[rnrq'[k].Id] = rnrq'[k].own
                        /\ rnrq'[k].own \notin rmPending'
      BY <2>1 DEF RnrAt
    <3>6. PICK j \in DOMAIN rnrq : rnrq'[k] = rnrq[j] BY <3>3
    <3>7. /\ IdTable[rnrq'[k].Id] = rnrq'[k].own /\ rnrq'[k].own \notin rmPending
          /\ rnrq'[k].Id \in Ids /\ rnrq'[k] \in REntry
      BY <1>0, <3>6, RnrTypes DEF RnrAt
    <3>8. rnrq'[k].own # e
      <4> SUFFICES ASSUME rnrq'[k].own = e PROVE FALSE OBVIOUS
      <4>1. PICK x \in Ids : x = rnrq'[k].Id BY <3>7
      <4>2. IdAt(x) /\ IdTable[x] = e BY <1>0, <3>7, <4>1 DEF Ents, Known
      <4>3. x = i BY <3>1, <4>2 DEF IdAt
      <4>4. k \in Pos(q, RnrOf(i)) BY <3>4, <3>7, <4>1, <4>3 DEF Pos, RnrOf
      <4> QED BY <3>5, <4>4
    <3> QED BY <3>1, <3>7, <3>8
  <2> QED BY <2>1, <2>2, <2>3
<1>10. CASE CardNext
  <2>1. UNCHANGED <<rnrq, IdTable, rmPending>>
    <3>1. CASE CardReads
      BY <3>1 DEF CardReads, CardSystem, CardRequest, CardTake, HostFrame,
                  rnrVars, idVars
    <3>2. CASE ~CardReads
      <4>1. PICK m \in RingType : CardPost(m) BY <1>0, <1>10, <3>2, CardPosts
      <4> QED BY <4>1, PostIs
    <3> QED BY <3>1, <3>2
  <2> QED BY <1>1, <2>1
<1> QED BY <1>2, <1>3, <1>4, <1>5, <1>6, <1>7, <1>8, <1>9, <1>10
        DEF Next, DpcNext, IndNext

\* The acknowledges go out before the requests.
LEMMA NothingNext ==
    ASSUME IInv, AckInv, [Next]_vars
    PROVE  NothingLeft'
<1>0. Types /\ Locals /\ Ents /\ NothingLeft
  BY DEF IInv, Counts, AckInv
<1>1. ASSUME UNCHANGED <<pc, ReadyCount, idAck>> PROVE NothingLeft'
  BY <1>0, <1>1 DEF NothingLeft
<1>2. ASSUME pc' # "req" PROVE NothingLeft' BY <1>2 DEF NothingLeft
<1>3. CASE UNCHANGED vars \/ ClientNext
  <2>1. UNCHANGED <<pc, ReadyCount, idAck>>
    BY <1>3 DEF vars, ClientNext, Request, Xon, dpcVars, ackVars
  <2> QED BY <1>1, <2>1
<1>4. CASE DpcStart \/ Oob \/ Count \/ IndEnd \/ OutImpossible \/ OutSync
  <2>1. pc' # "req"
    BY <1>4 DEF DpcStart, Oob, Count, IndEnd, OutImpossible, OutSync, OutOver,
                dpcVars
  <2> QED BY <1>2, <2>1
<1>5. CASE IndNext
  <2>1. \E k, m : Dispatch(k, m)
    BY <1>5 DEF IndNext, SysAckReq, SysRnrInd, SysState, RcIgnored, RcRemoved,
                RcAnswer, RcAssign, IndDropped, IndTaken, IndRnr
  <2>2. pc' # "req" BY <2>1 DEF Dispatch
  <2> QED BY <1>2, <2>2
<1>6. CASE OutSystem
  <2>1. ReadyCount' # 0 => idAck' = <<>> BY <1>0, <1>6, OutAcks
  <2> QED BY <2>1 DEF NothingLeft
<1>7. CASE OutRequest
  <2>1. pc = "req" /\ ReadyCount # 0 /\ idAck' = idAck
    BY <1>7 DEF OutRequest
  <2>2. idAck = <<>> BY <1>0, <2>1 DEF NothingLeft
  <2> QED BY <2>1, <2>2 DEF NothingLeft
<1>8. CASE CardNext
  <2>1. UNCHANGED <<pc, ReadyCount, idAck>>
    <3>1. CASE CardReads
      BY <3>1 DEF CardReads, CardSystem, CardRequest, CardTake, HostFrame,
                  dpcVars, ackVars
    <3>2. CASE ~CardReads
      <4>1. PICK m \in RingType : CardPost(m) BY <1>0, <1>8, <3>2, CardPosts
      <4> QED BY <4>1, PostIs
    <3> QED BY <3>1, <3>2
  <2> QED BY <1>1, <2>1
<1> QED BY <1>3, <1>4, <1>5, <1>6, <1>7, <1>8 DEF Next, DpcNext

\* Every step keeps the acknowledges of every Id in order.
LEMMA AckNext ==
    ASSUME IInv, Types', AckInv, [Next]_vars, NEW d \in Ids
    PROVE  AckAt(d)'
<1>0. /\ Types /\ Locals /\ Kept /\ BigHasBuf /\ Ents /\ RnrAt /\ AckAt(d)
  BY InvGroups DEF IInv, Counts, Groups, AckInv
<1>1. CASE \/ UNCHANGED vars \/ ClientNext
           \/ DpcStart \/ Count \/ IndEnd \/ OutImpossible \/ OutSync
  <2>1. UNCHANGED <<reqRing, idAck, rnrq, rmPending, indRing, cardId, await, jobs>>
    <3>1. CASE UNCHANGED vars \/ ClientNext
      BY <3>1 DEF vars, ClientNext, Request, Xon, ackVars, rnrVars, outRing,
                  cardVars, idVars
    <3>2. CASE DpcStart \/ Count \/ IndEnd \/ OutImpossible \/ OutSync
      BY <3>2 DEF DpcStart, Count, IndEnd, OutImpossible, OutSync, ackVars,
                  rnrVars, outRing, cardVars, idVars
    <3> QED BY <1>1, <3>1, <3>2
  <2>2. Given(d)' = Given(d) /\ Due(d)' = Due(d) BY <2>1 DEF Given, Due
  <2> QED BY <1>0, <2>1, <2>2, AckSame
<1>2. CASE SysAckReq \/ SysState \/ RcIgnored \/ RcAnswer \/ RcAssign
  <2>1. PICK k, m : /\ Dispatch(k, m) /\ k # "ind"
                    /\ UNCHANGED <<idAck, rnrq, rmPending>>
    BY <1>2 DEF SysAckReq, SysState, RcIgnored, RcAnswer, RcAssign, ackVars,
                rnrVars, idVars
  <2>2. UNCHANGED <<reqRing, cardId, await, jobs>>
    BY <2>1 DEF Dispatch, cardVars, outRing
  <2>3. Given(d)' = Given(d) /\ Due(d)' = Due(d)
    BY <1>0, <2>1, <2>2, GivenHead DEF Due
  <2> QED BY <1>0, <2>1, <2>2, <2>3, AckSame
<1>3. CASE SysRnrInd
  <2>1. PICK m, a : /\ Dispatch("rnr_ind", m) /\ ProcessRnr(0, a)
                    /\ rmPending' = rmPending
    BY <1>3 DEF SysRnrInd, idVars
  <2>2. UNCHANGED <<reqRing, cardId, await, jobs>>
    BY <2>1 DEF Dispatch, cardVars, outRing
  <2>3. Given(d)' = Given(d) BY <1>0, <2>1, <2>2, GivenHead
  <2> QED BY <1>0, <2>1, <2>2, <2>3, AckProcess
<1>4. CASE Oob
  <2>1. PICK i, a : ProcessRnr(i, a) BY <1>4 DEF Oob
  <2>2. UNCHANGED <<reqRing, cardId, await, jobs, indRing, rmPending>>
    BY <1>4 DEF Oob, cardVars, outRing, idVars
  <2>3. Given(d)' = Given(d) BY <2>2 DEF Given
  <2> QED BY <1>0, <2>1, <2>2, <2>3, AckProcess
<1>5. CASE RcRemoved BY <1>0, <1>5, AckRcRemoved
<1>6. CASE IndDropped BY <1>0, <1>6, AckIndDropped
<1>7. CASE IndTaken \/ IndRnr
  <2>1. PICK m : /\ Dispatch("ind", m) /\ IdTable[m.Id] \in Entity \ rmPending
                 /\ (idAck' = Append(idAck, m.Id) /\ rnrq' = rnrq) \/ SaveRnr(m)
                 /\ rmPending' = rmPending
    BY <1>7 DEF IndTaken, IndRnr, rnrVars, idVars
  <2>2. IndFields(m) /\ m.Id \in Ids BY <1>0, <2>1, IndIs DEF IndFields
  <2>3. PICK a \in Nat, l \in Nat, z \in {0, 1} :
          /\ a = Cnt(idAck, {d}) /\ l = Later(d)
          /\ z = IF m.Id = d THEN 1 ELSE 0
    BY <1>0, AckNumbersNow DEF AckNumbers
  <2>4. /\ Cnt(idAck', {d}) + Later(d)' = a + l + z
        /\ m.Id # d => Cnt(idAck', {d}) = a
    <3>1. CASE idAck' = Append(idAck, m.Id) /\ rnrq' = rnrq
      <4>1. Cnt(idAck', {d}) = a + z BY <1>0, <2>2, <2>3, <3>1, IdCounts
      <4>2. Later(d)' = l BY <2>3, <3>1 DEF Later
      <4>3. (a + z) + l = a + l + z /\ (z = 0 => a + z = a) OBVIOUS
      <4> QED BY <2>3, <4>1, <4>2, <4>3
    <3>2. CASE SaveRnr(m)
      BY <1>0, <2>2, <2>3, <3>2, SaveCounts DEF Later
    <3> QED BY <2>1, <3>1, <3>2
  <2>5. /\ Cnt(idAck', {d}) + Later(d)'
             = Cnt(idAck, {d}) + Later(d) + (IF m.Id = d THEN 1 ELSE 0)
        /\ m.Id # d => Cnt(idAck', {d}) = Cnt(idAck, {d})
    BY <2>3, <2>4
  <2> QED BY <1>0, <2>1, <2>2, <2>5, AckInd
<1>8. CASE OutSystem BY <1>0, <1>8, AckOutSystem
<1>9. CASE OutRequest BY <1>9, AckOutRequest
<1>10. CASE CardNext BY <1>10, AckCardNext
<1> QED BY <1>1, <1>2, <1>3, <1>4, <1>5, <1>6, <1>7, <1>8, <1>9, <1>10
        DEF Next, DpcNext, IndNext

\* Nothing is kept, announced or acknowledged at the start.
LEMMA AckInit ==
    ASSUME Init, Types
    PROVE  AckInv
<1>1. /\ indRing = <<[k |-> "start"]>> /\ reqRing = <<>> /\ rnrq = <<>>
      /\ idAck = <<>> /\ await = {} /\ jobs = {} /\ pc = "idle"
      /\ cardId = [d \in Ids |-> Null]
  BY DEF Init
<1>2. Short(reqRing) /\ RnrAt /\ NothingLeft
  BY <1>1 DEF Short, RnrAt, NothingLeft
<1> SUFFICES ASSUME NEW d \in Ids PROVE AckAt(d) BY <1>2 DEF AckInv
<1>3. ~Owned(d) BY <1>1, Numbers DEF Owned
<1>4. Cnt(idAck, {d}) = 0 /\ Sent(d) = 0
  <2>1. Pos(idAck, {d}) = {} BY <1>1 DEF Pos
  <2>2. \A k \in DOMAIN reqRing : reqRing[k].k # "ack_id" BY <1>1
  <2> QED BY <2>1, <2>2, TimesNone, FS_EmptySet DEF Cnt, Sent
<1>5. Acked(d) = 0 /\ Due(d) = 0 BY <1>1, <1>4 DEF Acked, Due
<1>6. Last(d) BY <1>1 DEF Last
<1> QED BY <1>1, <1>3, <1>5, <1>6 DEF AckAt

\* The numbers are the ones of AckedOnce.
LEMMA AcksAre ==
    ASSUME Types, NEW d \in Ids
    PROVE  Acks(d) = Acked(d) /\ Open(d) = Given(d) + Later(d)
<1>1. At(idAck, LAMBDA x : x = d) = Pos(idAck, {d}) BY DEF At, Pos
<1>2. Named("ack_id", d) = Names(reqRing, "ack_id", d) BY DEF Named, Names
<1>3. At(indRing, LAMBDA m : m.k = "ind" /\ m.Id = d /\ m.own = cardId[d])
        = Pos(indRing, IndOf(d, cardId[d]))
  <2>1. \A k \in DOMAIN indRing : indRing[k] \in RingType BY OwnersAre
  <2> QED BY <2>1 DEF At, Pos, IndOf
<1>4. WithId(d) = Pos(rnrq, RnrOf(d))
  <2>1. \A k \in DOMAIN rnrq : rnrq[k] \in REntry
    BY ElementOfSeq DEF Types, TypeOK
  <2> QED BY <2>1 DEF WithId, Pos, RnrOf
<1>5. Acks(d) = Acked(d)
  BY <1>1, <1>2 DEF Acks, Acked, Sent, Cnt, Times
<1>6. Open(d) = Given(d) + Later(d)
  BY <1>3, <1>4 DEF Open, Given, Later, Cnt
<1> QED BY <1>5, <1>6

\* The invariant implies that indications are owned.
LEMMA AckedOnceIs ==
    ASSUME IInv, AckInv
    PROVE  IndicationsOwned
<1>0. Types /\ Locals /\ Ents /\ RnrAt /\ \A d \in Ids : AckAt(d)
  BY DEF IInv, Counts, AckInv
<1>1. ASSUME NEW d \in Ids
      PROVE  /\ Acks(d) <= Due(d)
             /\ cardId[d] \in Entity \ rmPending => Acks(d) + Open(d) = Due(d)
             /\ Later(d) <= 1
  <2>1. PICK a \in Nat, t \in Nat, g \in Nat, l \in Nat, u \in {0, 1} :
          /\ a = Cnt(idAck, {d}) /\ t = Sent(d) /\ g = Given(d)
          /\ l = Later(d) /\ u = Due(d)
    BY <1>0, AckNumbersNow DEF AckNumbers
  <2>2. Acks(d) = a + t /\ Open(d) = g + l /\ Acked(d) = a + t
    BY <1>0, <2>1, AcksAre DEF Acked
  <2>3. a + t <= u /\ (Owned(d) => a + t + g + l = u)
    BY <1>0, <2>1, <2>2 DEF AckAt
  <2>4. a + t + (g + l) = a + t + g + l OBVIOUS
  <2>5. Owned(d) => l <= 1 BY <2>3
  <2>6. l <= 1
    <3>1. CASE l = 0 BY <3>1
    <3>2. CASE l # 0
      <4>1. Owned(d) BY <1>0, <2>1, <3>2, LaterOwned
      <4> QED BY <2>5, <4>1
    <3> QED BY <3>1, <3>2
  <2> QED BY <2>1, <2>2, <2>3, <2>4, <2>6 DEF Owned
<1>2. AckedOnce BY <1>1 DEF AckedOnce, Due
<1>3. ASSUME NEW j \in DOMAIN rnrq, NEW k \in DOMAIN rnrq,
             rnrq[j].Id = rnrq[k].Id
      PROVE  j = k
  <2>1. PICK q \in Seq(REntry) : q = rnrq BY <1>0 DEF Types, TypeOK
  <2>2. rnrq[j] \in REntry /\ rnrq[k] \in REntry BY <2>1, ElementOfSeq
  <2>3. PICK d \in Ids : d = rnrq[j].Id BY <2>2 DEF REntry
  <2>4. j \in Pos(q, RnrOf(d)) /\ k \in Pos(q, RnrOf(d))
    BY <1>3, <2>1, <2>2, <2>3 DEF Pos, RnrOf
  <2>5. Cnt(q, RnrOf(d)) <= 1 BY <1>1, <2>1 DEF Later
  <2> QED BY <2>4, <2>5, CntIs
<1>4. RnrOwned
  BY <1>0, <1>3 DEF RnrOwned, RnrAt, Locals
<1> QED BY <1>2, <1>4 DEF IndicationsOwned

\* Every indication is acknowledged once, to the Id it came for, and what is
\* kept for later is meant for the entity that has the Id (vidi_di.c:825, 896).
THEOREM IndicationsSafe == Spec => []IndicationsOwned
<1>1. Init /\ IInv => AckInv BY AckInit DEF IInv
<1>2. IInv /\ IInv' /\ AckInv /\ [Next]_vars => AckInv'
  <2> SUFFICES ASSUME IInv, IInv', AckInv, [Next]_vars PROVE AckInv' OBVIOUS
  <2>1. Types' BY DEF IInv
  <2>2. Short(reqRing)' BY ShortNext DEF AckInv
  <2>3. RnrAt' /\ NothingLeft' BY <2>1, RnrNext, NothingNext
  <2>4. \A d \in Ids : AckAt(d)' BY <2>1, AckNext
  <2> QED BY <2>2, <2>3, <2>4 DEF AckInv
<1>3. IInv /\ AckInv => IndicationsOwned BY AckedOnceIs
<1> QED BY <1>1, <1>2, <1>3, InvSafe, PTL DEF Spec
=============================================================================
