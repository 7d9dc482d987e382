----------------------------- MODULE VidiProofs -----------------------------
(***************************************************************************)
(* Proofs about the message interface of the newer cards (Vidi.tla).       *)
(*                                                                         *)
(* Every request of a client is in exactly one place: in the queue, in the *)
(* request ring, in work on the card, or answered by a return code in the  *)
(* indication ring.  A stage for each entity names the place; the rest of  *)
(* the invariant says what host and card keep about an entity at it.       *)
(***************************************************************************)
EXTENDS Vidi, FiniteSetTheorems, SequenceTheorems, WellFoundedInduction, TLAPS

-----------------------------------------------------------------------------
(* The invariant *)

Host == [k : Code, Id : Ids \cup {0}, own : Entity, frag : Frag \cup {NoFrag}]
ReqType == Host \cup [k : {"stop"}] \cup [k : {"ack_ind"}, n : Nat]
           \cup [k : {"timer"}, on : BOOLEAN]
           \cup [k : {"ack_buf"}, of : Seq(RxBuf)]
           \cup [k : {"ack_id"}, of : Seq(Ids)]
RcType == [k : {"rc"}, rc : {"OK", "OK_FC", "ASSIGN_OK", "ASSIGN_FAIL"},
           Id : Ids \cup {0}, own : Entity,
           ext : {"none", "OK_FC", "REMOVE_COMPLETE"}]
IndType == [k : {"ind"}, Id : Ids, own : Entity, buf : RxBuf \cup {0},
            big : BOOLEAN]
RingType == RcType \cup IndType \cup [k : {"ack_req"}, n : Nat]
            \cup [k : {"start", "cpu_stop", "warning", "rnr_ind"}]

\* The state that TypeOK leaves out: the rings, the DPC and the card
Types ==
    /\ TypeOK
    /\ reqRing \in Seq(ReqType) /\ indRing \in Seq(RingType)
    /\ jobs \subseteq Host \cup [k : {"stop"}] /\ done \in Nat
    /\ cardId \in [Ids -> Entity \cup {Null}]
    /\ await \subseteq Ids /\ held \subseteq Ids /\ cardBufs \subseteq RxBuf
    /\ pc \in {"idle", "oob", "ind", "out", "req"} /\ phase \in {1, 2}
    /\ started \in BOOLEAN /\ cpuStop \in BOOLEAN /\ stopFlag \in BOOLEAN
    /\ timerOn \in BOOLEAN /\ cardStop \in BOOLEAN /\ sched \in BOOLEAN

\* The locals of the DPC; only it takes from the rings and the queue.
Locals ==
    /\ nr <= nrInd /\ nr <= Len(indRing)
    /\ pc # "ind" => nr = 0
    /\ pc = "req" => ReadyCount = ReqMax - pend
    /\ pc = "req" /\ eno # Null => queue # <<>> /\ eno = Head(queue)
    /\ hdrFree + bufFree + Len(rnrq) = Hdrs

Counts == Locals /\ RequestCredits /\ IndicationCredits

\* The stage of an entity's request
Stage == {"idle", "queue", "ring", "card", "answer"}
IsReq(m) == m.k \in Code
IsAnswer(m) == m.k = "rc" /\ m.ext # "OK_FC"
Assigns(m) == m.rc \in {"ASSIGN_OK", "ASSIGN_FAIL"}

\* What the host keeps about e at stage s
EntityAt(e, s) ==
    /\ wait[e] <=> s # "idle"
    /\ ent[e].XBUSY => s # "idle"
    /\ e \in assign <=> s \in {"ring", "card", "answer"} /\ ent[e].Id = 0
    /\ e \in rmPending =>
         s \in {"ring", "card", "answer"} /\ ent[e].Req = "REMOVE"
    /\ s = "idle" => ent[e].XOffset = NoFrag
    /\ s = "queue" <=> ent[e].XOffset = RingPage
    /\ s \in {"queue", "ring", "card"} =>
         /\ ent[e].Req # "none"
         /\ ent[e].Req = "ASSIGN" <=> ent[e].Id = 0
    /\ s \in {"ring", "card"} =>
         /\ ent[e].Req = "BIG" => ent[e].XOffset # NoFrag
         /\ ent[e].Req = "REMOVE" => e \in rmPending

\* A request on its way is the one its entity waits for.
RequestAt(m, s) ==
    s /\ m.k = ent[m.own].Req /\ m.Id = ent[m.own].Id
      /\ m.frag = ent[m.own].XOffset

\* A return code that answers: of an ASSIGN, or of a request under the Id
AnswerAt(m, s) ==
    /\ s
    /\ Assigns(m) <=> m.own \in assign
    /\ m.rc = "ASSIGN_OK" => m.Id # 0
    /\ m.rc = "ASSIGN_FAIL" => m.Id = 0
    /\ ~Assigns(m) => m.Id = ent[m.own].Id
    /\ m.own \in rmPending =>
         m.rc = "OK" /\ (m.own \in DSIG \/ m.ext = "REMOVE_COMPLETE")

Stages(st) ==
    /\ \A e \in Entity : EntityAt(e, st[e])
    /\ \A k \in DOMAIN queue : st[queue[k]] = "queue"
    /\ \A k \in DOMAIN reqRing :
         IsReq(reqRing[k]) => RequestAt(reqRing[k], st[reqRing[k].own] = "ring")
    /\ \A m \in jobs : IsReq(m) => RequestAt(m, st[m.own] = "card")
    /\ \A k \in DOMAIN indRing :
         IsAnswer(indRing[k]) =>
           AnswerAt(indRing[k], st[indRing[k].own] = "answer")

\* No entity has two requests in one place.
Single ==
    /\ \A j, k \in DOMAIN queue : queue[j] = queue[k] => j = k
    /\ \A j, k \in DOMAIN reqRing :
         IsReq(reqRing[j]) /\ IsReq(reqRing[k])
         /\ reqRing[j].own = reqRing[k].own => j = k
    /\ \A m, n \in jobs : IsReq(m) /\ IsReq(n) /\ m.own = n.own => m = n
    /\ \A j, k \in DOMAIN indRing :
         IsAnswer(indRing[j]) /\ IsAnswer(indRing[k])
         /\ indRing[j].own = indRing[k].own => j = k

\* Messages of the card about the Id d: all, the answer that assigns it, the
\* answer that ends it
IsAbout(m, d) == m.k \in {"rc", "ind"} /\ m.Id = d
Assigning(m, d) == IsAbout(m, d) /\ m.k = "rc" /\ m.rc = "ASSIGN_OK"
Ending(m, d) == IsAbout(m, d) /\ IsAnswer(m) /\ m.own \in rmPending

About(d) == {k \in DOMAIN indRing : IsAbout(indRing[k], d)}
Assigned(d) == {k \in DOMAIN indRing : Assigning(indRing[k], d)}
Ended(d) == {k \in DOMAIN indRing : Ending(indRing[k], d)}

\* The Id d as host and card see it.  They differ while the answer that ends
\* the Id or assigns it is in the ring, and a message about the Id is meant for
\* the entity that has it when the host comes to the message.
IdAt(d) ==
    /\ \A e \in Entity : ent[e].Id = d <=> IdTable[d] = e
    /\ \A k \in About(d) :
         indRing[k].own = IF \E j \in Assigned(d) : j <= k THEN cardId[d]
                          ELSE IdTable[d]
    /\ \A j, k \in Assigned(d) : j = k
    /\ \A j \in Assigned(d), k \in Ended(d) : k < j
    /\ \A j \in Ended(d), k \in About(d) :
         j < k => \E i \in Assigned(d) : i <= k
    /\ IF IdTable[d] # Null /\ Ended(d) = {}
       THEN cardId[d] = IdTable[d] /\ Assigned(d) = {}
       ELSE /\ cardId[d] = Null <=> Assigned(d) = {}
            /\ cardId[d] # Null => cardId[d] # IdTable[d]
    /\ IdTable[d] = Null => Ended(d) = {}

\* Only a channel is held, and only its end of flow control completes nothing.
Channels ==
    /\ \A d \in held : cardId[d] \in Entity \ DSIG
    /\ \A k \in DOMAIN indRing :
         indRing[k].k = "rc" /\ indRing[k].ext = "OK_FC" =>
           /\ indRing[k].rc = "OK" /\ indRing[k].Id # 0
           /\ indRing[k].own \notin DSIG

\* A fragment is with one entity, or free.
Fragments ==
    /\ \A f \in Frag : f \notin fragFree <=> \E e \in Entity : ent[e].XOffset = f
    /\ \A e, c \in Entity : ent[e].XOffset = ent[c].XOffset
          /\ ent[e].XOffset \in Frag => e = c

Placed(st) == Stages(st) /\ Single /\ Channels /\ Fragments
Known == \A d \in Ids : IdAt(d)
Ents == (\E st \in [Entity -> Stage] : Placed(st)) /\ Known

\* An indication with much data has a receive buffer, and so has an RNR entry
\* that keeps one.
BigHasBuf == \A k \in DOMAIN indRing :
               indRing[k].k = "ind" /\ indRing[k].big => indRing[k].buf # 0
RxHasBuf == \A k \in DOMAIN rnrq : rnrq[k].keep = "rx" => rnrq[k].buf # 0

IInv == Types /\ Counts /\ RxHasBuf /\ BigHasBuf /\ Ents

-----------------------------------------------------------------------------
(* Sums over a ring *)

\* A set of numbers that is not empty has a least element.
LEMMA LeastNat ==
    ASSUME NEW T, T \subseteq Nat, T # {}
    PROVE  \E n \in T : \A m \in T : n <= m
<1>1. \E x \in T : \A y \in T : <<y, x>> \notin OpToRel(<, Nat)
  BY NatLessThanWellFounded, WFMin
<1>2. PICK x \in T : \A y \in T : <<y, x>> \notin OpToRel(<, Nat) BY <1>1
<1>3. ASSUME NEW y \in T PROVE x <= y
  <2>1. x \in Nat /\ y \in Nat BY <1>3
  <2>2. ~(y < x) BY <1>2, <2>1 DEF OpToRel
  <2> QED BY <2>1, <2>2
<1> QED BY <1>3

\* What the messages of s add to the sum is a number.
Summable(s, kind) ==
    /\ Len(s) \in Nat /\ DOMAIN s = 1..Len(s)
    /\ \A k \in 1..Len(s) : Amount(s[k], kind) \in Nat

Sums(s, kind, f, n) ==
    f = [k \in 0..n |-> IF k = 0 THEN 0 ELSE f[k - 1] + Amount(s[k], kind)]

\* The recursive function of SumTo exists, and its values are numbers.
LEMMA SumExists ==
    ASSUME NEW s, NEW kind, Summable(s, kind)
    PROVE  /\ Sums(s, kind, SumTo(s, kind), Len(s))
           /\ \A k \in 0..Len(s) : SumTo(s, kind)[k] \in Nat
<1> DEFINE Bad == {n \in 0..Len(s) : ~\E f : Sums(s, kind, f, n)}
           Neg(f) == {n \in 0..Len(s) : f[n] \notin Nat}
<1>1. Len(s) \in Nat BY DEF Summable
<1>2. Bad = {}
  <2> SUFFICES ASSUME Bad # {} PROVE FALSE OBVIOUS
  <2>0. Bad \subseteq Nat BY <1>1
  <2>1. PICK n \in Bad : \A m \in Bad : n <= m
    <3> HIDE DEF Bad
    <3> QED BY LeastNat, <2>0
  <2>2. n # 0
    <3>1. Sums(s, kind, [k \in 0..0 |-> 0], 0) BY DEF Sums
    <3> QED BY <3>1, <2>1
  <2>3. n - 1 \in 0..Len(s) /\ n - 1 \notin Bad BY <2>1, <2>2, <1>1
  <2>4. PICK f : Sums(s, kind, f, n - 1) BY <2>3
  <2> DEFINE g == [k \in 0..n |-> IF k = 0 THEN 0
                                  ELSE f[k - 1] + Amount(s[k], kind)]
  <2>5. ASSUME NEW k \in 0..n, k # 0 PROVE g[k - 1] = f[k - 1]
    <3>1. k - 1 \in 0..(n - 1) BY <2>1, <2>5, <1>1
    <3>2. f[k - 1] = IF k - 1 = 0 THEN 0
                     ELSE f[k - 1 - 1] + Amount(s[k - 1], kind)
      BY <2>4, <3>1 DEF Sums
    <3>3. k - 1 \in 0..n BY <3>1, <2>1, <1>1
    <3> QED BY <3>2, <3>3
  <2>6. Sums(s, kind, g, n) BY <2>5 DEF Sums
  <2> QED BY <2>6, <2>1
<1>3. \E f : Sums(s, kind, f, Len(s)) BY <1>1, <1>2
<1>4. Sums(s, kind, SumTo(s, kind), Len(s))
  <2> DEFINE P(f) == f = [k \in 0..Len(s) |-> IF k = 0 THEN 0
                                ELSE f[k - 1] + Amount(s[k], kind)]
  <2>1. SumTo(s, kind) = CHOOSE f : P(f) BY DEF SumTo
  <2>2. \E f : P(f) BY <1>3 DEF Sums
  <2>3. P(CHOOSE f : P(f)) BY <2>2
  <2> QED BY <2>1, <2>3 DEF Sums
<1> DEFINE f == SumTo(s, kind)
<1> HIDE DEF f
<1>5. Sums(s, kind, f, Len(s)) BY <1>4 DEF f
<1>6. Neg(f) = {}
  <2> SUFFICES ASSUME Neg(f) # {} PROVE FALSE OBVIOUS
  <2>0. Neg(f) \subseteq Nat BY <1>1
  <2>1. PICK n \in Neg(f) : \A m \in Neg(f) : n <= m
    <3> HIDE DEF Neg
    <3> QED BY LeastNat, <2>0
  <2>2. f[n] = IF n = 0 THEN 0 ELSE f[n - 1] + Amount(s[n], kind)
    BY <1>5 DEF Sums
  <2>3. n # 0 BY <2>2, <2>1
  <2>4. n - 1 \in 0..Len(s) /\ n - 1 \notin Neg(f) BY <2>1, <2>3, <1>1
  <2>5. n \in 1..Len(s) BY <2>1, <2>3, <1>1
  <2>6. Amount(s[n], kind) \in Nat BY <2>5 DEF Summable
  <2> QED BY <2>1, <2>2, <2>3, <2>4, <2>6
<1> QED BY <1>5, <1>6 DEF f

LEMMA SumStep ==
    ASSUME NEW s, NEW kind, Summable(s, kind), NEW k \in 0..Len(s)
    PROVE  /\ SumTo(s, kind)[k] =
                IF k = 0 THEN 0
                ELSE SumTo(s, kind)[k - 1] + Amount(s[k], kind)
           /\ SumTo(s, kind)[k] \in Nat
BY SumExists DEF Sums

\* Two sums that begin with a and b and go on with the same messages
LEMMA SumSame ==
    ASSUME NEW s, NEW t, NEW kind, Summable(s, kind), Summable(t, kind),
           NEW i \in 0..Len(s), NEW p \in 0..Len(s),
           NEW j \in 0..Len(t), NEW q \in 0..Len(t),
           NEW n \in Nat, p = i + n, q = j + n,
           \A k \in 1..n : s[i + k] = t[j + k]
    PROVE  SumTo(s, kind)[p] - SumTo(s, kind)[i]
             = SumTo(t, kind)[q] - SumTo(t, kind)[j]
<1> DEFINE F(k) == SumTo(s, kind)[k]
           G(k) == SumTo(t, kind)[k]
           Bad == {m \in 0..n : F(i + m) - F(i) # G(j + m) - G(j)}
<1>1. Len(s) \in Nat /\ Len(t) \in Nat BY DEF Summable
<1> SUFFICES ASSUME Bad # {} PROVE FALSE
  <2>1. n \in 0..n OBVIOUS
  <2> QED BY <2>1
<1>0. Bad \subseteq Nat OBVIOUS
<1>2. PICK m \in Bad : \A l \in Bad : m <= l
  <2> HIDE DEF Bad
  <2> QED BY LeastNat, <1>0
<1>3. m # 0
  <2>1. F(i) \in Nat /\ G(j) \in Nat BY SumStep
  <2>2. i + 0 = i /\ j + 0 = j BY <1>1
  <2> QED BY <2>1, <2>2, <1>2
<1>4. m - 1 \in 0..n /\ m - 1 \notin Bad
  <2>1. m \in 0..n BY <1>2
  <2>2. m - 1 \in 0..n /\ ~(m <= m - 1) BY <2>1, <1>3
  <2> HIDE DEF Bad
  <2> QED BY <2>2, <1>2
<1>5. i + m \in 1..Len(s) /\ j + m \in 1..Len(t) BY <1>1, <1>2, <1>3
<1>6. i + m - 1 = i + (m - 1) /\ j + m - 1 = j + (m - 1) BY <1>1, <1>2
<1>7. F(i + m) = F(i + (m - 1)) + Amount(s[i + m], kind)
  BY SumStep, <1>5, <1>6, <1>1
<1>8. G(j + m) = G(j + (m - 1)) + Amount(t[j + m], kind)
  BY SumStep, <1>5, <1>6, <1>1
<1>9. s[i + m] = t[j + m] BY <1>2, <1>3
<1>10. F(i) \in Nat /\ G(j) \in Nat BY SumStep
<1>11. F(i + (m - 1)) \in Nat /\ G(j + (m - 1)) \in Nat
  <2>1. i + (m - 1) \in 0..Len(s) /\ j + (m - 1) \in 0..Len(t)
    BY <1>1, <1>2, <1>5, <1>3
  <2> QED BY <2>1, SumStep
<1>12. Amount(s[i + m], kind) \in Nat BY <1>5 DEF Summable
<1>13. F(i + (m - 1)) - F(i) = G(j + (m - 1)) - G(j) BY <1>4
<1>14. F(i + m) - F(i) # G(j + m) - G(j) BY <1>2
<1> DEFINE a == F(i)
           b == G(j)
           c == F(i + (m - 1))
           d == G(j + (m - 1))
           x == Amount(s[i + m], kind)
           y == F(i + m)
           z == G(j + m)
<1>15. /\ a \in Nat /\ b \in Nat /\ c \in Nat /\ d \in Nat /\ x \in Nat
       /\ c - a = d - b /\ y = c + x /\ z = d + x /\ y - a # z - b
  BY <1>7, <1>8, <1>9, <1>10, <1>11, <1>12, <1>13, <1>14
<1> HIDE DEF a, b, c, d, x, y, z
<1> QED BY <1>15

LEMMA SumEmpty ==
    ASSUME NEW kind
    PROVE  SumOf(<<>>, kind) = 0
<1>1. Summable(<<>>, kind) BY DEF Summable
<1>2. SumTo(<<>>, kind)[0] = 0 BY <1>1, SumStep
<1> QED BY <1>2 DEF SumOf

LEMMA SumAppend ==
    ASSUME NEW S, NEW s \in Seq(S), NEW m \in S, NEW kind,
           \A x \in S : Amount(x, kind) \in Nat
    PROVE  /\ SumOf(Append(s, m), kind) = SumOf(s, kind) + Amount(m, kind)
           /\ SumOf(s, kind) \in Nat
<1> DEFINE t == Append(s, m)
           n == Len(s)
<1>1. n \in Nat /\ Len(t) = n + 1 /\ t[n + 1] = m
      /\ \A k \in 1..n : t[k] = s[k]
  BY AppendProperties
<1>2. t \in Seq(S) BY AppendProperties
<1>3. Summable(s, kind) /\ Summable(t, kind) BY <1>2 DEF Summable
<1> HIDE DEF t, n
<1>4. SumTo(s, kind)[n] - SumTo(s, kind)[0]
        = SumTo(t, kind)[n] - SumTo(t, kind)[0]
  <2>1. \A k \in 1..n : s[0 + k] = t[0 + k] BY <1>1
  <2>2. Len(s) = n BY DEF n
  <2>3. /\ n \in 0..Len(s) /\ n \in 0..Len(t)
        /\ 0 \in 0..Len(s) /\ 0 \in 0..Len(t)
    BY <1>1, <2>2
  <2> QED BY <2>1, <2>3, <1>1, <1>3, SumSame
<1>5. SumTo(s, kind)[0] = 0 /\ SumTo(t, kind)[0] = 0 BY <1>3, <1>1, SumStep DEF n
<1>6. SumTo(t, kind)[n + 1] = SumTo(t, kind)[n] + Amount(m, kind)
  <2>1. n + 1 \in 0..Len(t) /\ n + 1 # 0 /\ n + 1 - 1 = n BY <1>1
  <2> QED BY <2>1, <1>1, <1>3, SumStep
<1>7. SumTo(s, kind)[n] \in Nat /\ SumTo(t, kind)[n] \in Nat
  BY <1>1, <1>3, SumStep DEF n
<1>8. SumTo(t, kind)[n] = SumTo(s, kind)[n] BY <1>4, <1>5, <1>7, <1>1
<1> QED BY <1>1, <1>6, <1>7, <1>8 DEF SumOf, t, n

LEMMA SumTail ==
    ASSUME NEW S, NEW s \in Seq(S), s # <<>>, NEW kind,
           \A x \in S : Amount(x, kind) \in Nat
    PROVE  /\ SumOf(s, kind) = Amount(Head(s), kind) + SumOf(Tail(s), kind)
           /\ SumOf(Tail(s), kind) \in Nat /\ Amount(Head(s), kind) \in Nat
<1> DEFINE t == Tail(s)
           n == Len(t)
<1>1. n \in Nat /\ Len(s) = n + 1 /\ Head(s) = s[1] /\ Head(s) \in S
      /\ \A k \in 1..n : t[k] = s[1 + k]
  BY HeadTailProperties
<1>2. t \in Seq(S) BY HeadTailProperties
<1>3. Summable(s, kind) /\ Summable(t, kind) BY <1>2 DEF Summable
<1> HIDE DEF t, n
<1>4. SumTo(t, kind)[n] - SumTo(t, kind)[0]
        = SumTo(s, kind)[n + 1] - SumTo(s, kind)[1]
  <2>1. \A k \in 1..n : t[0 + k] = s[1 + k] BY <1>1
  <2>2. Len(t) = n BY DEF n
  <2>3. /\ n \in 0..Len(t) /\ n + 1 \in 0..Len(s)
        /\ 0 \in 0..Len(t) /\ 1 \in 0..Len(s)
    BY <1>1, <2>2
  <2> QED BY <2>1, <2>3, <1>1, <1>3, SumSame, SMTT(30)
<1>5. SumTo(s, kind)[0] = 0 /\ SumTo(t, kind)[0] = 0 BY <1>3, <1>1, SumStep DEF n
<1>6. SumTo(s, kind)[1] = SumTo(s, kind)[0] + Amount(s[1], kind)
  <2>1. 1 \in 0..Len(s) /\ 1 # 0 /\ 1 - 1 = 0 BY <1>1
  <2> QED BY <2>1, <1>3, SumStep
<1>7. SumTo(t, kind)[n] \in Nat /\ SumTo(s, kind)[n + 1] \in Nat
  BY <1>1, <1>3, SumStep DEF n
<1>8. Amount(Head(s), kind) \in Nat BY <1>1
<1> QED BY <1>1, <1>4, <1>5, <1>6, <1>7, <1>8 DEF SumOf, t, n

LEMMA SumConcat ==
    ASSUME NEW S, NEW s \in Seq(S), NEW t \in Seq(S), NEW kind,
           \A x \in S : Amount(x, kind) \in Nat
    PROVE  SumOf(s \o t, kind) = SumOf(s, kind) + SumOf(t, kind)
<1> DEFINE u == s \o t
           n == Len(s)
           m == Len(t)
<1>1. n \in Nat /\ m \in Nat /\ Len(u) = n + m
      /\ (\A k \in 1..n : u[k] = s[k]) /\ (\A k \in 1..m : u[n + k] = t[k])
  BY ConcatProperties
<1>2. u \in Seq(S) BY ConcatProperties
<1>3. Summable(s, kind) /\ Summable(t, kind) /\ Summable(u, kind)
  BY <1>2 DEF Summable
<1>4. Len(s) = n /\ Len(t) = m OBVIOUS
<1> HIDE DEF u, n, m
<1>5. SumTo(s, kind)[n] - SumTo(s, kind)[0]
        = SumTo(u, kind)[n] - SumTo(u, kind)[0]
  <2>1. \A k \in 1..n : s[0 + k] = u[0 + k] BY <1>1
  <2>2. /\ n \in 0..Len(s) /\ n \in 0..Len(u)
        /\ 0 \in 0..Len(s) /\ 0 \in 0..Len(u) /\ n = 0 + n /\ n \in Nat
    BY <1>1, <1>4
  <2>3. Summable(s, kind) /\ Summable(u, kind) BY <1>3
  <2> QED BY <2>1, <2>2, <2>3, SumSame
<1>6. SumTo(u, kind)[n + m] - SumTo(u, kind)[n]
        = SumTo(t, kind)[m] - SumTo(t, kind)[0]
  <2>1. \A k \in 1..m : u[n + k] = t[0 + k] BY <1>1
  <2>2. /\ n + m \in 0..Len(u) /\ m \in 0..Len(t)
        /\ n \in 0..Len(u) /\ 0 \in 0..Len(t) /\ m = 0 + m
        /\ m \in Nat
    BY <1>1, <1>4
  <2>3. Summable(t, kind) /\ Summable(u, kind) BY <1>3
  <2> QED BY <2>1, <2>2, <2>3, SumSame
<1>7. SumTo(s, kind)[0] = 0 /\ SumTo(t, kind)[0] = 0 /\ SumTo(u, kind)[0] = 0
  <2>1. 0 \in 0..Len(s) /\ 0 \in 0..Len(t) /\ 0 \in 0..Len(u) BY <1>1, <1>4
  <2> QED BY <2>1, <1>3, SumStep
<1>8. SumTo(s, kind)[n] \in Nat /\ SumTo(t, kind)[m] \in Nat
      /\ SumTo(u, kind)[n] \in Nat /\ SumTo(u, kind)[n + m] \in Nat
  <2>1. n \in 0..Len(s) /\ m \in 0..Len(t) /\ n \in 0..Len(u)
        /\ n + m \in 0..Len(u)
    BY <1>1, <1>4
  <2> QED BY <2>1, <1>3, SumStep
<1>10. SumTo(u, kind)[n + m] = SumTo(s, kind)[n] + SumTo(t, kind)[m]
  BY <1>5, <1>6, <1>7, <1>8
<1>11. SumOf(u, kind) = SumTo(u, kind)[n + m] BY <1>1 DEF SumOf
<1> QED BY <1>4, <1>10, <1>11 DEF SumOf, u

-----------------------------------------------------------------------------
(* Sets of numbers in order; the messages that acknowledge a list *)

Orders(S, f) ==
    /\ f \in [1..Cardinality(S) -> S]
    /\ \A i, j \in DOMAIN f : i < j => f[i] < f[j]

\* A finite set of numbers has an enumeration in order.
LEMMA OrderExists ==
    ASSUME NEW n \in Nat
    PROVE  \A S \in SUBSET (1..n) : IsFiniteSet(S) /\ \E f : Orders(S, f)
<1> DEFINE Good(k) == \A S \in SUBSET (1..k) : \E f : Orders(S, f)
           Bad == {k \in 0..n : ~Good(k)}
<1>1. \A S \in SUBSET (1..n) : IsFiniteSet(S)
  <2>1. IsFiniteSet(1..n) BY FS_Interval
  <2>2. ASSUME NEW S \in SUBSET (1..n) PROVE IsFiniteSet(S)
    BY <2>1, FS_Subset
  <2> QED BY <2>2
<1> SUFFICES Good(n) BY <1>1
<1> SUFFICES ASSUME Bad # {} PROVE FALSE
  <2>1. n \in 0..n OBVIOUS
  <2> QED BY <2>1
<1>2. PICK k \in Bad : \A m \in Bad : k <= m
  <2>1. Bad \subseteq Nat OBVIOUS
  <2> HIDE DEF Bad
  <2> QED BY <2>1, LeastNat
<1>3. k # 0
  <2>1. ASSUME NEW S \in SUBSET (1..0) PROVE Orders(S, <<>>)
    <3>1. S = {} BY <2>1
    <3> QED BY <3>1, FS_EmptySet DEF Orders
  <2>2. Good(0) BY <2>1
  <2> QED BY <1>2, <2>2
<1>4. k \in 1..n /\ k - 1 \in 0..n
  <2>1. k \in 0..n BY <1>2
  <2> QED BY <2>1, <1>3
<1>5. Good(k - 1)
  <2>1. ~(k <= k - 1) BY <1>4
  <2>2. k - 1 \notin Bad
    <3> HIDE DEF Bad
    <3> QED BY <1>2, <2>1
  <2> HIDE DEF Good
  <2> QED BY <2>2, <1>4
<1>6. ASSUME NEW S \in SUBSET (1..k) PROVE \E f : Orders(S, f)
  <2> DEFINE T == S \ {k}
  <2>1. T \in SUBSET (1..(k - 1)) BY <1>4
  <2>2. PICK g : Orders(T, g) BY <1>5, <2>1
  <2>3. CASE k \notin S
    <3>1. S = T BY <2>3
    <3> QED BY <3>1, <2>2
  <2>4. CASE k \in S
    <3> DEFINE c == Cardinality(T)
               f == [i \in 1..(c + 1) |-> IF i = c + 1 THEN k ELSE g[i]]
    <3>1. IsFiniteSet(T)
      <4>1. T \in SUBSET (1..n) BY <2>1, <1>4
      <4> QED BY <4>1, <1>1
    <3>2. c \in Nat BY <3>1, FS_CardinalityType
    <3>3. Cardinality(S) = c + 1
      <4>1. S = T \cup {k} /\ k \notin T BY <2>4
      <4> HIDE DEF T
      <4> QED BY <4>1, <3>1, FS_AddElement
    <3>4. g \in [1..c -> T] /\ \A i, j \in 1..c : i < j => g[i] < g[j]
      BY <2>2 DEF Orders
    <3>5. \A i \in 1..c : g[i] \in S /\ g[i] < k
      <4>1. \A i \in 1..c : g[i] \in T BY <3>4
      <4>2. \A x \in T : x \in S /\ x < k BY <2>1, <1>4
      <4> QED BY <4>1, <4>2
    <3> HIDE DEF c
    <3>6. f \in [1..(c + 1) -> S] BY <3>5, <2>4, <3>2
    <3>7. ASSUME NEW i \in 1..(c + 1), NEW j \in 1..(c + 1), i < j
          PROVE  f[i] < f[j]
      <4>1. i \in 1..c /\ f[i] = g[i] BY <3>7, <3>2
      <4>2. CASE j = c + 1 BY <4>1, <4>2, <3>5
      <4>3. CASE j # c + 1
        <5>1. j \in 1..c BY <4>3, <3>2
        <5> QED BY <4>1, <5>1, <4>3, <3>4, <3>7
      <4> QED BY <4>2, <4>3
    <3>8. Orders(S, f)
      <4> HIDE DEF T
      <4> QED BY <3>3, <3>6, <3>7 DEF Orders
    <3> QED BY <3>8
  <2> QED BY <2>3, <2>4
<1> QED BY <1>2, <1>6

\* InOrder enumerates the set: each member once.
LEMMA InOrderIs ==
    ASSUME NEW n \in Nat, NEW S \in SUBSET (1..n)
    PROVE  /\ InOrder(S) \in Seq(S) /\ Len(InOrder(S)) = Cardinality(S)
           /\ Cardinality(S) \in Nat /\ IsFiniteSet(S)
           /\ \A i, j \in 1..Cardinality(S) : i < j => InOrder(S)[i] < InOrder(S)[j]
<1>1. IsFiniteSet(S) /\ \E f : Orders(S, f) BY OrderExists
<1>2. Cardinality(S) \in Nat BY <1>1, FS_CardinalityType
<1>3. Orders(S, InOrder(S))
  <2> DEFINE P(f) == f \in [1..Cardinality(S) -> S]
                     /\ \A i, j \in DOMAIN f : i < j => f[i] < f[j]
  <2>1. InOrder(S) = CHOOSE f \in [1..Cardinality(S) -> S] :
                       \A i, j \in DOMAIN f : i < j => f[i] < f[j]
    BY DEF InOrder
  <2>2. \E f \in [1..Cardinality(S) -> S] :
          \A i, j \in DOMAIN f : i < j => f[i] < f[j]
    BY <1>1 DEF Orders
  <2> QED BY <2>1, <2>2 DEF Orders
<1> DEFINE g == InOrder(S)
           c == Cardinality(S)
<1> HIDE DEF g, c
<1>4. g \in [1..c -> S] /\ \A i, j \in 1..c : i < j => g[i] < g[j]
  BY <1>3 DEF Orders, g, c
<1>5. c \in Nat BY <1>2 DEF c
<1>6. g \in Seq(S) /\ Len(g) = c BY <1>4, <1>5
<1> QED BY <1>1, <1>4, <1>5, <1>6 DEF g, c

\* A division rounds down.
LEMMA DivBelow ==
    ASSUME NEW a \in Nat, NEW b \in Nat \ {0}, NEW r \in Nat, a < (r + 1) * b
    PROVE  a \div b \in 0..r
<1> DEFINE q == a \div b
<1>1. q \in Nat /\ b * q <= a OBVIOUS
<1> HIDE DEF q
<1>2. ASSUME q > r PROVE FALSE
  <2>1. PICK d \in Nat : q = r + 1 + d
    <3>1. q - (r + 1) \in Nat BY <1>1, <1>2
    <3>2. q = r + 1 + (q - (r + 1)) BY <1>1
    <3> QED BY <3>1, <3>2
  <2>2. b * q = (r + 1) * b + b * d BY <2>1
  <2>3. b * d \in Nat OBVIOUS
  <2>4. (r + 1) * b \in Nat OBVIOUS
  <2> DEFINE x == b * q
             y == (r + 1) * b
             z == b * d
  <2>5. x = y + z /\ z \in Nat /\ y \in Nat /\ x <= a /\ a < y
    BY <2>2, <2>3, <2>4, <1>1
  <2> HIDE DEF x, y, z
  <2> QED BY <2>5
<1>3. q <= r BY <1>1, <1>2
<1> QED BY <1>1, <1>3 DEF q

\* Taken leaves nothing when a ring entry is left over.
LEMMA TakenIs ==
    ASSUME NEW S, NEW q \in Seq(S), NEW per \in Nat \ {0}, NEW room \in Nat
    PROVE  /\ Taken(q, per, room) \in 0..Len(q)
           /\ (Taken(q, per, room) + per - 1) \div per \in 0..room
           /\ Rest(q, per, room) \in Seq(S)
<1> DEFINE n == Taken(q, per, room)
<1>1. n \in 0..Len(q)
  <2>1. CASE room = 0 BY <2>1 DEF Taken
  <2>2. CASE room # 0
    <3>1. (room - 1) * per \in Nat
      <4>1. room - 1 \in Nat BY <2>2
      <4> HIDE DEF n
      <4> QED BY <4>1
    <3>2. n = Least(Len(q), (room - 1) * per + 1) BY <2>2 DEF Taken
    <3> DEFINE x == (room - 1) * per
    <3> HIDE DEF n, x
    <3>3. n = Least(Len(q), x + 1) /\ x \in Nat BY <3>1, <3>2 DEF x
    <3> QED BY <3>3 DEF Least
  <2> QED BY <2>1, <2>2
<1>2. n + per - 1 < (room + 1) * per
  <2>1. CASE room = 0
    <3>1. n = 0 BY <2>1 DEF Taken
    <3>2. (room + 1) * per = per BY <2>1
    <3> QED BY <3>1, <3>2
  <2>2. CASE room # 0
    <3> DEFINE x == (room - 1) * per
    <3>1. x \in Nat
      <4>1. room - 1 \in Nat BY <2>2
      <4> QED BY <4>1
    <3>2. (room + 1) * per = x + per + per OBVIOUS
    <3>3. n = Least(Len(q), x + 1) BY <2>2 DEF Taken
    <3> HIDE DEF n, x
    <3>4. n <= x + 1 BY <3>1, <3>3 DEF Least
    <3> QED BY <3>1, <3>2, <3>4, <1>1
  <2> QED BY <2>1, <2>2
<1>3. Rest(q, per, room) \in Seq(S)
  <2>1. Rest(q, per, room) = SubSeq(q, n + 1, Len(q)) BY DEF Rest
  <2> HIDE DEF n
  <2> QED BY <1>1, <2>1
<1>4. (n + per - 1) \div per \in 0..room
  <2> HIDE DEF n
  <2>1. n + per - 1 \in Nat BY <1>1
  <2> QED BY <1>2, <2>1, DivBelow
<1> QED BY <1>1, <1>3, <1>4

\* The messages fit into the room, and each names members of the list.
LEMMA BatchesAre ==
    ASSUME NEW S, NEW q \in Seq(S), NEW per \in Nat \ {0}, NEW room \in Nat,
           NEW kind
    PROVE  /\ Batches(kind, q, per, room) \in Seq([k : {kind}, of : Seq(S)])
           /\ Len(Batches(kind, q, per, room)) \in 0..room
<1> DEFINE n == Taken(q, per, room)
           c == (n + per - 1) \div per
           b == Batches(kind, q, per, room)
           Part(j) == SubSeq(q, (j - 1) * per + 1, Least(j * per, n))
<1>1. n \in 0..Len(q) /\ c \in 0..room BY TakenIs
<1>2. ASSUME NEW j \in 1..c PROVE Part(j) \in Seq(S)
  <2>1. j \in Nat /\ j - 1 \in Nat BY <1>1, <1>2
  <2>2. (j - 1) * per \in Nat /\ j * per \in Nat BY <2>1
  <2> DEFINE x == (j - 1) * per
             y == j * per
  <2>3. x \in Nat /\ y \in Nat BY <2>2
  <2> HIDE DEF n, c, x, y
  <2>4. Least(y, n) \in Nat /\ Least(y, n) <= Len(q) BY <1>1, <2>3 DEF Least
  <2>5. SubSeq(q, x + 1, Least(y, n)) \in Seq(S) BY <2>3, <2>4
  <2> QED BY <2>5 DEF x, y
<1>3. b = [j \in 1..c |-> [k |-> kind, of |-> Part(j)]] BY DEF Batches
<1> HIDE DEF b, c, Part
<1>4. b \in Seq([k : {kind}, of : Seq(S)]) /\ Len(b) = c
  <2> DEFINE X == [k : {kind}, of : Seq(S)]
  <2>1. b \in [1..c -> X] BY <1>2, <1>3
  <2>2. c \in Nat BY <1>1
  <2> HIDE DEF X
  <2>3. b \in Seq(X) /\ Len(b) = c BY <2>1, <2>2
  <2> QED BY <2>3 DEF X
<1> QED BY <1>1, <1>4 DEF b

-----------------------------------------------------------------------------
(* Messages *)

\* What a message of the indication ring has, by its kind
LEMMA RingKinds ==
    ASSUME NEW m \in RingType
    PROVE  /\ m.k = "rc" => m \in RcType
           /\ m.k = "ind" => m \in IndType
           /\ m.k = "ack_req" => m \in [k : {"ack_req"}, n : Nat]
           /\ m.k \in {"rc", "ind", "ack_req", "start", "cpu_stop", "warning",
                       "rnr_ind"}
BY DEF RingType, RcType, IndType

LEMMA ReqKinds ==
    ASSUME NEW m \in ReqType
    PROVE  /\ m.k \in Code => m \in Host
           /\ m.k = "ack_ind" => m \in [k : {"ack_ind"}, n : Nat]
           /\ m.k = "timer" => m \in [k : {"timer"}, on : BOOLEAN]
           /\ m.k = "ack_buf" => m \in [k : {"ack_buf"}, of : Seq(RxBuf)]
           /\ m.k = "ack_id" => m \in [k : {"ack_id"}, of : Seq(Ids)]
           /\ m.k = "stop" => m \in [k : {"stop"}]
           /\ m.k \in Code \cup {"ack_ind", "timer", "ack_buf", "ack_id", "stop"}
BY DEF ReqType, Host, Code

\* Taking the first element, adding one at the end
LEMMA TailIs ==
    ASSUME NEW S, NEW s \in Seq(S), s # <<>>
    PROVE  /\ Tail(s) \in Seq(S) /\ Head(s) \in S /\ Head(s) = s[1]
           /\ Len(s) \in Nat \ {0} /\ Len(Tail(s)) = Len(s) - 1
           /\ DOMAIN s = 1..Len(s) /\ DOMAIN Tail(s) = 1..(Len(s) - 1)
           /\ \A k \in 1..(Len(s) - 1) : Tail(s)[k] = s[k + 1]
           /\ \A k \in DOMAIN s : s[k] \in S
<1>1. Len(s) \in Nat \ {0} BY EmptySeq
<1>2. Tail(s) \in Seq(S) /\ Head(s) = s[1] /\ Len(Tail(s)) = Len(s) - 1
      /\ \A k \in 1..Len(Tail(s)) : Tail(s)[k] = s[k + 1]
  BY HeadTailProperties
<1>3. \A k \in 1..Len(s) : s[k] \in S BY ElementOfSeq
<1>4. Head(s) \in S BY <1>1, <1>2, <1>3
<1> QED BY <1>1, <1>2, <1>3, <1>4

LEMMA AppendIs ==
    ASSUME NEW S, NEW s \in Seq(S), NEW m \in S
    PROVE  /\ Append(s, m) \in Seq(S) /\ Len(s) \in Nat
           /\ Len(Append(s, m)) = Len(s) + 1
           /\ DOMAIN s = 1..Len(s) /\ DOMAIN Append(s, m) = 1..(Len(s) + 1)
           /\ \A k \in 1..Len(s) : Append(s, m)[k] = s[k]
           /\ Append(s, m)[Len(s) + 1] = m
           /\ \A k \in DOMAIN s : s[k] \in S
<1>1. Len(s) \in Nat OBVIOUS
<1>2. Append(s, m) \in Seq(S) /\ Len(Append(s, m)) = Len(s) + 1
      /\ (\A k \in 1..Len(s) : Append(s, m)[k] = s[k])
      /\ Append(s, m)[Len(s) + 1] = m
  BY AppendProperties
<1>3. \A k \in 1..Len(s) : s[k] \in S BY ElementOfSeq
<1> QED BY <1>1, <1>2, <1>3

-----------------------------------------------------------------------------
(* The two views of an Id *)

\* What the invariant says about an Id, in terms of the owners of the messages,
\* the positions of those about it, and the owners of the Id for host and card
View(o, A, G, E, h, c) ==
    /\ \A k \in A : o[k] = IF \E j \in G : j <= k THEN c ELSE h
    /\ \A j, k \in G : j = k
    /\ \A j \in G, k \in E : k < j
    /\ \A j \in E, k \in A : j < k => \E i \in G : i <= k
    /\ IF h # Null /\ E = {} THEN c = h /\ G = {}
       ELSE (c = Null <=> G = {}) /\ (c # Null => c # h)
    /\ h = Null => E = {}

Owners == [k \in DOMAIN indRing |-> indRing[k].own]
IdOwner(d) == \A e \in Entity : ent[e].Id = d <=> IdTable[d] = e
IdView(d) == View(Owners, About(d), Assigned(d), Ended(d), IdTable[d],
                  cardId[d])

LEMMA IdAtIs ==
    ASSUME NEW d
    PROVE  IdAt(d) <=> IdOwner(d) /\ IdView(d)
<1>1. \A k \in About(d) : Owners[k] = indRing[k].own BY DEF Owners, About
<1> QED BY <1>1 DEF IdAt, View, IdOwner, IdView

\* The positions after the first message is taken, after one is added
Shifted(A, n) == {k \in 1..(n - 1) : k + 1 \in A}
Extended(A, n, new) == IF new THEN A \cup {n + 1} ELSE A

\* A message is taken that neither assigns nor ends the Id.
LEMMA ViewTail ==
    ASSUME NEW n \in Nat, NEW A \in SUBSET (1..n), NEW G \in SUBSET A,
           NEW E \in SUBSET A, NEW o, NEW p, NEW h, NEW c,
           \A k \in 1..(n - 1) : p[k] = o[k + 1],
           View(o, A, G, E, h, c), 1 \notin G, 1 \notin E
    PROVE  View(p, Shifted(A, n), Shifted(G, n), Shifted(E, n), h, c)
<1> DEFINE A2 == Shifted(A, n)
           G2 == Shifted(G, n)
           E2 == Shifted(E, n)
<1>1. \A k \in A2 : k \in Nat /\ k + 1 \in A /\ p[k] = o[k + 1] BY DEF Shifted
<1>2. \A k \in G2 : k \in Nat /\ k + 1 \in G BY DEF Shifted
<1>3. \A k \in E2 : k \in Nat /\ k + 1 \in E BY DEF Shifted
<1>4. \A k \in G : k \in Nat /\ k - 1 \in G2 /\ k - 1 + 1 = k BY DEF Shifted
<1>5. \A k \in E : k \in Nat /\ k - 1 \in E2 BY DEF Shifted
<1> HIDE DEF A2, G2, E2
<1>6. ASSUME NEW k \in A2 PROVE p[k] = IF \E j \in G2 : j <= k THEN c ELSE h
  <2>1. o[k + 1] = IF \E j \in G : j <= k + 1 THEN c ELSE h
    BY <1>1 DEF View
  <2>2. (\E j \in G : j <= k + 1) <=> \E j \in G2 : j <= k
    BY <1>1, <1>2, <1>4
  <2> QED BY <1>1, <2>1, <2>2
<1>7. ASSUME NEW j \in G2, NEW k \in G2 PROVE j = k
  <2>1. j + 1 = k + 1 BY <1>2 DEF View
  <2> QED BY <2>1, <1>2
<1>8. ASSUME NEW j \in G2, NEW k \in E2 PROVE k < j
  <2>1. k + 1 < j + 1 BY <1>2, <1>3 DEF View
  <2> QED BY <2>1, <1>2, <1>3
<1>9. ASSUME NEW j \in E2, NEW k \in A2, j < k PROVE \E i \in G2 : i <= k
  <2>1. j + 1 \in E /\ k + 1 \in A /\ j + 1 < k + 1 BY <1>1, <1>3, <1>9
  <2>2. PICK i \in G : i <= k + 1 BY <2>1 DEF View
  <2> QED BY <2>2, <1>4, <1>1
<1>10. (G = {} <=> G2 = {}) /\ (E = {} <=> E2 = {})
  BY <1>2, <1>3, <1>4, <1>5
<1>11. /\ IF h # Null /\ E = {} THEN c = h /\ G = {}
          ELSE (c = Null <=> G = {}) /\ (c # Null => c # h)
       /\ h = Null => E = {}
  BY DEF View
<1>12. View(p, A2, G2, E2, h, c)
  BY <1>6, <1>7, <1>8, <1>9, <1>10, <1>11 DEF View
<1> QED BY <1>12 DEF A2, G2, E2

\* The message is taken that assigns the Id.
LEMMA ViewAssigned ==
    ASSUME NEW n \in Nat, NEW A \in SUBSET (1..n), NEW G \in SUBSET A,
           NEW E \in SUBSET A, NEW o, NEW p, NEW h, NEW c,
           \A k \in 1..(n - 1) : p[k] = o[k + 1],
           View(o, A, G, E, h, c), 1 \in G
    PROVE  /\ View(p, Shifted(A, n), Shifted(G, n), Shifted(E, n), c, c)
           /\ c = o[1] /\ h = Null
<1> DEFINE A2 == Shifted(A, n)
           G2 == Shifted(G, n)
           E2 == Shifted(E, n)
<1>1. \A k \in A2 : k \in Nat /\ k + 1 \in A /\ p[k] = o[k + 1] BY DEF Shifted
<1>2. \A k \in G : k = 1 BY DEF View
<1>3. E = {}
  <2>1. \A k \in E : k < 1 /\ k \in 1..n BY DEF View
  <2> QED BY <2>1
<1>4. h = Null /\ c # Null BY <1>3 DEF View
<1>5. G2 = {} /\ E2 = {} BY <1>2, <1>3 DEF Shifted
<1>6. ASSUME NEW k \in A2 PROVE p[k] = c
  <2>1. 1 <= k + 1 BY <1>1
  <2> QED BY <2>1, <1>1 DEF View
<1>7. c = o[1]
  <2>1. 1 \in A /\ 1 <= 1 OBVIOUS
  <2> QED BY <2>1 DEF View
<1> HIDE DEF A2, G2, E2
<1>8. View(p, A2, G2, E2, c, c) BY <1>4, <1>5, <1>6 DEF View
<1> QED BY <1>4, <1>7, <1>8 DEF A2, G2, E2

\* The message is taken that ends the Id.
EndsFirst(n, A, G, E, o, p, h, c) ==
    /\ n \in Nat /\ A \in SUBSET (1..n) /\ G \in SUBSET A /\ E \in SUBSET A
    /\ \A k \in 1..(n - 1) : p[k] = o[k + 1]
    /\ View(o, A, G, E, h, c) /\ 1 \in E

LEMMA ViewEnded ==
    ASSUME NEW n, NEW A, NEW G, NEW E, NEW o, NEW p, NEW h, NEW c,
           EndsFirst(n, A, G, E, o, p, h, c)
    PROVE  /\ View(p, Shifted(A, n), Shifted(G, n), {}, Null, c)
           /\ h = o[1]
<1>0. /\ n \in Nat /\ A \in SUBSET (1..n) /\ G \in SUBSET A /\ E \in SUBSET A
      /\ \A k \in 1..(n - 1) : p[k] = o[k + 1]
      /\ View(o, A, G, E, h, c) /\ 1 \in E
  BY DEF EndsFirst
<1> DEFINE A2 == Shifted(A, n)
           G2 == Shifted(G, n)
<1>1. \A k \in A2 : k \in 1..n /\ k + 1 \in A /\ p[k] = o[k + 1]
  BY <1>0 DEF Shifted
<1>2. \A k \in G2 : k \in Nat /\ k + 1 \in G BY DEF Shifted
<1>3. \A k \in G : k \in Nat /\ k # 1 BY <1>0 DEF View
<1>4. \A k \in G : k - 1 \in G2 /\ k - 1 + 1 = k BY <1>0, <1>3 DEF Shifted
<1>5. h # Null /\ (c = Null <=> G = {}) BY <1>0 DEF View
<1>6. ASSUME NEW k \in A2 PROVE (\E j \in G2 : j <= k) /\ p[k] = c
  <2>1. 1 < k + 1 /\ k + 1 \in A BY <1>1
  <2>2. PICK i \in G : i <= k + 1 BY <1>0, <2>1 DEF View
  <2>3. o[k + 1] = c BY <1>0, <2>1, <2>2 DEF View
  <2>4. i - 1 \in G2 /\ i - 1 <= k BY <2>2, <1>3, <1>4, <1>1
  <2> QED BY <2>3, <2>4, <1>1
<1>7. ASSUME NEW j \in G2, NEW k \in G2 PROVE j = k
  <2>1. j + 1 = k + 1 BY <1>0, <1>2 DEF View
  <2> QED BY <2>1, <1>2
<1>8. G = {} <=> G2 = {} BY <1>2, <1>4
<1>9. h = o[1]
  <2>1. ~\E j \in G : j <= 1
    <3>1. \A j \in G : 1 < j /\ j \in Nat BY <1>0, <1>3 DEF View
    <3> QED BY <3>1
  <2>2. 1 \in A BY <1>0
  <2> QED BY <1>0, <2>1, <2>2 DEF View
<1> HIDE DEF A2, G2
<1>10. View(p, A2, G2, {}, Null, c) BY <1>5, <1>6, <1>7, <1>8 DEF View
<1> QED BY <1>9, <1>10 DEF A2, G2

\* A message is added for the entity that has the Id on the card.
LEMMA ViewAppend ==
    ASSUME NEW n \in Nat, NEW A \in SUBSET (1..n), NEW G \in SUBSET A,
           NEW E \in SUBSET A, NEW o, NEW p, NEW h, NEW c,
           \A k \in 1..n : p[k] = o[k],
           View(o, A, G, E, h, c), c # Null, p[n + 1] = c
    PROVE  View(p, A \cup {n + 1}, G, E, h, c)
<1> DEFINE A2 == A \cup {n + 1}
<1>1. \A k \in A : k \in 1..n /\ p[k] = o[k] OBVIOUS
<1>2. \A j \in G : j <= n + 1 OBVIOUS
<1>3. G # {} \/ c = h BY DEF View
<1>4. E # {} => G # {} BY DEF View
<1>5. ASSUME NEW k \in A2 PROVE p[k] = IF \E j \in G : j <= k THEN c ELSE h
  <2>1. CASE k \in A BY <2>1, <1>1 DEF View
  <2>2. CASE k = n + 1 BY <2>2, <1>2, <1>3
  <2> QED BY <2>1, <2>2
<1>6. ASSUME NEW j \in E, NEW k \in A2, j < k PROVE \E i \in G : i <= k
  <2>1. CASE k \in A BY <2>1, <1>6 DEF View
  <2>2. CASE k = n + 1 BY <2>2, <1>2, <1>4
  <2> QED BY <2>1, <2>2
<1> HIDE DEF A2
<1>7. View(p, A2, G, E, h, c) BY <1>5, <1>6 DEF View
<1> QED BY <1>7 DEF A2

\* A message is added that assigns the Id to x.
LEMMA ViewAssigning ==
    ASSUME NEW n \in Nat, NEW A \in SUBSET (1..n), NEW G \in SUBSET A,
           NEW E \in SUBSET A, NEW o, NEW p, NEW h, NEW x,
           \A k \in 1..n : p[k] = o[k],
           View(o, A, G, E, h, Null), x # Null, x # h, p[n + 1] = x
    PROVE  View(p, A \cup {n + 1}, G \cup {n + 1}, E, h, x)
<1> DEFINE A2 == A \cup {n + 1}
           G2 == G \cup {n + 1}
<1>1. \A k \in A : k \in 1..n /\ p[k] = o[k] OBVIOUS
<1>2. G = {} BY DEF View
<1>3. h = Null \/ E # {} BY DEF View
<1>4. \A k \in E : k \in 1..n OBVIOUS
<1>5. \A k \in G2 : k = n + 1 BY <1>2
<1>6. n + 1 \in G2 OBVIOUS
<1>7. ASSUME NEW k \in A2 PROVE p[k] = IF \E j \in G2 : j <= k THEN x ELSE h
  <2>1. CASE k \in A
    <3>0. k \in 1..n BY <2>1
    <3>1. ~(n + 1 <= k)
      <4> HIDE DEF A2, G2
      <4> QED BY <3>0
    <3>3. ~\E j \in G2 : j <= k
      <4> HIDE DEF G2
      <4> QED BY <3>1, <1>5
    <3>2. o[k] = h BY <2>1, <1>2 DEF View
    <3> QED BY <3>2, <3>3, <2>1, <1>1
  <2>2. CASE k = n + 1 BY <2>2, <1>6
  <2> QED BY <2>1, <2>2
<1>8. ASSUME NEW j \in E, NEW k \in A2, j < k PROVE \E i \in G2 : i <= k
  <2>1. CASE k \in A BY <2>1, <1>2, <1>8 DEF View
  <2>2. CASE k = n + 1 BY <2>2, <1>6
  <2> QED BY <2>1, <2>2
<1>9. \A j \in G2, k \in E : k < j BY <1>4, <1>5
<1>10. h = Null => E = {} BY DEF View
<1> HIDE DEF A2, G2
<1>11. View(p, A2, G2, E, h, x)
  BY <1>3, <1>5, <1>6, <1>7, <1>8, <1>9, <1>10 DEF View
<1> QED BY <1>11 DEF A2, G2

\* A message is added that ends the Id.
LEMMA ViewEnding ==
    ASSUME NEW n \in Nat, NEW A \in SUBSET (1..n), NEW G \in SUBSET A,
           NEW E \in SUBSET A, NEW o, NEW p, NEW h,
           \A k \in 1..n : p[k] = o[k],
           View(o, A, G, E, h, h), h # Null, p[n + 1] = h
    PROVE  View(p, A \cup {n + 1}, G, E \cup {n + 1}, h, Null)
<1> DEFINE A2 == A \cup {n + 1}
           E2 == E \cup {n + 1}
<1>1. \A k \in A : k \in 1..n /\ p[k] = o[k] OBVIOUS
<1>2. G = {} /\ E = {} BY DEF View
<1>3. \A k \in E2 : k = n + 1 BY <1>2
<1>4. \A k \in A2 : k \in Nat /\ k <= n + 1
  <2>0. \A k \in 1..n : k \in Nat /\ k <= n + 1 OBVIOUS
  <2>1. \A k \in A : k \in Nat /\ k <= n + 1 BY <1>1, <2>0
  <2>2. n + 1 \in Nat /\ n + 1 <= n + 1 OBVIOUS
  <2> QED BY <2>1, <2>2
<1>5. \A k \in A2 : p[k] = h
  <2>1. \A k \in A : o[k] = h BY <1>2 DEF View
  <2> QED BY <1>1, <2>1
<1>6. n + 1 \in E2 OBVIOUS
<1>7. \A j \in E2, k \in A2 : ~(j < k) BY <1>3, <1>4, <1>1
<1> HIDE DEF A2, E2
<1>8. View(p, A2, G, E2, h, Null) BY <1>2, <1>5, <1>6, <1>7 DEF View
<1> QED BY <1>8 DEF A2, E2

-----------------------------------------------------------------------------
(* The indication ring in a step *)

\* The positions of the messages about d, in the ring without its head
LEMMA TailSets ==
    ASSUME NEW d, indRing \in Seq(RingType), indRing # <<>>,
           indRing' = Tail(indRing),
           \A k \in DOMAIN indRing : k # 1 /\ IsAnswer(indRing[k])
               /\ IsAbout(indRing[k], d)
             => (indRing[k].own \in rmPending' <=> indRing[k].own \in rmPending)
    PROVE  LET n == Len(indRing) IN
           /\ n \in Nat \ {0} /\ Head(indRing) = indRing[1]
           /\ About(d) \in SUBSET (1..n)
           /\ Assigned(d) \in SUBSET About(d) /\ Ended(d) \in SUBSET About(d)
           /\ About(d)' = Shifted(About(d), n)
           /\ Assigned(d)' = Shifted(Assigned(d), n)
           /\ Ended(d)' = Shifted(Ended(d), n)
           /\ \A k \in 1..(n - 1) : Owners'[k] = Owners[k + 1]
           /\ Owners[1] = Head(indRing).own
           /\ 1 \in Assigned(d) <=> Assigning(Head(indRing), d)
           /\ 1 \in Ended(d) <=> Ending(Head(indRing), d)
<1> DEFINE n == Len(indRing)
<1>1. /\ n \in Nat \ {0} /\ Head(indRing) = indRing[1]
      /\ DOMAIN indRing = 1..n /\ DOMAIN indRing' = 1..(n - 1)
      /\ \A k \in 1..(n - 1) : indRing'[k] = indRing[k + 1]
  BY TailIs
<1> HIDE DEF n
<1>2. /\ About(d) \in SUBSET (1..n)
      /\ Assigned(d) \in SUBSET About(d) /\ Ended(d) \in SUBSET About(d)
  BY <1>1 DEF About, Assigned, Ended, Assigning, Ending
<1>3. \A k \in 1..(n - 1) : k + 1 \in 1..n /\ k + 1 # 1 BY <1>1
<1>4. About(d)' = Shifted(About(d), n)
  BY <1>1, <1>3 DEF About, Shifted, IsAbout
<1>5. Assigned(d)' = Shifted(Assigned(d), n)
  BY <1>1, <1>3 DEF Assigned, Shifted, Assigning, IsAbout
<1>6. Ended(d)' = Shifted(Ended(d), n)
  <2>1. Ended(d)' = {k \in 1..(n - 1) : /\ IsAbout(indRing'[k], d)
                                        /\ IsAnswer(indRing'[k])
                                        /\ indRing'[k].own \in rmPending'}
    BY <1>1 DEF Ended, Ending, IsAbout, IsAnswer
  <2>2. ASSUME NEW k \in 1..(n - 1)
        PROVE  (/\ IsAbout(indRing'[k], d) /\ IsAnswer(indRing'[k])
                /\ indRing'[k].own \in rmPending') <=> k + 1 \in Ended(d)
    <3>1. indRing'[k] = indRing[k + 1] /\ k + 1 \in DOMAIN indRing /\ k + 1 # 1
      BY <1>1, <1>3
    <3> QED BY <3>1 DEF Ended, Ending
  <2> QED BY <2>1, <2>2 DEF Shifted
<1>7. \A k \in 1..(n - 1) : Owners'[k] = Owners[k + 1]
  BY <1>1, <1>3 DEF Owners
<1>8. Owners[1] = Head(indRing).own BY <1>1 DEF Owners
<1>9. 1 \in Assigned(d) <=> Assigning(Head(indRing), d)
  BY <1>1 DEF Assigned
<1>10. 1 \in Ended(d) <=> Ending(Head(indRing), d) BY <1>1 DEF Ended
<1> QED BY <1>1, <1>2, <1>4, <1>5, <1>6, <1>7, <1>8, <1>9, <1>10 DEF n

LEMMA AppendSets ==
    ASSUME NEW d, indRing \in Seq(RingType), NEW m \in RingType,
           indRing' = Append(indRing, m), rmPending' = rmPending
    PROVE  LET n == Len(indRing) IN
           /\ n \in Nat
           /\ About(d) \in SUBSET (1..n)
           /\ Assigned(d) \in SUBSET About(d) /\ Ended(d) \in SUBSET About(d)
           /\ About(d)' = IF IsAbout(m, d) THEN About(d) \cup {n + 1}
                          ELSE About(d)
           /\ Assigned(d)' = IF Assigning(m, d) THEN Assigned(d) \cup {n + 1}
                             ELSE Assigned(d)
           /\ Ended(d)' = IF Ending(m, d) THEN Ended(d) \cup {n + 1}
                          ELSE Ended(d)
           /\ \A k \in 1..n : Owners'[k] = Owners[k]
           /\ Owners'[n + 1] = m.own
<1> DEFINE n == Len(indRing)
<1>1. /\ n \in Nat
      /\ DOMAIN indRing = 1..n /\ DOMAIN indRing' = 1..(n + 1)
      /\ \A k \in 1..n : indRing'[k] = indRing[k]
      /\ indRing'[n + 1] = m
  BY AppendIs
<1> HIDE DEF n
<1>2. /\ About(d) \in SUBSET (1..n)
      /\ Assigned(d) \in SUBSET About(d) /\ Ended(d) \in SUBSET About(d)
  BY <1>1 DEF About, Assigned, Ended, Assigning, Ending
<1>3. /\ 1..(n + 1) = (1..n) \cup {n + 1} /\ n + 1 \notin 1..n
      /\ n + 1 \in 1..(n + 1)
  BY <1>1
<1>4. About(d)' = IF IsAbout(m, d) THEN About(d) \cup {n + 1} ELSE About(d)
  <2>1. About(d)' = {k \in 1..(n + 1) : IsAbout(indRing'[k], d)}
    BY <1>1 DEF About, IsAbout
  <2> QED BY <2>1, <1>1, <1>3 DEF About
<1>5. Assigned(d)' = IF Assigning(m, d) THEN Assigned(d) \cup {n + 1}
                     ELSE Assigned(d)
  <2>1. Assigned(d)' = {k \in 1..(n + 1) : Assigning(indRing'[k], d)}
    BY <1>1 DEF Assigned, Assigning, IsAbout
  <2> QED BY <2>1, <1>1, <1>3 DEF Assigned
<1>6. Ended(d)' = IF Ending(m, d) THEN Ended(d) \cup {n + 1} ELSE Ended(d)
  <2>1. Ended(d)' = {k \in 1..(n + 1) : /\ IsAbout(indRing'[k], d)
                                        /\ IsAnswer(indRing'[k])
                                        /\ indRing'[k].own \in rmPending}
    BY <1>1 DEF Ended, Ending, IsAbout, IsAnswer
  <2> QED BY <2>1, <1>1, <1>3 DEF Ended, Ending
<1>7. (\A k \in 1..n : Owners'[k] = Owners[k]) /\ Owners'[n + 1] = m.own
  BY <1>1, <1>3 DEF Owners
<1> QED BY <1>1, <1>2, <1>4, <1>5, <1>6, <1>7 DEF n

LEMMA IdAtNext ==
    ASSUME NEW d
    PROVE  IdAt(d)' <=> IdOwner(d)' /\ IdView(d)'
<1>1. \A k \in About(d)' : Owners'[k] = indRing'[k].own BY DEF Owners, About
<1> QED BY <1>1 DEF IdAt, View, IdOwner, IdView

IdFrame(d) ==
    /\ IdTable'[d] = IdTable[d]
    /\ \A e \in Entity : ent'[e].Id = d <=> ent[e].Id = d

\* Nothing about the Id changes.
LEMMA IdSame ==
    ASSUME NEW d, IdAt(d), IdFrame(d), indRing' = indRing,
           cardId'[d] = cardId[d],
           \A k \in DOMAIN indRing : IsAnswer(indRing[k])
             => (indRing[k].own \in rmPending' <=> indRing[k].own \in rmPending)
    PROVE  IdAt(d)'
<1>1. About(d)' = About(d) /\ Assigned(d)' = Assigned(d) /\ Owners' = Owners
  BY DEF About, Assigned, Owners, IsAbout, Assigning
<1>2. Ended(d)' = Ended(d)
  <2>1. Ended(d)' = {k \in DOMAIN indRing : /\ IsAbout(indRing[k], d)
                                            /\ IsAnswer(indRing[k])
                                            /\ indRing[k].own \in rmPending'}
    BY DEF Ended, Ending, IsAbout, IsAnswer
  <2> QED BY <2>1 DEF Ended, Ending
<1>3. IdOwner(d) /\ IdView(d) BY IdAtIs
<1>4. IdView(d)' BY <1>1, <1>2, <1>3 DEF IdView, IdFrame
<1>5. IdOwner(d)' BY <1>3 DEF IdOwner, IdFrame
<1> QED BY <1>4, <1>5, IdAtNext

\* The head of the ring is taken.
TakesHead(d) ==
    /\ indRing \in Seq(RingType) /\ indRing # <<>> /\ indRing' = Tail(indRing)
    /\ cardId'[d] = cardId[d]
    /\ \A k \in DOMAIN indRing : k # 1 /\ IsAnswer(indRing[k])
               /\ IsAbout(indRing[k], d)
         => (indRing[k].own \in rmPending' <=> indRing[k].own \in rmPending)

LEMMA IdTail ==
    ASSUME NEW d, IdAt(d), IdFrame(d), TakesHead(d),
           ~Assigning(Head(indRing), d), ~Ending(Head(indRing), d)
    PROVE  IdAt(d)'
<1> DEFINE n == Len(indRing)
<1>0. IdOwner(d) /\ IdView(d) BY IdAtIs
<1>1. /\ n \in Nat
      /\ About(d) \in SUBSET (1..n)
      /\ Assigned(d) \in SUBSET About(d) /\ Ended(d) \in SUBSET About(d)
      /\ About(d)' = Shifted(About(d), n)
      /\ Assigned(d)' = Shifted(Assigned(d), n)
      /\ Ended(d)' = Shifted(Ended(d), n)
      /\ \A k \in 1..(n - 1) : Owners'[k] = Owners[k + 1]
      /\ 1 \notin Assigned(d) /\ 1 \notin Ended(d)
  BY TailSets DEF TakesHead
<1> HIDE DEF n
<1>2. View(Owners', Shifted(About(d), n), Shifted(Assigned(d), n),
           Shifted(Ended(d), n), IdTable[d], cardId[d])
  BY <1>0, <1>1, ViewTail DEF IdView
<1>3. IdView(d)' BY <1>1, <1>2 DEF IdView, IdFrame, TakesHead
<1>4. IdOwner(d)' BY <1>0 DEF IdOwner, IdFrame
<1> QED BY <1>3, <1>4, IdAtNext

LEMMA IdAssigned ==
    ASSUME NEW d, IdAt(d), TakesHead(d), Assigning(Head(indRing), d),
           Null \notin Entity, Head(indRing).own \in Entity,
           IdTable'[d] = Head(indRing).own,
           \A e \in Entity :
             ent'[e].Id = d <=> ent[e].Id = d \/ e = Head(indRing).own
    PROVE  IdAt(d)' /\ IdTable[d] = Null
<1> DEFINE n == Len(indRing)
<1>0. IdOwner(d) /\ IdView(d) BY IdAtIs
<1>1. /\ n \in Nat
      /\ About(d) \in SUBSET (1..n)
      /\ Assigned(d) \in SUBSET About(d) /\ Ended(d) \in SUBSET About(d)
      /\ About(d)' = Shifted(About(d), n)
      /\ Assigned(d)' = Shifted(Assigned(d), n)
      /\ Ended(d)' = Shifted(Ended(d), n)
      /\ \A k \in 1..(n - 1) : Owners'[k] = Owners[k + 1]
      /\ 1 \in Assigned(d) /\ Owners[1] = Head(indRing).own
  BY TailSets DEF TakesHead
<1> HIDE DEF n
<1>2. /\ View(Owners', Shifted(About(d), n), Shifted(Assigned(d), n),
              Shifted(Ended(d), n), cardId[d], cardId[d])
      /\ cardId[d] = Owners[1] /\ IdTable[d] = Null
  BY <1>0, <1>1, ViewAssigned DEF IdView
<1>3. IdView(d)' BY <1>1, <1>2 DEF IdView, TakesHead
<1>4. IdOwner(d)' BY <1>0, <1>2 DEF IdOwner
<1> QED BY <1>2, <1>3, <1>4, IdAtNext

LEMMA IdEnded ==
    ASSUME NEW d, IdAt(d), TakesHead(d), Ending(Head(indRing), d),
           Null \notin Entity, Head(indRing).own \in Entity,
           IdTable'[d] = Null, Head(indRing).own \notin rmPending',
           \A k \in DOMAIN indRing : k # 1 /\ IsAnswer(indRing[k])
             => indRing[k].own # Head(indRing).own,
           \A e \in Entity :
             ent'[e].Id = d <=> ent[e].Id = d /\ e # Head(indRing).own
    PROVE  IdAt(d)'
<1> DEFINE n == Len(indRing)
<1>0. IdOwner(d) /\ IdView(d) BY IdAtIs
<1>1. /\ n \in Nat
      /\ About(d) \in SUBSET (1..n)
      /\ Assigned(d) \in SUBSET About(d) /\ Ended(d) \in SUBSET About(d)
      /\ About(d)' = Shifted(About(d), n)
      /\ Assigned(d)' = Shifted(Assigned(d), n)
      /\ Ended(d)' = Shifted(Ended(d), n)
      /\ \A k \in 1..(n - 1) : Owners'[k] = Owners[k + 1]
      /\ 1 \in Ended(d) /\ Owners[1] = Head(indRing).own
  BY TailSets DEF TakesHead
<1>5. DOMAIN indRing = 1..n BY DEF TakesHead
<1> HIDE DEF n
<1>2. /\ View(Owners', Shifted(About(d), n), Shifted(Assigned(d), n),
              {}, Null, cardId[d])
      /\ IdTable[d] = Owners[1]
  <2>1. View(Owners, About(d), Assigned(d), Ended(d), IdTable[d], cardId[d])
    BY <1>0 DEF IdView
  <2>2. /\ n \in Nat /\ About(d) \in SUBSET (1..n) /\ 1 \in Ended(d)
        /\ Assigned(d) \in SUBSET About(d) /\ Ended(d) \in SUBSET About(d)
        /\ \A k \in 1..(n - 1) : Owners'[k] = Owners[k + 1]
    BY <1>1
  <2>3. PICK N, A, G, E, o, p, h, c :
          /\ N = n /\ A = About(d) /\ G = Assigned(d) /\ E = Ended(d)
          /\ o = Owners /\ p = Owners' /\ h = IdTable[d] /\ c = cardId[d]
    OBVIOUS
  <2>4. EndsFirst(N, A, G, E, o, p, h, c) BY <2>1, <2>2, <2>3 DEF EndsFirst
  <2>5. View(p, Shifted(A, N), Shifted(G, N), {}, Null, c) /\ h = o[1]
    BY <2>4, ViewEnded
  <2> QED BY <2>3, <2>5
<1>3. Shifted(Ended(d), n) = {}
  <2>1. ASSUME NEW k \in Ended(d) PROVE k = 1
    <3>1. k \in DOMAIN indRing /\ IsAnswer(indRing[k]) /\ k \in About(d)
          /\ k \in Nat
      BY <2>1, <1>1, <1>5 DEF Ended, Ending, About
    <3>2. Owners[k] = indRing[k].own BY <3>1 DEF Owners
    <3>3. SUFFICES ASSUME k # 1 PROVE FALSE OBVIOUS
    <3>4. Owners[k] # IdTable[d] BY <3>1, <3>2, <3>3, <1>1, <1>2
    <3>5. 1 < k BY <3>1, <3>3, <1>1
    <3>6. \E i \in Assigned(d) : i <= k BY <3>1, <3>5, <1>0, <1>1 DEF IdView, View
    <3>7. PICK i \in Assigned(d) : i <= k BY <3>6
    <3>8. k < i BY <1>0, <2>1 DEF IdView, View
    <3>9. i \in Nat BY <1>1
    <3> QED BY <3>1, <3>7, <3>8, <3>9
  <2> QED BY <2>1, <1>1 DEF Shifted
<1>4. IdView(d)' BY <1>1, <1>2, <1>3 DEF IdView, TakesHead
<1>6. IdOwner(d)' BY <1>0, <1>1, <1>2 DEF IdOwner
<1> QED BY <1>4, <1>6, IdAtNext

\* A message is added.
AddsLast(m) ==
    /\ indRing \in Seq(RingType) /\ m \in RingType
    /\ indRing' = Append(indRing, m) /\ rmPending' = rmPending

LEMMA IdAppend ==
    ASSUME NEW d, NEW m, IdAt(d), IdFrame(d), AddsLast(m),
           cardId'[d] = cardId[d], ~Assigning(m, d), ~Ending(m, d),
           IsAbout(m, d) => m.own = cardId[d] /\ cardId[d] # Null
    PROVE  IdAt(d)'
<1> DEFINE n == Len(indRing)
<1>0. IdOwner(d) /\ IdView(d) BY IdAtIs
<1>1. /\ n \in Nat
      /\ About(d) \in SUBSET (1..n)
      /\ Assigned(d) \in SUBSET About(d) /\ Ended(d) \in SUBSET About(d)
      /\ About(d)' = IF IsAbout(m, d) THEN About(d) \cup {n + 1} ELSE About(d)
      /\ Assigned(d)' = Assigned(d) /\ Ended(d)' = Ended(d)
      /\ \A k \in 1..n : Owners'[k] = Owners[k]
      /\ Owners'[n + 1] = m.own
  BY AppendSets DEF AddsLast
<1> HIDE DEF n
<1>2. CASE IsAbout(m, d)
  <2>1. View(Owners', About(d) \cup {n + 1}, Assigned(d), Ended(d),
             IdTable[d], cardId[d])
    BY <1>0, <1>1, <1>2, ViewAppend DEF IdView
  <2> QED BY <1>1, <1>2, <2>1, <1>0, IdAtNext DEF IdView, IdFrame, IdOwner
<1>3. CASE ~IsAbout(m, d)
  <2>1. \A k \in About(d) : Owners'[k] = Owners[k] BY <1>1
  <2>2. View(Owners', About(d), Assigned(d), Ended(d), IdTable[d], cardId[d])
    BY <1>0, <2>1 DEF IdView, View
  <2> QED BY <1>1, <1>3, <2>2, <1>0, IdAtNext DEF IdView, IdFrame, IdOwner
<1> QED BY <1>2, <1>3

LEMMA IdAssigning ==
    ASSUME NEW d, NEW m, IdAt(d), IdFrame(d), AddsLast(m),
           Assigning(m, d), ~Ending(m, d), m.own # Null, m.own # IdTable[d],
           cardId[d] = Null, cardId'[d] = m.own
    PROVE  IdAt(d)'
<1> DEFINE n == Len(indRing)
<1>0. IdOwner(d) /\ IdView(d) BY IdAtIs
<1>1. /\ n \in Nat
      /\ About(d) \in SUBSET (1..n)
      /\ Assigned(d) \in SUBSET About(d) /\ Ended(d) \in SUBSET About(d)
      /\ About(d)' = About(d) \cup {n + 1}
      /\ Assigned(d)' = Assigned(d) \cup {n + 1} /\ Ended(d)' = Ended(d)
      /\ \A k \in 1..n : Owners'[k] = Owners[k]
      /\ Owners'[n + 1] = m.own
  BY AppendSets DEF AddsLast, Assigning
<1> HIDE DEF n
<1>2. View(Owners', About(d) \cup {n + 1}, Assigned(d) \cup {n + 1}, Ended(d),
           IdTable[d], m.own)
  BY <1>0, <1>1, ViewAssigning DEF IdView
<1> QED BY <1>1, <1>2, <1>0, IdAtNext DEF IdView, IdFrame, IdOwner

LEMMA IdEnding ==
    ASSUME NEW d, NEW m, IdAt(d), IdFrame(d), AddsLast(m),
           ~Assigning(m, d), Ending(m, d),
           m.own # Null, m.own = IdTable[d], cardId[d] = m.own,
           cardId'[d] = Null
    PROVE  IdAt(d)'
<1> DEFINE n == Len(indRing)
<1>0. IdOwner(d) /\ IdView(d) BY IdAtIs
<1>1. /\ n \in Nat
      /\ About(d) \in SUBSET (1..n)
      /\ Assigned(d) \in SUBSET About(d) /\ Ended(d) \in SUBSET About(d)
      /\ About(d)' = About(d) \cup {n + 1}
      /\ Assigned(d)' = Assigned(d) /\ Ended(d)' = Ended(d) \cup {n + 1}
      /\ \A k \in 1..n : Owners'[k] = Owners[k]
      /\ Owners'[n + 1] = m.own
  BY AppendSets DEF AddsLast, Ending
<1> HIDE DEF n
<1>2. View(Owners', About(d) \cup {n + 1}, Assigned(d), Ended(d) \cup {n + 1},
           IdTable[d], Null)
  BY <1>0, <1>1, ViewEnding DEF IdView
<1> QED BY <1>1, <1>2, <1>0, IdAtNext DEF IdView, IdFrame, IdOwner

-----------------------------------------------------------------------------
(* The requests in a step *)

LEMMA Numbers ==
    /\ Null \notin Entity /\ 0 \notin Ids /\ DSIG \subseteq Entity
    /\ NoFrag \notin Frag /\ RingPage \notin Frag /\ RingPage # NoFrag
    /\ Frag \subseteq Nat
<1>1. Null \notin Entity /\ 0 \notin Ids /\ DSIG \subseteq Entity
  BY VidiAssumption
<1>2. Frag \subseteq 1..(NoFrag - 1) BY VidiAssumption
<1>3. NoFrag \in Nat /\ NoFrag > 0 BY DEF NoFrag
<1>4. NoFrag \notin Frag /\ RingPage \notin Frag /\ Frag \subseteq Nat
  BY <1>2, <1>3 DEF RingPage
<1>5. RingPage # NoFrag BY DEF RingPage, NoFrag
<1> QED BY <1>1, <1>4, <1>5

placeVars == <<wait, ent, assign, rmPending, fragFree, queue, reqRing, jobs,
               indRing, cardId, held>>

LEMMA PlacedSame ==
    ASSUME NEW st \in [Entity -> Stage], Placed(st), UNCHANGED placeVars
    PROVE  Placed(st)'
BY DEF Placed, Stages, Single, Channels, Fragments, EntityAt, RequestAt,
       AnswerAt, placeVars

\* A message that answers nothing is taken from the ring.
LEMMA PlacedTail ==
    ASSUME NEW st \in [Entity -> Stage], Placed(st),
           indRing \in Seq(RingType), indRing # <<>>, indRing' = Tail(indRing),
           UNCHANGED <<wait, ent, assign, rmPending, fragFree, queue, reqRing,
                       jobs, cardId, held>>
    PROVE  Placed(st)'
<1>1. /\ DOMAIN indRing = 1..Len(indRing) /\ Len(indRing) \in Nat
      /\ DOMAIN indRing' = 1..(Len(indRing) - 1)
      /\ \A k \in 1..(Len(indRing) - 1) : indRing'[k] = indRing[k + 1]
  BY TailIs
<1>2. \A k \in DOMAIN indRing' : k + 1 \in DOMAIN indRing
                                 /\ indRing'[k] = indRing[k + 1] /\ k \in Nat
  BY <1>1
<1>3. Stages(st)'
  BY <1>2 DEF Placed, Stages, EntityAt, RequestAt, AnswerAt
<1>4. Single'
  <2>1. ASSUME NEW j \in DOMAIN indRing', NEW k \in DOMAIN indRing',
               IsAnswer(indRing'[j]), IsAnswer(indRing'[k]),
               indRing'[j].own = indRing'[k].own
        PROVE  j = k
    <3>1. j + 1 = k + 1 BY <1>2, <2>1 DEF Placed, Single
    <3> QED BY <3>1, <1>2
  <2> QED BY <2>1 DEF Placed, Single, IsAnswer
<1>5. Channels' BY <1>2 DEF Placed, Channels
<1>6. Fragments' BY DEF Placed, Fragments
<1> QED BY <1>3, <1>4, <1>5, <1>6 DEF Placed

\* The return code of e's request is taken: the request is over.
LEMMA PlacedAnswered ==
    ASSUME NEW st \in [Entity -> Stage], Placed(st), Types,
           indRing # <<>>, indRing' = Tail(indRing),
           NEW e \in Entity, IsAnswer(Head(indRing)), Head(indRing).own = e,
           NEW x, x.XBUSY = FALSE, x.XOffset = NoFrag,
           ent' = [ent EXCEPT ![e] = x],
           wait' = [wait EXCEPT ![e] = FALSE],
           assign' = assign \ {e}, rmPending' = rmPending \ {e},
           fragFree' = Freed(ent[e], Head(indRing).ext),
           UNCHANGED <<queue, reqRing, jobs, cardId, held>>
    PROVE  /\ Placed([st EXCEPT ![e] = "idle"])'
           /\ [st EXCEPT ![e] = "idle"] \in [Entity -> Stage]
           /\ st[e] = "answer"
           /\ \A k \in DOMAIN indRing : k # 1 /\ IsAnswer(indRing[k])
                => indRing[k].own # e
<1> DEFINE t == [st EXCEPT ![e] = "idle"]
<1>1. /\ DOMAIN indRing = 1..Len(indRing) /\ Len(indRing) \in Nat \ {0}
      /\ DOMAIN indRing' = 1..(Len(indRing) - 1) /\ Head(indRing) = indRing[1]
      /\ \A k \in 1..(Len(indRing) - 1) : indRing'[k] = indRing[k + 1]
      /\ \A k \in DOMAIN indRing : indRing[k] \in RingType
  BY TailIs DEF Types
<1>2. \A k \in DOMAIN indRing' : k + 1 \in DOMAIN indRing /\ k + 1 # 1
                                 /\ indRing'[k] = indRing[k + 1] /\ k \in Nat
  BY <1>1
<1>3. st[e] = "answer" BY <1>1 DEF Placed, Stages, AnswerAt
<1>4. \A k \in DOMAIN indRing : k # 1 /\ IsAnswer(indRing[k])
                => indRing[k].own # e
  BY <1>1 DEF Placed, Single
<1>5. t \in [Entity -> Stage] /\ t[e] = "idle"
      /\ \A c \in Entity : c # e => t[c] = st[c]
  BY DEF Stage
<1>6. /\ ent'[e] = x /\ ~wait'[e] /\ e \notin assign' /\ e \notin rmPending'
      /\ \A c \in Entity : c # e =>
           /\ ent'[c] = ent[c] /\ wait'[c] = wait[c]
           /\ c \in assign' <=> c \in assign
           /\ c \in rmPending' <=> c \in rmPending
  BY DEF Types, TypeOK
<1>7. \A k \in DOMAIN indRing : IsAnswer(indRing[k]) => indRing[k].own \in Entity
  BY <1>1, RingKinds DEF IsAnswer, RcType
<1>8. (\A k \in DOMAIN reqRing : IsReq(reqRing[k]) => reqRing[k].own \in Entity)
      /\ (\A m \in jobs : IsReq(m) => m.own \in Entity)
  <2>1. \A k \in DOMAIN reqRing : reqRing[k] \in ReqType
    BY ElementOfSeq DEF Types
  <2>2. \A m \in jobs : m \in ReqType BY DEF Types, ReqType
  <2>3. \A m \in ReqType : IsReq(m) => m.own \in Entity
    BY ReqKinds DEF IsReq, Host
  <2> QED BY <2>1, <2>2, <2>3
<1>9. \A k \in DOMAIN queue : queue[k] \in Entity
  BY ElementOfSeq, SMTT(30) DEF Types, TypeOK
<1> HIDE DEF t
<1>10. ASSUME NEW c \in Entity PROVE EntityAt(c, t[c])'
  <2>1. EntityAt(c, st[c]) BY DEF Placed, Stages
  <2>2. CASE c = e BY <2>2, <1>5, <1>6, Numbers DEF EntityAt
  <2>3. CASE c # e BY <2>1, <2>3, <1>5, <1>6 DEF EntityAt
  <2> QED BY <2>2, <2>3
<1>11. \A k \in DOMAIN queue' : t[queue'[k]] = "queue"
  <2>1. \A k \in DOMAIN queue : st[queue[k]] = "queue" BY DEF Placed, Stages
  <2> QED BY <2>1, <1>3, <1>5, <1>9
<1>12. ASSUME NEW m, m.own \in Entity, NEW s, s # "answer",
              RequestAt(m, st[m.own] = s)
       PROVE  RequestAt(m, t[m.own] = s)'
  BY <1>12, <1>3, <1>5, <1>6 DEF RequestAt
<1>13. ASSUME NEW m, m.own \in Entity, m.own # e,
              AnswerAt(m, st[m.own] = "answer")
       PROVE  AnswerAt(m, t[m.own] = "answer")'
  BY <1>13, <1>5, <1>6 DEF AnswerAt
<1>14. Stages(t)'
  <2>1. \A k \in DOMAIN reqRing' : IsReq(reqRing'[k])
          => RequestAt(reqRing[k], t[reqRing[k].own] = "ring")'
    BY <1>8, <1>12 DEF Placed, Stages
  <2>2. \A m \in jobs' : IsReq(m) => RequestAt(m, t[m.own] = "card")'
    BY <1>8, <1>12 DEF Placed, Stages
  <2>3. ASSUME NEW k \in DOMAIN indRing', IsAnswer(indRing'[k])
        PROVE  AnswerAt(indRing[k], t[indRing[k].own] = "answer")'
    <3> DEFINE m == indRing[k + 1]
    <3>1. k + 1 \in DOMAIN indRing /\ k + 1 # 1 /\ IsAnswer(m)
      BY <1>2, <2>3
    <3>2. m.own # e /\ m.own \in Entity BY <3>1, <1>4, <1>7
    <3>3. AnswerAt(m, st[m.own] = "answer") BY <3>1 DEF Placed, Stages
    <3> QED BY <3>2, <3>3, <1>5, <1>6, <1>2 DEF AnswerAt
  <2> QED BY <1>10, <1>11, <2>1, <2>2, <2>3, <1>2
      DEF Stages, RequestAt, AnswerAt, IsReq, IsAnswer
<1>15. Single'
  <2>1. ASSUME NEW j \in DOMAIN indRing', NEW k \in DOMAIN indRing',
               IsAnswer(indRing'[j]), IsAnswer(indRing'[k]),
               indRing'[j].own = indRing'[k].own
        PROVE  j = k
    <3>1. j + 1 = k + 1 BY <1>2, <2>1 DEF Placed, Single
    <3> QED BY <3>1, <1>2
  <2> QED BY <2>1 DEF Placed, Single, IsAnswer, IsReq
<1>16. Channels' BY <1>2 DEF Placed, Channels
<1>17. Fragments'
  <2>1. Head(indRing).ext # "OK_FC" BY DEF IsAnswer
  <2>2. fragFree' = IF ent[e].XOffset # NoFrag THEN fragFree \cup {ent[e].XOffset}
                    ELSE fragFree
    BY <2>1 DEF Freed, Frees
  <2> DEFINE o == [c \in Entity |-> ent[c].XOffset]
  <2>3. \A c \in Entity : ent'[c].XOffset = IF c = e THEN NoFrag ELSE o[c]
    BY <1>6
  <2>4. \A f \in Frag : f \notin fragFree <=> \E c \in Entity : o[c] = f
    BY DEF Placed, Fragments
  <2>5. \A a, c \in Entity : o[a] = o[c] /\ o[a] \in Frag => a = c
    BY DEF Placed, Fragments
  <2>6. fragFree' = IF o[e] # NoFrag THEN fragFree \cup {o[e]} ELSE fragFree
    BY <2>2
  <2> HIDE DEF o
  <2>7. \A f \in Frag : f \notin fragFree' <=>
                        \E c \in Entity : ent'[c].XOffset = f
    BY <2>3, <2>4, <2>5, <2>6, Numbers
  <2>8. \A a, c \in Entity : ent'[a].XOffset = ent'[c].XOffset
          /\ ent'[a].XOffset \in Frag => a = c
    BY <2>3, <2>5, Numbers
  <2> QED BY <2>7, <2>8 DEF Fragments
<1> QED BY <1>3, <1>4, <1>5, <1>14, <1>15, <1>16, <1>17 DEF Placed, t

\* Whose a message or an entry of the queue is
LEMMA OwnersAre ==
    ASSUME Types
    PROVE  /\ \A k \in DOMAIN reqRing : reqRing[k] \in ReqType
                 /\ (IsReq(reqRing[k]) => reqRing[k].own \in Entity)
           /\ \A m \in jobs : m \in ReqType /\ (IsReq(m) => m.own \in Entity)
           /\ \A k \in DOMAIN indRing : indRing[k] \in RingType
                 /\ (IsAnswer(indRing[k]) => indRing[k].own \in Entity)
           /\ \A k \in DOMAIN queue : queue[k] \in Entity
<1>1. \A k \in DOMAIN reqRing : reqRing[k] \in ReqType
  BY ElementOfSeq DEF Types
<1>2. \A m \in jobs : m \in ReqType BY DEF Types, ReqType
<1>3. \A m \in ReqType : IsReq(m) => m.own \in Entity
  BY ReqKinds DEF IsReq, Host
<1>4. \A k \in DOMAIN indRing : indRing[k] \in RingType
  BY ElementOfSeq DEF Types
<1>5. \A m \in RingType : IsAnswer(m) => m.own \in Entity
  BY RingKinds DEF IsAnswer, RcType
<1>6. \A k \in DOMAIN queue : queue[k] \in Entity
  BY ElementOfSeq DEF Types, TypeOK
<1> QED BY <1>1, <1>2, <1>3, <1>4, <1>5, <1>6

ChannelMessage(m) ==
    m.k = "rc" /\ m.ext = "OK_FC" =>
      m.rc = "OK" /\ m.Id # 0 /\ m.own \notin DSIG

\* The card posts a message that answers nothing.
LEMMA PlacedPosted ==
    ASSUME NEW st \in [Entity -> Stage], Placed(st), Types,
           NEW m \in RingType, indRing' = Append(indRing, m), ~IsAnswer(m),
           ChannelMessage(m), \A d \in held' : cardId'[d] \in Entity \ DSIG,
           jobs' \subseteq jobs,
           UNCHANGED <<wait, ent, assign, rmPending, fragFree, queue, reqRing>>
    PROVE  Placed(st)'
<1>1. /\ DOMAIN indRing = 1..Len(indRing) /\ Len(indRing) \in Nat
      /\ DOMAIN indRing' = 1..(Len(indRing) + 1)
      /\ indRing'[Len(indRing) + 1] = m
      /\ \A k \in 1..Len(indRing) : indRing'[k] = indRing[k]
  BY AppendIs DEF Types
<1>2. \A k \in DOMAIN indRing' :
         \/ k \in DOMAIN indRing /\ indRing'[k] = indRing[k]
         \/ k = Len(indRing) + 1 /\ indRing'[k] = m
  BY <1>1
<1>3. Stages(st)'
  <2>1. \A e \in Entity : EntityAt(e, st[e])'
    BY DEF Placed, Stages, EntityAt
  <2>2. \A k \in DOMAIN indRing' : IsAnswer(indRing'[k])
          => AnswerAt(indRing[k], st[indRing[k].own] = "answer")'
    BY <1>2 DEF Placed, Stages, AnswerAt
  <2>3. \A k \in DOMAIN reqRing' : IsReq(reqRing'[k])
          => RequestAt(reqRing[k], st[reqRing[k].own] = "ring")'
    BY DEF Placed, Stages, RequestAt
  <2>4. \A x \in jobs' : IsReq(x) => RequestAt(x, st[x.own] = "card")'
    BY DEF Placed, Stages, RequestAt
  <2>5. \A k \in DOMAIN queue' : st[queue'[k]] = "queue"
    BY DEF Placed, Stages
  <2> QED BY <2>1, <2>2, <2>3, <2>4, <2>5
      DEF Stages, RequestAt, AnswerAt, IsReq, IsAnswer
<1>4. Single' BY <1>2 DEF Placed, Single, IsAnswer, IsReq
<1>5. Channels'
  <2>1. \A k \in DOMAIN indRing' : ChannelMessage(indRing'[k])
    BY <1>2 DEF Placed, Channels, ChannelMessage
  <2> QED BY <2>1 DEF Channels, ChannelMessage
<1>6. Fragments' BY DEF Placed, Fragments
<1> QED BY <1>3, <1>4, <1>5, <1>6 DEF Placed

\* The card answers a request.
LEMMA PlacedDone ==
    ASSUME NEW st \in [Entity -> Stage], Placed(st), Types,
           NEW j \in jobs, IsReq(j), jobs' = jobs \ {j},
           NEW m \in RingType, indRing' = Append(indRing, m), IsAnswer(m),
           m.own = j.own, AnswerAt(m, TRUE),
           \A d \in held' : cardId'[d] \in Entity \ DSIG,
           UNCHANGED <<wait, ent, assign, rmPending, fragFree, queue, reqRing>>
    PROVE  /\ Placed([st EXCEPT ![j.own] = "answer"])'
           /\ [st EXCEPT ![j.own] = "answer"] \in [Entity -> Stage]
<1> DEFINE e == j.own
           t == [st EXCEPT ![e] = "answer"]
<1>1. /\ DOMAIN indRing = 1..Len(indRing) /\ Len(indRing) \in Nat
      /\ DOMAIN indRing' = 1..(Len(indRing) + 1)
      /\ indRing'[Len(indRing) + 1] = m
      /\ \A k \in 1..Len(indRing) : indRing'[k] = indRing[k]
  BY AppendIs DEF Types
<1>2. \A k \in DOMAIN indRing' :
         \/ k \in DOMAIN indRing /\ indRing'[k] = indRing[k]
         \/ k = Len(indRing) + 1 /\ indRing'[k] = m
  BY <1>1
<1>3. e \in Entity BY OwnersAre
<1>4. st[e] = "card" BY DEF Placed, Stages, RequestAt
<1>5. t \in [Entity -> Stage] /\ t[e] = "answer"
      /\ \A c \in Entity : c # e => t[c] = st[c]
  BY <1>3 DEF Stage
<1>6. ASSUME NEW k \in DOMAIN indRing, IsAnswer(indRing[k])
      PROVE  indRing[k].own # e
  BY <1>4, <1>6 DEF Placed, Stages, AnswerAt
<1>7. \A x \in jobs' : IsReq(x) => x.own # e BY DEF Placed, Single
<1> HIDE DEF t, e
<1>8. ASSUME NEW c \in Entity PROVE EntityAt(c, t[c])'
  <2>1. EntityAt(c, st[c]) BY DEF Placed, Stages
  <2>2. CASE c = e BY <2>1, <2>2, <1>4, <1>5 DEF EntityAt
  <2>3. CASE c # e BY <2>1, <2>3, <1>5 DEF EntityAt
  <2> QED BY <2>2, <2>3
<1>9. Stages(t)'
  <2>1. \A k \in DOMAIN queue' : t[queue'[k]] = "queue"
    <3>1. \A k \in DOMAIN queue : queue[k] \in Entity BY OwnersAre
    <3>2. \A k \in DOMAIN queue : st[queue[k]] = "queue" BY DEF Placed, Stages
    <3> QED BY <3>1, <3>2, <1>4, <1>5
  <2>2. ASSUME NEW k \in DOMAIN reqRing', IsReq(reqRing'[k])
        PROVE  RequestAt(reqRing[k], t[reqRing[k].own] = "ring")'
    <3>1. RequestAt(reqRing[k], st[reqRing[k].own] = "ring")
          /\ reqRing[k].own \in Entity
      BY <2>2, OwnersAre DEF Placed, Stages
    <3> QED BY <3>1, <1>4, <1>5 DEF RequestAt
  <2>3. ASSUME NEW x \in jobs', IsReq(x)
        PROVE  RequestAt(x, t[x.own] = "card")'
    <3>1. RequestAt(x, st[x.own] = "card") /\ x.own \in Entity /\ x.own # e
      BY <2>3, <1>7, OwnersAre DEF Placed, Stages
    <3> QED BY <3>1, <1>5 DEF RequestAt
  <2>4. ASSUME NEW k \in DOMAIN indRing', IsAnswer(indRing'[k])
        PROVE  AnswerAt(indRing[k], t[indRing[k].own] = "answer")'
    <3>1. CASE k \in DOMAIN indRing /\ indRing'[k] = indRing[k]
      <4>1. AnswerAt(indRing[k], st[indRing[k].own] = "answer")
            /\ indRing[k].own \in Entity /\ indRing[k].own # e
        BY <2>4, <3>1, <1>6, OwnersAre DEF Placed, Stages
      <4> QED BY <4>1, <3>1, <1>5 DEF AnswerAt
    <3>2. CASE indRing'[k] = m
      <4>1. m.own = e BY DEF e
      <4> QED BY <4>1, <3>2, <1>5 DEF AnswerAt
    <3> QED BY <3>1, <3>2, <1>2
  <2> QED BY <1>8, <2>1, <2>2, <2>3, <2>4
      DEF Stages, RequestAt, AnswerAt, IsReq, IsAnswer
<1>10. Single'
  <2>1. m.own = e BY DEF e
  <2>2. \A a, k \in DOMAIN indRing' :
          IsAnswer(indRing'[a]) /\ IsAnswer(indRing'[k])
          /\ indRing'[a].own = indRing'[k].own => a = k
    BY <1>2, <1>6, <2>1 DEF Placed, Single
  <2> QED BY <2>2 DEF Placed, Single, IsAnswer, IsReq
<1>11. Channels'
  <2>1. \A k \in DOMAIN indRing' : ChannelMessage(indRing'[k])
    BY <1>2 DEF Placed, Channels, ChannelMessage, IsAnswer
  <2> QED BY <2>1 DEF Channels, ChannelMessage
<1>12. Fragments' BY DEF Placed, Fragments
<1> QED BY <1>5, <1>9, <1>10, <1>11, <1>12 DEF Placed, t, e

\* The card takes a message of the host; a request becomes a job.
LEMMA PlacedTaken ==
    ASSUME NEW st \in [Entity -> Stage], Placed(st), Types,
           reqRing # <<>>, reqRing' = Tail(reqRing),
           jobs' = IF IsReq(Head(reqRing)) \/ Head(reqRing).k = "stop"
                   THEN jobs \cup {Head(reqRing)} ELSE jobs,
           UNCHANGED <<wait, ent, assign, rmPending, fragFree, queue, indRing,
                       cardId, held>>
    PROVE  \E t \in [Entity -> Stage] : Placed(t)'
<1>a. PICK m : m = Head(reqRing) OBVIOUS
<1>b. PICK e : e = m.own OBVIOUS
<1>c. PICK t : t = IF IsReq(m) THEN [st EXCEPT ![e] = "card"] ELSE st OBVIOUS
<1>1. /\ DOMAIN reqRing = 1..Len(reqRing) /\ Len(reqRing) \in Nat \ {0}
      /\ DOMAIN reqRing' = 1..(Len(reqRing) - 1) /\ m = reqRing[1]
      /\ \A k \in 1..(Len(reqRing) - 1) : reqRing'[k] = reqRing[k + 1]
  BY <1>a, TailIs DEF Types
<1>2. \A k \in DOMAIN reqRing' : k + 1 \in DOMAIN reqRing /\ k + 1 # 1
                                 /\ reqRing'[k] = reqRing[k + 1] /\ k \in Nat
  BY <1>1
<1>3. IsReq(m) => st[e] = "ring" /\ e \in Entity
      /\ RequestAt(m, TRUE)
  BY <1>1, <1>b, OwnersAre DEF Placed, Stages, RequestAt
<1>4. /\ t \in [Entity -> Stage] /\ (IsReq(m) => t[e] = "card")
      /\ \A c \in Entity : (~IsReq(m) \/ c # e) => t[c] = st[c]
  BY <1>3, <1>c DEF Stage
<1>5. \A k \in DOMAIN reqRing : k # 1 /\ IsReq(reqRing[k])
        => ~IsReq(m) \/ reqRing[k].own # e
  BY <1>1, <1>b DEF Placed, Single
<1>6. \A x \in jobs' : x \in jobs \/ (x = m /\ IsReq(m))
                       \/ (x.k = "stop" /\ ~IsReq(x))
  BY <1>a DEF IsReq, Code
<1>7. \A x \in jobs : IsReq(x) => st[x.own] = "card" /\ x.own \in Entity
  BY OwnersAre DEF Placed, Stages, RequestAt
<1>8. ASSUME NEW c \in Entity PROVE EntityAt(c, t[c])'
  <2>1. EntityAt(c, st[c]) BY DEF Placed, Stages
  <2>2. CASE IsReq(m) /\ c = e BY <2>1, <2>2, <1>3, <1>4 DEF EntityAt
  <2>3. CASE ~IsReq(m) \/ c # e BY <2>1, <2>3, <1>4 DEF EntityAt
  <2> QED BY <2>2, <2>3
<1>9. Stages(t)'
  <2>1. \A k \in DOMAIN queue' : t[queue'[k]] = "queue"
    <3>1. \A k \in DOMAIN queue : queue[k] \in Entity BY OwnersAre
    <3>2. \A k \in DOMAIN queue : st[queue[k]] = "queue" BY DEF Placed, Stages
    <3> QED BY <3>1, <3>2, <1>3, <1>4
  <2>2. ASSUME NEW k \in DOMAIN reqRing', IsReq(reqRing'[k])
        PROVE  RequestAt(reqRing[k], t[reqRing[k].own] = "ring")'
    <3> DEFINE x == reqRing[k + 1]
    <3>1. k + 1 \in DOMAIN reqRing /\ k + 1 # 1 /\ reqRing'[k] = x /\ IsReq(x)
      BY <2>2, <1>2
    <3>2. RequestAt(x, st[x.own] = "ring") /\ x.own \in Entity
          /\ (~IsReq(m) \/ x.own # e)
      BY <3>1, <1>5, OwnersAre DEF Placed, Stages
    <3> QED BY <3>1, <3>2, <1>4 DEF RequestAt
  <2>3. ASSUME NEW x \in jobs', IsReq(x)
        PROVE  RequestAt(x, t[x.own] = "card")'
    <3>1. CASE x \in jobs
      <4>1. RequestAt(x, st[x.own] = "card") /\ x.own \in Entity
        BY <2>3, <3>1, OwnersAre DEF Placed, Stages
      <4>2. t[x.own] = "card" BY <4>1, <1>4, <1>7, <2>3, <3>1
      <4> QED BY <4>1, <4>2 DEF RequestAt
    <3>2. CASE x = m
      <4> QED BY <1>b, <3>2, <2>3, <1>3, <1>4 DEF RequestAt
    <3> QED BY <3>1, <3>2, <1>6, <2>3
  <2>4. ASSUME NEW k \in DOMAIN indRing', IsAnswer(indRing'[k])
        PROVE  AnswerAt(indRing[k], t[indRing[k].own] = "answer")'
    <3>1. AnswerAt(indRing[k], st[indRing[k].own] = "answer")
          /\ indRing[k].own \in Entity
      BY <2>4, OwnersAre DEF Placed, Stages
    <3>2. t[indRing[k].own] = "answer" BY <3>1, <1>3, <1>4 DEF AnswerAt
    <3> QED BY <3>1, <3>2 DEF AnswerAt
  <2> QED BY <1>8, <2>1, <2>2, <2>3, <2>4
      DEF Stages, RequestAt, AnswerAt, IsReq, IsAnswer
<1>10. Single'
  <2>1. ASSUME NEW j \in DOMAIN reqRing', NEW k \in DOMAIN reqRing',
               IsReq(reqRing'[j]), IsReq(reqRing'[k]),
               reqRing'[j].own = reqRing'[k].own
        PROVE  j = k
    <3>1. j + 1 = k + 1 BY <1>2, <2>1 DEF Placed, Single
    <3> QED BY <3>1, <1>2
  <2>2. ASSUME NEW x \in jobs', NEW y \in jobs', IsReq(x), IsReq(y),
               x.own = y.own
        PROVE  x = y
    <3>1. \A z \in jobs : IsReq(z) => ~IsReq(m) \/ z.own # e BY <1>3, <1>7
    <3> QED BY <2>2, <3>1, <1>b, <1>6 DEF Placed, Single
  <2> QED BY <2>1, <2>2 DEF Placed, Single, IsAnswer, IsReq
<1>11. Channels' BY DEF Placed, Channels
<1>12. Fragments' BY DEF Placed, Fragments
<1> QED BY <1>4, <1>9, <1>10, <1>11, <1>12 DEF Placed

\* The host sends messages that are no requests.
LEMMA PlacedSystem ==
    ASSUME NEW st \in [Entity -> Stage], Placed(st), Types,
           NEW s \in Seq(ReqType), \A k \in DOMAIN s : ~IsReq(s[k]),
           reqRing' = reqRing \o s,
           UNCHANGED <<wait, ent, assign, rmPending, fragFree, queue, jobs,
                       indRing, cardId, held>>
    PROVE  Placed(st)'
<1>1. \A k \in DOMAIN reqRing' : IsReq(reqRing'[k])
        => k \in DOMAIN reqRing /\ reqRing'[k] = reqRing[k]
  <2>1. /\ Len(reqRing) \in Nat /\ Len(s) \in Nat
        /\ DOMAIN reqRing = 1..Len(reqRing) /\ DOMAIN s = 1..Len(s)
        /\ DOMAIN reqRing' = 1..(Len(reqRing) + Len(s))
        /\ \A k \in 1..Len(reqRing) : reqRing'[k] = reqRing[k]
        /\ \A k \in 1..Len(s) : reqRing'[Len(reqRing) + k] = s[k]
    <3>1. reqRing \in Seq(ReqType) BY DEF Types
    <3> QED BY <3>1, ConcatProperties
  <2>2. ASSUME NEW k \in DOMAIN reqRing', k \notin DOMAIN reqRing
        PROVE  ~IsReq(reqRing'[k])
    <3>1. k - Len(reqRing) \in 1..Len(s) BY <2>1, <2>2
    <3>2. k = Len(reqRing) + (k - Len(reqRing)) BY <2>1, <2>2
    <3>3. reqRing'[k] = s[k - Len(reqRing)] BY <3>1, <3>2, <2>1
    <3> QED BY <3>1, <3>3, <2>1
  <2> QED BY <2>1, <2>2
<1>2. Stages(st)'
  BY <1>1 DEF Placed, Stages, EntityAt, RequestAt, AnswerAt, IsReq
<1>3. Single' BY <1>1 DEF Placed, Single, IsReq
<1>4. Channels' /\ Fragments' BY DEF Placed, Channels, Fragments
<1> QED BY <1>2, <1>3, <1>4 DEF Placed

\* A client makes a request: it had none.
LEMMA PlacedQueued ==
    ASSUME NEW st \in [Entity -> Stage], Placed(st), Types,
           NEW e \in Entity, ~wait[e], NEW r \in Code \ {"none"},
           r = "ASSIGN" <=> ent[e].Id = 0,
           wait' = [wait EXCEPT ![e] = TRUE],
           ent' = [ent EXCEPT ![e] = Queued(@, r)],
           queue' = Append(queue, e),
           UNCHANGED <<assign, rmPending, fragFree, reqRing, jobs, indRing,
                       cardId, held>>
    PROVE  \E t \in [Entity -> Stage] : Placed(t)'
<1> DEFINE t == [st EXCEPT ![e] = "queue"]
<1>1. st[e] = "idle" BY DEF Placed, Stages, EntityAt
<1>2. t \in [Entity -> Stage] /\ t[e] = "queue"
      /\ \A c \in Entity : c # e => t[c] = st[c]
  BY DEF Stage
<1>3. /\ wait'[e] /\ ent'[e].Req = r /\ ent'[e].XOffset = RingPage
      /\ ent'[e].Id = ent[e].Id
      /\ \A c \in Entity : c # e => ent'[c] = ent[c] /\ wait'[c] = wait[c]
  <2>1. ent \in [Entity -> [Id : Ids \cup {0}, Req : Code, XBUSY : BOOLEAN,
                            XOffset : Frag \cup {RingPage, NoFrag}]]
        /\ wait \in [Entity -> BOOLEAN]
    BY DEF Types, TypeOK
  <2>2. ent'[e] = Queued(ent[e], r) BY <2>1
  <2> QED BY <2>1, <2>2 DEF Queued
<1>4. /\ Len(queue) \in Nat /\ DOMAIN queue = 1..Len(queue)
      /\ DOMAIN queue' = 1..(Len(queue) + 1)
      /\ queue'[Len(queue) + 1] = e
      /\ \A k \in 1..Len(queue) : queue'[k] = queue[k]
  BY AppendIs DEF Types, TypeOK
<1>5. \A k \in DOMAIN queue' :
         \/ k \in DOMAIN queue /\ queue'[k] = queue[k]
         \/ k = Len(queue) + 1 /\ queue'[k] = e
  BY <1>4
<1>6. \A k \in DOMAIN queue : queue[k] \in Entity /\ st[queue[k]] = "queue"
                              /\ queue[k] # e
  BY <1>1, OwnersAre DEF Placed, Stages
<1> HIDE DEF t
<1>7. ASSUME NEW c \in Entity PROVE EntityAt(c, t[c])'
  <2>1. EntityAt(c, st[c]) BY DEF Placed, Stages
  <2>2. CASE c = e BY <2>1, <2>2, <1>1, <1>2, <1>3 DEF EntityAt
  <2>3. CASE c # e BY <2>1, <2>3, <1>2, <1>3 DEF EntityAt
  <2> QED BY <2>2, <2>3
<1>8. Stages(t)'
  <2>1. \A k \in DOMAIN queue' : t[queue'[k]] = "queue"
    BY <1>2, <1>5, <1>6
  <2>2. ASSUME NEW k \in DOMAIN reqRing', IsReq(reqRing'[k])
        PROVE  RequestAt(reqRing[k], t[reqRing[k].own] = "ring")'
    <3>1. RequestAt(reqRing[k], st[reqRing[k].own] = "ring")
          /\ reqRing[k].own \in Entity
      BY <2>2, OwnersAre DEF Placed, Stages
    <3>2. reqRing[k].own # e BY <3>1, <1>1 DEF RequestAt
    <3> QED BY <3>1, <3>2, <1>2, <1>3 DEF RequestAt
  <2>3. ASSUME NEW x \in jobs', IsReq(x)
        PROVE  RequestAt(x, t[x.own] = "card")'
    <3>1. RequestAt(x, st[x.own] = "card") /\ x.own \in Entity
      BY <2>3, OwnersAre DEF Placed, Stages
    <3>2. x.own # e BY <3>1, <1>1 DEF RequestAt
    <3> QED BY <3>1, <3>2, <1>2, <1>3 DEF RequestAt
  <2>4. ASSUME NEW k \in DOMAIN indRing', IsAnswer(indRing'[k])
        PROVE  AnswerAt(indRing[k], t[indRing[k].own] = "answer")'
    <3>1. AnswerAt(indRing[k], st[indRing[k].own] = "answer")
          /\ indRing[k].own \in Entity
      BY <2>4, OwnersAre DEF Placed, Stages
    <3>2. indRing[k].own # e BY <3>1, <1>1 DEF AnswerAt
    <3> QED BY <3>1, <3>2, <1>2, <1>3 DEF AnswerAt
  <2> QED BY <1>7, <2>1, <2>2, <2>3, <2>4
      DEF Stages, RequestAt, AnswerAt, IsReq, IsAnswer
<1>9. Single' BY <1>5, <1>6 DEF Placed, Single, IsReq, IsAnswer
<1>10. Channels' BY DEF Placed, Channels
<1>11. Fragments'
  <2>1. ent[e].XOffset = NoFrag BY <1>1 DEF Placed, Stages, EntityAt
  <2> DEFINE o == [c \in Entity |-> ent[c].XOffset]
  <2>3. o[e] = NoFrag /\
        \A c \in Entity : ent'[c].XOffset = IF c = e THEN RingPage ELSE o[c]
    BY <1>3, <2>1
  <2>4. \A f \in Frag : f \notin fragFree <=> \E c \in Entity : o[c] = f
    BY DEF Placed, Fragments
  <2>5. \A a, c \in Entity : o[a] = o[c] /\ o[a] \in Frag => a = c
    BY DEF Placed, Fragments
  <2> HIDE DEF o
  <2>7. \A f \in Frag : f \notin fragFree <=>
                        \E c \in Entity : ent'[c].XOffset = f
    BY <2>3, <2>4, Numbers
  <2>8. \A a, c \in Entity : ent'[a].XOffset = ent'[c].XOffset
          /\ ent'[a].XOffset \in Frag => a = c
    BY <2>3, <2>5, Numbers
  <2> QED BY <2>7, <2>8 DEF Fragments
<1> QED BY <1>2, <1>8, <1>9, <1>10, <1>11 DEF Placed

\* The request of the first entity of the queue goes to the card.
LEMMA PlacedSent ==
    ASSUME NEW st \in [Entity -> Stage], Placed(st), Types,
           queue # <<>>, NEW e \in Entity, e = Head(queue),
           queue' = Tail(queue),
           NEW f \in fragFree \cup {NoFrag}, ent[e].Req = "BIG" <=> f # NoFrag,
           fragFree' = fragFree \ {f},
           ent' = [ent EXCEPT ![e].XOffset = f],
           reqRing' = Append(reqRing, ReqMsg(ent[e].Req, ent[e].Id, e, f)),
           assign' = IF ent[e].Id = 0 THEN assign \cup {e} ELSE assign,
           rmPending' = IF ent[e].Req = "REMOVE" THEN rmPending \cup {e}
                        ELSE rmPending,
           UNCHANGED <<wait, jobs, indRing, cardId, held>>
    PROVE  /\ \E t \in [Entity -> Stage] : Placed(t)'
           /\ ReqMsg(ent[e].Req, ent[e].Id, e, f) \in Host
           /\ \A k \in DOMAIN indRing :
                IsAnswer(indRing[k]) => indRing[k].own # e
<1> DEFINE t == [st EXCEPT ![e] = "ring"]
<1>0. PICK m : m = ReqMsg(ent[e].Req, ent[e].Id, e, f) OBVIOUS
<1>1. /\ Len(queue) \in Nat \ {0} /\ DOMAIN queue = 1..Len(queue)
      /\ DOMAIN queue' = 1..(Len(queue) - 1) /\ queue[1] = e
      /\ \A k \in 1..(Len(queue) - 1) : queue'[k] = queue[k + 1]
  BY TailIs DEF Types, TypeOK
<1>2. \A k \in DOMAIN queue' : k + 1 \in DOMAIN queue /\ k + 1 # 1
                               /\ queue'[k] = queue[k + 1] /\ k \in Nat
  BY <1>1
<1>3. st[e] = "queue" BY <1>1 DEF Placed, Stages
<1>4. t \in [Entity -> Stage] /\ t[e] = "ring"
      /\ \A c \in Entity : c # e => t[c] = st[c]
  BY DEF Stage
<1>5. f \in Frag \cup {NoFrag} BY DEF Types, TypeOK
<1>6. /\ ent'[e].Req = ent[e].Req /\ ent'[e].XOffset = f
      /\ ent'[e].Id = ent[e].Id /\ ent'[e].XBUSY = ent[e].XBUSY
      /\ ent[e].Req \in Code /\ ent[e].Id \in Ids \cup {0}
      /\ \A c \in Entity : c # e => ent'[c] = ent[c]
  <2>1. ent \in [Entity -> [Id : Ids \cup {0}, Req : Code, XBUSY : BOOLEAN,
                            XOffset : Frag \cup {RingPage, NoFrag}]]
    BY DEF Types, TypeOK
  <2> QED BY <2>1
<1>7. m \in Host /\ m.own = e /\ m.k = ent[e].Req /\ m.Id = ent[e].Id
      /\ m.frag = f
  BY <1>0, <1>5, <1>6 DEF ReqMsg, Host
<1>8. /\ Len(reqRing) \in Nat /\ DOMAIN reqRing = 1..Len(reqRing)
      /\ DOMAIN reqRing' = 1..(Len(reqRing) + 1)
      /\ reqRing'[Len(reqRing) + 1] = m
      /\ \A k \in 1..Len(reqRing) : reqRing'[k] = reqRing[k]
  <2>1. m \in ReqType /\ reqRing \in Seq(ReqType) BY <1>7 DEF ReqType, Types
  <2>2. reqRing' = Append(reqRing, m) BY <1>0
  <2> QED BY <2>1, <2>2, AppendIs
<1>9. \A k \in DOMAIN reqRing' :
         \/ k \in DOMAIN reqRing /\ reqRing'[k] = reqRing[k]
         \/ k = Len(reqRing) + 1 /\ reqRing'[k] = m
  BY <1>8
<1>10. ASSUME NEW k \in DOMAIN reqRing, IsReq(reqRing[k])
       PROVE  reqRing[k].own # e
  BY <1>3, <1>10 DEF Placed, Stages, RequestAt
<1>11. ASSUME NEW k \in DOMAIN indRing, IsAnswer(indRing[k])
       PROVE  indRing[k].own # e
  BY <1>3, <1>11 DEF Placed, Stages, AnswerAt
<1>12. \A c \in Entity : c # e => (c \in assign' <=> c \in assign)
                                  /\ (c \in rmPending' <=> c \in rmPending)
  OBVIOUS
<1>13. \A k \in DOMAIN queue' : queue'[k] # e /\ queue'[k] \in Entity
  BY <1>1, <1>2, OwnersAre, SMTT(30) DEF Placed, Single
<1> HIDE DEF t
<1>14. ASSUME NEW c \in Entity PROVE EntityAt(c, t[c])'
  <2>1. EntityAt(c, st[c]) BY DEF Placed, Stages
  <2>2. CASE c = e
    <3>1. (e \in assign' <=> ent[e].Id = 0)
          /\ (e \in rmPending' <=> ent[e].Req = "REMOVE")
      BY <2>1, <2>2, <1>3 DEF EntityAt
    <3>2. f # RingPage BY <1>5, Numbers
    <3> QED BY <2>1, <2>2, <3>1, <3>2, <1>3, <1>4, <1>6 DEF EntityAt
  <2>3. CASE c # e BY <2>1, <2>3, <1>4, <1>6, <1>12 DEF EntityAt
  <2> QED BY <2>2, <2>3
<1>15. Stages(t)'
  <2>1. \A k \in DOMAIN queue' : t[queue'[k]] = "queue"
    BY <1>2, <1>4, <1>13 DEF Placed, Stages
  <2>2. ASSUME NEW k \in DOMAIN reqRing', IsReq(reqRing'[k])
        PROVE  RequestAt(reqRing[k], t[reqRing[k].own] = "ring")'
    <3>1. CASE k \in DOMAIN reqRing /\ reqRing'[k] = reqRing[k]
      <4>1. RequestAt(reqRing[k], st[reqRing[k].own] = "ring")
            /\ reqRing[k].own \in Entity /\ reqRing[k].own # e
        BY <2>2, <3>1, <1>10, OwnersAre DEF Placed, Stages
      <4> QED BY <3>1, <4>1, <1>4, <1>6 DEF RequestAt
    <3>2. CASE reqRing'[k] = m BY <3>2, <1>4, <1>6, <1>7 DEF RequestAt
    <3> QED BY <3>1, <3>2, <1>9
  <2>3. ASSUME NEW x \in jobs', IsReq(x)
        PROVE  RequestAt(x, t[x.own] = "card")'
    <3>1. RequestAt(x, st[x.own] = "card") /\ x.own \in Entity
      BY <2>3, OwnersAre DEF Placed, Stages
    <3>2. x.own # e BY <3>1, <1>3 DEF RequestAt
    <3> QED BY <3>1, <3>2, <1>4, <1>6 DEF RequestAt
  <2>4. ASSUME NEW k \in DOMAIN indRing', IsAnswer(indRing'[k])
        PROVE  AnswerAt(indRing[k], t[indRing[k].own] = "answer")'
    <3>1. AnswerAt(indRing[k], st[indRing[k].own] = "answer")
          /\ indRing[k].own \in Entity /\ indRing[k].own # e
      BY <2>4, <1>11, OwnersAre DEF Placed, Stages
    <3> QED BY <3>1, <1>4, <1>6, <1>12 DEF AnswerAt
  <2> QED BY <1>14, <2>1, <2>2, <2>3, <2>4
      DEF Stages, RequestAt, AnswerAt, IsReq, IsAnswer
<1>16. Single'
  <2>1. \A j, k \in DOMAIN queue' : queue'[j] = queue'[k] => j = k
    <3> SUFFICES ASSUME NEW j \in DOMAIN queue', NEW k \in DOMAIN queue',
                        queue'[j] = queue'[k]
                 PROVE  j = k
      OBVIOUS
    <3>1. j + 1 = k + 1 BY <1>2 DEF Placed, Single
    <3> QED BY <3>1, <1>2
  <2>2. \A j, k \in DOMAIN reqRing' : IsReq(reqRing'[j]) /\ IsReq(reqRing'[k])
          /\ reqRing'[j].own = reqRing'[k].own => j = k
    BY <1>7, <1>9, <1>10 DEF Placed, Single
  <2> QED BY <2>1, <2>2 DEF Placed, Single, IsReq, IsAnswer
<1>17. Channels' BY DEF Placed, Channels
<1>18. Fragments'
  <2>1. ent[e].XOffset = RingPage BY <1>3 DEF Placed, Stages, EntityAt
  <2> DEFINE o == [c \in Entity |-> ent[c].XOffset]
  <2>3. o[e] = RingPage /\
        \A c \in Entity : ent'[c].XOffset = IF c = e THEN f ELSE o[c]
    BY <1>6, <2>1
  <2>4. \A g \in Frag : g \notin fragFree <=> \E c \in Entity : o[c] = g
    BY DEF Placed, Fragments
  <2>5. \A a, c \in Entity : o[a] = o[c] /\ o[a] \in Frag => a = c
    BY DEF Placed, Fragments
  <2>6. f \in Frag => f \in fragFree BY Numbers
  <2> HIDE DEF o
  <2>7. \A g \in Frag : g \notin fragFree' <=>
                        \E c \in Entity : ent'[c].XOffset = g
    BY <2>3, <2>4, Numbers
  <2>8. \A a, c \in Entity : ent'[a].XOffset = ent'[c].XOffset
          /\ ent'[a].XOffset \in Frag => a = c
    <3>1. \A c \in Entity : f \in Frag => o[c] # f BY <2>4, <2>6
    <3> QED BY <2>3, <2>5, <3>1
  <2> QED BY <2>7, <2>8 DEF Fragments
<1> QED BY <1>0, <1>4, <1>7, <1>11, <1>15, <1>16, <1>17, <1>18 DEF Placed

-----------------------------------------------------------------------------
(* Every action keeps the places of the requests and the two views *)

LEMMA KnownSame ==
    ASSUME Known, UNCHANGED <<indRing, IdTable, cardId>>,
           \A e \in Entity : ent'[e].Id = ent[e].Id,
           \A k \in DOMAIN indRing : IsAnswer(indRing[k])
             => (indRing[k].own \in rmPending' <=> indRing[k].own \in rmPending)
    PROVE  Known'
<1>1. ASSUME NEW d \in Ids PROVE IdAt(d)'
  <2>1. IdAt(d) /\ IdFrame(d) BY DEF Known, IdFrame
  <2> QED BY <2>1, IdSame
<1> QED BY <1>1 DEF Known

LEMMA EntsSame ==
    ASSUME Ents, UNCHANGED <<placeVars, IdTable>>
    PROVE  Ents'
<1>1. Known' BY KnownSame DEF Ents, placeVars
<1>2. PICK st \in [Entity -> Stage] : Placed(st) BY DEF Ents
<1>3. Placed(st)' BY <1>2, PlacedSame
<1> QED BY <1>1, <1>3 DEF Ents

\* The Id of an entity
LEMMA EntTypes ==
    ASSUME Types, NEW e \in Entity
    PROVE  /\ ent[e].Id \in Ids \cup {0} /\ ent[e].Req \in Code
           /\ ent[e].XBUSY \in BOOLEAN
           /\ ent[e].XOffset \in Frag \cup {RingPage, NoFrag}
           /\ DOMAIN ent = Entity
           /\ ent[e] \in [Id : Ids \cup {0}, Req : Code, XBUSY : BOOLEAN,
                          XOffset : Frag \cup {RingPage, NoFrag}]
BY DEF Types, TypeOK

LEMMA EntsRequest ==
    ASSUME Types, Ents, NEW e \in Entity, NEW r \in Reqs \cup {"ASSIGN"},
           Request(e, r)
    PROVE  Ents'
<1>1. PICK st \in [Entity -> Stage] : Placed(st) BY DEF Ents
<1>2. ~wait[e] /\ (r = "ASSIGN" <=> ent[e].Id = 0) BY DEF Request, ClientMay
<1>3. st[e] = "idle" BY <1>1, <1>2 DEF Placed, Stages, EntityAt
<1>4. ~Busy(e) BY <1>1, <1>3, EntTypes DEF Busy, Placed, Stages, EntityAt
<1>5. /\ wait' = [wait EXCEPT ![e] = TRUE]
      /\ ent' = [ent EXCEPT ![e] = Queued(@, r)]
      /\ queue' = Append(queue, e)
      /\ UNCHANGED <<assign, rmPending, fragFree, reqRing, jobs, indRing,
                     cardId, held, IdTable>>
  BY <1>4 DEF Request, idVars, outRing, cardVars
<1>6. r \in Code \ {"none"} BY VidiAssumption DEF Code
<1>7. \E t \in [Entity -> Stage] : Placed(t)'
  BY <1>1, <1>2, <1>5, <1>6, PlacedQueued
<1>8. \A c \in Entity : ent'[c].Id = ent[c].Id
  <2>1. ent'[e] = Queued(ent[e], r) /\ \A c \in Entity : c # e => ent'[c] = ent[c]
    BY <1>5, EntTypes
  <2>2. ent'[e].Id = ent[e].Id BY <2>1, EntTypes DEF Queued
  <2> QED BY <2>1, <2>2
<1>9. Known' BY <1>5, <1>8, KnownSame DEF Ents
<1> QED BY <1>7, <1>9 DEF Ents

\* A message is dispatched from a ring that is not empty.
LEMMA Dispatched ==
    ASSUME Types, Locals, NEW k, NEW m, Dispatch(k, m)
    PROVE  /\ indRing # <<>> /\ indRing' = Tail(indRing)
           /\ m = Head(indRing) /\ m.k = k /\ m \in RingType
           /\ indRing \in Seq(RingType)
           /\ UNCHANGED <<queue, reqRing, jobs, cardId, held>>
<1>1. indRing # <<>>
  <2>1. Len(indRing) > 0 BY DEF Dispatch, Locals, Types, TypeOK
  <2> QED BY <2>1
<1>2. indRing \in Seq(RingType) BY DEF Types
<1>3. Head(indRing) \in RingType BY <1>1, <1>2, TailIs
<1> QED BY <1>1, <1>2, <1>3 DEF Dispatch, outRing, cardVars

\* A message that is neither an answer nor takes anything
LEMMA EntsTail ==
    ASSUME Types, Locals, Ents, NEW k, NEW m, Dispatch(k, m), ~IsAnswer(m),
           UNCHANGED <<wait, ent, assign, rmPending, fragFree, IdTable>>
    PROVE  Ents'
<1>1. /\ indRing # <<>> /\ indRing' = Tail(indRing)
      /\ m = Head(indRing) /\ m.k = k /\ indRing \in Seq(RingType)
      /\ UNCHANGED <<queue, reqRing, jobs, cardId, held>>
  BY Dispatched
<1>2. PICK st \in [Entity -> Stage] : Placed(st) BY DEF Ents
<1>3. Placed(st)' BY <1>1, <1>2, PlacedTail
<1>4. ASSUME NEW d \in Ids PROVE IdAt(d)'
  <2>1. IdAt(d) /\ IdFrame(d) /\ TakesHead(d)
    BY <1>1 DEF Ents, Known, IdFrame, TakesHead
  <2>2. ~Ending(Head(indRing), d) BY <1>1 DEF Ending
  <2>3. ~Assigning(Head(indRing), d)
    <3>1. 1 \in DOMAIN indRing /\ Head(indRing) = indRing[1] BY <1>1, TailIs
    <3>2. ChannelMessage(indRing[1])
      BY <1>2, <3>1 DEF Placed, Channels, ChannelMessage
    <3> QED BY <1>1, <3>1, <3>2 DEF ChannelMessage, Assigning, IsAnswer
  <2> QED BY <2>1, <2>2, <2>3, IdTail
<1> QED BY <1>3, <1>4 DEF Ents, Known

\* A return code under an Id belongs to the entity that has the Id.
LEMMA RcOwner ==
    ASSUME Types, Ents, indRing # <<>>, NEW m, m = Head(indRing), m.k = "rc",
           m.Id \in Ids, NEW e \in Entity, e = IdTable[m.Id]
    PROVE  m.own = e /\ m.rc # "ASSIGN_OK" /\ ent[e].Id = m.Id
<1> DEFINE d == m.Id
<1>1. IdOwner(d) /\ IdView(d) BY IdAtIs DEF Ents, Known
<1>2. 1 \in DOMAIN indRing /\ Head(indRing) = indRing[1]
      /\ DOMAIN indRing = 1..Len(indRing)
  BY TailIs DEF Types
<1>3. 1 \in About(d) /\ Owners[1] = m.own
  BY <1>2 DEF About, IsAbout, Owners
<1>4. e # Null BY Numbers
<1>5. m.rc # "ASSIGN_OK"
  <2> SUFFICES ASSUME m.rc = "ASSIGN_OK" PROVE FALSE OBVIOUS
  <2>1. 1 \in Assigned(d) BY <1>2 DEF Assigned, Assigning, IsAbout
  <2>2. PICK k \in Ended(d) : TRUE BY <1>1, <1>4, <2>1 DEF IdView, View
  <2>3. k < 1 BY <1>1, <2>1, <2>2 DEF IdView, View
  <2>4. k \in DOMAIN indRing BY <2>2 DEF Ended
  <2> QED BY <2>3, <2>4, <1>2
<1>6. ~\E j \in Assigned(d) : j <= 1
  <2> SUFFICES ASSUME NEW j \in Assigned(d), j <= 1 PROVE FALSE OBVIOUS
  <2>1. j \in DOMAIN indRing /\ Assigning(indRing[j], d) BY DEF Assigned
  <2>2. j = 1 BY <2>1, <1>2
  <2> QED BY <2>1, <2>2, <1>2, <1>5 DEF Assigning
<1>7. m.own = e BY <1>1, <1>3, <1>6 DEF IdView, View
<1> QED BY <1>1, <1>5, <1>7 DEF IdOwner

LEMMA EntsRcIgnored ==
    ASSUME Types, Locals, Ents, RcIgnored
    PROVE  Ents'
<1>1. PICK m : m = Head(indRing) OBVIOUS
<1>2. PICK e : e = IdTable[m.Id] OBVIOUS
<1>3. /\ Dispatch("rc", m) /\ m.Id # 0 /\ e # Null
      /\ Removal(e, m) /\ Premature(e, m)
      /\ UNCHANGED <<wait, ent, assign, rmPending, fragFree, IdTable>>
  BY <1>1, <1>2 DEF RcIgnored, idVars
<1>4. indRing # <<>> /\ m.k = "rc" /\ m \in RingType BY <1>3, Dispatched
<1>5. m.Id \in Ids /\ e \in Entity
  <2>1. m.Id \in Ids BY <1>3, <1>4, RingKinds DEF RcType
  <2> QED BY <2>1, <1>2, <1>3 DEF Types, TypeOK
<1>6. m.own = e /\ ent[e].Id = m.Id BY <1>1, <1>2, <1>4, <1>5, RcOwner
<1>7. ~IsAnswer(m)
  <2> SUFFICES ASSUME IsAnswer(m) PROVE FALSE OBVIOUS
  <2>1. PICK st \in [Entity -> Stage] : Placed(st) BY DEF Ents
  <2>2. 1 \in DOMAIN indRing /\ m = indRing[1]
    BY <1>1, <1>4, TailIs DEF Types
  <2>3. AnswerAt(m, st[e] = "answer")
    BY <2>1, <2>2, <1>6 DEF Placed, Stages
  <2>4. e \in DSIG \/ m.ext = "REMOVE_COMPLETE"
    BY <2>3, <1>3, <1>6 DEF AnswerAt, Removal
  <2> QED BY <2>4, <1>3 DEF Premature
<1> QED BY <1>3, <1>7, EntsTail

LEMMA EntsRcRemoved ==
    ASSUME Types, Locals, Ents, RcRemoved
    PROVE  Ents'
<1>1. PICK m : m = Head(indRing) OBVIOUS
<1>2. PICK e \in Entity :
        /\ Dispatch("rc", m) /\ m.Id # 0
        /\ e = IdTable[m.Id] /\ Removal(e, m) /\ ~Premature(e, m)
        /\ rmPending' = rmPending \ {e}
        /\ IdTable' = [IdTable EXCEPT ![m.Id] = Null]
        /\ fragFree' = Freed(ent[e], m.ext)
        /\ ent' = [ent EXCEPT ![e] = [Returned(@, m.ext) EXCEPT !.Id = 0]]
        /\ ClientRc(e, m) /\ UNCHANGED assign
  BY <1>1 DEF RcRemoved
<1>3. indRing # <<>> /\ m.k = "rc" /\ m \in RingType
      /\ indRing' = Tail(indRing) /\ indRing \in Seq(RingType)
      /\ UNCHANGED <<queue, reqRing, jobs, cardId, held>>
  BY <1>2, Dispatched
<1>4. m.Id \in Ids BY <1>2, <1>3, RingKinds DEF RcType
<1>5. m.own = e /\ ent[e].Id = m.Id BY <1>1, <1>2, <1>3, <1>4, RcOwner
<1>6. PICK st \in [Entity -> Stage] : Placed(st) BY DEF Ents
<1>7. 1 \in DOMAIN indRing /\ m = indRing[1] BY <1>1, <1>3, TailIs
<1>8. m.rc = "OK" /\ e \in rmPending BY <1>2 DEF Removal
<1>9. IsAnswer(m)
  <2>1. m.ext = "OK_FC" => e \notin DSIG
    BY <1>3, <1>5, <1>6, <1>7 DEF Placed, Channels
  <2> QED BY <2>1, <1>2, <1>3 DEF Premature, IsAnswer
<1>10. st[e] = "answer" BY <1>5, <1>6, <1>7, <1>9 DEF Placed, Stages, AnswerAt
<1>11. e \notin assign
  <2>1. ent[e].Id # 0 BY <1>4, <1>5, Numbers
  <2> QED BY <2>1, <1>6 DEF Placed, Stages, EntityAt
<1>12. PICK x : x = [Returned(ent[e], m.ext) EXCEPT !.Id = 0] OBVIOUS
<1>13. x.XBUSY = FALSE /\ x.XOffset = NoFrag /\ x.Id = 0
  BY <1>9, <1>12, EntTypes DEF Returned, IsAnswer, Frees
<1>14. ent' = [ent EXCEPT ![e] = x] /\ wait' = [wait EXCEPT ![e] = FALSE]
  BY <1>2, <1>9, <1>12 DEF ClientRc, IsAnswer
<1>15. assign' = assign \ {e} BY <1>2, <1>11
<1>16. /\ \E t \in [Entity -> Stage] : Placed(t)'
       /\ \A k \in DOMAIN indRing : k # 1 /\ IsAnswer(indRing[k])
                => indRing[k].own # e
  BY <1>1, <1>2, <1>3, <1>5, <1>6, <1>9, <1>13, <1>14, <1>15, PlacedAnswered
<1>17. ent'[e] = x /\ \A c \in Entity : c # e => ent'[c] = ent[c]
  BY <1>14, EntTypes
<1>18. ASSUME NEW d \in Ids PROVE IdAt(d)'
  <2>1. TakesHead(d) BY <1>2, <1>3, <1>16 DEF TakesHead
  <2>2. IdAt(d) BY DEF Ents, Known
  <2>3. CASE d = m.Id
    <3>1. Ending(m, d) BY <2>3, <1>3, <1>5, <1>8, <1>9 DEF Ending, IsAbout
    <3>2. IdTable'[d] = Null BY <1>2, <1>4, <2>3 DEF Types, TypeOK
    <3>3. \A c \in Entity : ent'[c].Id = d <=> ent[c].Id = d /\ c # e
      BY <1>13, <1>17, Numbers
    <3> QED BY <2>1, <2>2, <3>1, <3>2, <3>3, <1>1, <1>2, <1>5, <1>16, Numbers,
               IdEnded
  <2>4. CASE d # m.Id
    <3>1. ~Assigning(m, d) /\ ~Ending(m, d)
      BY <2>4 DEF Assigning, Ending, IsAbout
    <3>2. IdTable'[d] = IdTable[d] BY <1>2, <1>4, <2>4 DEF Types, TypeOK
    <3>3. \A c \in Entity : ent'[c].Id = d <=> ent[c].Id = d
      BY <1>5, <1>13, <1>17, <2>4, Numbers
    <3> QED BY <2>1, <2>2, <3>1, <3>2, <3>3, <1>1, IdTail DEF IdFrame
  <2> QED BY <2>3, <2>4
<1> QED BY <1>16, <1>18 DEF Ents, Known

LEMMA EntsRcAnswer ==
    ASSUME Types, Locals, Ents, RcAnswer
    PROVE  Ents'
<1>1. PICK m : m = Head(indRing) OBVIOUS
<1>2. PICK e \in Entity :
        /\ Dispatch("rc", m) /\ m.Id # 0
        /\ e = IdTable[m.Id] /\ ~Removal(e, m)
        /\ fragFree' = Freed(ent[e], m.ext)
        /\ ent' = [ent EXCEPT ![e] = Returned(@, m.ext)]
        /\ ClientRc(e, m) /\ UNCHANGED <<assign, rmPending, IdTable>>
  BY <1>1 DEF RcAnswer, idVars
<1>3. indRing # <<>> /\ m.k = "rc" /\ m \in RingType
      /\ indRing' = Tail(indRing) /\ indRing \in Seq(RingType)
      /\ UNCHANGED <<queue, reqRing, jobs, cardId, held>>
  BY <1>2, Dispatched
<1>4. m.Id \in Ids /\ m \in RcType BY <1>2, <1>3, RingKinds DEF RcType
<1>5. m.own = e /\ ent[e].Id = m.Id /\ m.rc # "ASSIGN_OK"
  BY <1>1, <1>2, <1>3, <1>4, RcOwner
<1>6. PICK st \in [Entity -> Stage] : Placed(st) BY DEF Ents
<1>7. 1 \in DOMAIN indRing /\ m = indRing[1] BY <1>1, <1>3, TailIs
<1>8. PICK x : x = Returned(ent[e], m.ext) OBVIOUS
<1>9. x.XBUSY = FALSE /\ x.Id = ent[e].Id /\ x.Req = ent[e].Req
      /\ (m.ext = "OK_FC" => x.XOffset = ent[e].XOffset)
      /\ (m.ext # "OK_FC" => x.XOffset = NoFrag)
  BY <1>8, EntTypes DEF Returned, Frees
<1>10. ent' = [ent EXCEPT ![e] = x] BY <1>2, <1>8
<1>11. ent'[e] = x /\ \A c \in Entity : c # e => ent'[c] = ent[c]
  BY <1>10, EntTypes
<1>12. CASE m.ext = "OK_FC"
  <2>1. wait' = wait /\ fragFree' = fragFree
    BY <1>2, <1>12 DEF ClientRc, Freed, Frees
  <2>2. Placed(st)'
    <3>1. \A c \in Entity : /\ ent'[c].Id = ent[c].Id /\ ent'[c].Req = ent[c].Req
                            /\ ent'[c].XOffset = ent[c].XOffset
                            /\ ent'[c].XBUSY => ent[c].XBUSY
      BY <1>9, <1>11, <1>12
    <3>2. \A c \in Entity : EntityAt(c, st[c])'
      BY <1>2, <1>6, <2>1, <3>1 DEF Placed, Stages, EntityAt
    <3>3. /\ DOMAIN indRing' = 1..(Len(indRing) - 1)
          /\ \A k \in 1..(Len(indRing) - 1) : indRing'[k] = indRing[k + 1]
          /\ DOMAIN indRing = 1..Len(indRing) /\ Len(indRing) \in Nat
      BY <1>3, TailIs
    <3>4. \A k \in DOMAIN indRing' : k + 1 \in DOMAIN indRing
             /\ indRing'[k] = indRing[k + 1] /\ k \in Nat
      BY <3>3
    <3>5. \A k \in DOMAIN reqRing' : IsReq(reqRing'[k])
            => RequestAt(reqRing[k], st[reqRing[k].own] = "ring")'
      BY <1>3, <1>6, <3>1, OwnersAre DEF Placed, Stages, RequestAt
    <3>6. \A j \in jobs' : IsReq(j) => RequestAt(j, st[j.own] = "card")'
      BY <1>3, <1>6, <3>1, OwnersAre DEF Placed, Stages, RequestAt
    <3>7. ASSUME NEW k \in DOMAIN indRing', IsAnswer(indRing'[k])
          PROVE  AnswerAt(indRing[k], st[indRing[k].own] = "answer")'
      <4>1. k + 1 \in DOMAIN indRing /\ indRing'[k] = indRing[k + 1]
            /\ IsAnswer(indRing[k + 1])
        BY <3>4, <3>7
      <4>2. AnswerAt(indRing[k + 1], st[indRing[k + 1].own] = "answer")
            /\ indRing[k + 1].own \in Entity
        BY <4>1, <1>6, OwnersAre DEF Placed, Stages
      <4> QED BY <1>2, <3>1, <4>1, <4>2 DEF AnswerAt
    <3>8. Stages(st)'
      BY <1>3, <1>6, <3>2, <3>5, <3>6, <3>7
      DEF Placed, Stages, RequestAt, AnswerAt, IsReq, IsAnswer
    <3>9. Single'
      <4>1. ASSUME NEW j \in DOMAIN indRing', NEW k \in DOMAIN indRing',
                   IsAnswer(indRing'[j]), IsAnswer(indRing'[k]),
                   indRing'[j].own = indRing'[k].own
            PROVE  j = k
        <5>1. j + 1 = k + 1 BY <1>6, <3>4, <4>1 DEF Placed, Single
        <5> QED BY <5>1, <3>4
      <4> QED BY <4>1, <1>3, <1>6 DEF Placed, Single, IsAnswer, IsReq
    <3>10. Channels' BY <1>3, <1>6, <3>4 DEF Placed, Channels
    <3>11. Fragments' BY <1>6, <2>1, <3>1 DEF Placed, Fragments
    <3> QED BY <3>8, <3>9, <3>10, <3>11 DEF Placed
  <2>3. ASSUME NEW d \in Ids PROVE IdAt(d)'
    <3>1. TakesHead(d) /\ IdFrame(d)
      BY <1>2, <1>3, <1>9, <1>11 DEF TakesHead, IdFrame
    <3>2. ~Ending(m, d) /\ ~Assigning(m, d)
      BY <1>5, <1>12 DEF Ending, IsAnswer, Assigning
    <3> QED BY <3>1, <3>2, <1>1, IdTail DEF Ents, Known
  <2> QED BY <2>2, <2>3 DEF Ents, Known
<1>13. CASE m.ext # "OK_FC"
  <2>1. IsAnswer(m) BY <1>3, <1>13 DEF IsAnswer
  <2>2. AnswerAt(m, st[e] = "answer")
    BY <2>1, <1>5, <1>6, <1>7 DEF Placed, Stages
  <2>3. ~Assigns(m)
    <3>1. m.Id # 0 BY <1>2
    <3> QED BY <1>5, <2>2, <3>1 DEF AnswerAt, Assigns
  <2>4. e \notin assign /\ e \notin rmPending
    BY <1>2, <1>5, <2>2, <2>3 DEF AnswerAt, Removal
  <2>5. assign' = assign \ {e} /\ rmPending' = rmPending \ {e} BY <1>2, <2>4
  <2>6. wait' = [wait EXCEPT ![e] = FALSE] BY <1>2, <1>13 DEF ClientRc
  <2>7. \E t \in [Entity -> Stage] : Placed(t)'
    BY <1>1, <1>2, <1>3, <1>5, <1>6, <1>9, <1>10, <1>13, <2>1, <2>5, <2>6,
       PlacedAnswered
  <2>8. ASSUME NEW d \in Ids PROVE IdAt(d)'
    <3>1. TakesHead(d) /\ IdFrame(d)
      BY <1>2, <1>3, <1>9, <1>11 DEF TakesHead, IdFrame
    <3>2. ~Ending(m, d) /\ ~Assigning(m, d)
      BY <1>5, <2>4 DEF Ending, Assigning
    <3> QED BY <3>1, <3>2, <1>1, IdTail DEF Ents, Known
  <2> QED BY <2>7, <2>8 DEF Ents, Known
<1> QED BY <1>12, <1>13

LEMMA EntsRcAssign ==
    ASSUME Types, Locals, Ents, RcAssign
    PROVE  Ents'
<1>1. PICK m : m = Head(indRing) OBVIOUS
<1>2. PICK e \in Entity :
        /\ Dispatch("rc", m) /\ Assigns(m) /\ e = m.own /\ e \in assign
        /\ assign' = assign \ {e}
        /\ fragFree' = Freed(ent[e], m.ext)
        /\ ent' = [ent EXCEPT ![e] = [Returned(@, m.ext) EXCEPT !.Id = m.Id]]
        /\ IdTable' = IF m.rc = "ASSIGN_OK" THEN [IdTable EXCEPT ![m.Id] = e]
                      ELSE IdTable
        /\ ClientRc(e, m) /\ UNCHANGED rmPending
  BY <1>1 DEF RcAssign, Assigns
<1>3. indRing # <<>> /\ m.k = "rc" /\ m \in RingType
      /\ indRing' = Tail(indRing) /\ indRing \in Seq(RingType)
      /\ UNCHANGED <<queue, reqRing, jobs, cardId, held>>
  BY <1>2, Dispatched
<1>4. m.Id \in Ids \cup {0} /\ m \in RcType
  BY <1>3, RingKinds DEF RcType
<1>5. PICK st \in [Entity -> Stage] : Placed(st) BY DEF Ents
<1>6. 1 \in DOMAIN indRing /\ m = indRing[1] BY <1>1, <1>3, TailIs
<1>7. m.ext # "OK_FC"
  <2>1. m.ext = "OK_FC" => m.rc = "OK"
    BY <1>3, <1>5, <1>6 DEF Placed, Channels
  <2> QED BY <2>1, <1>2 DEF Assigns
<1>8. IsAnswer(m) BY <1>3, <1>7 DEF IsAnswer
<1>9. AnswerAt(m, st[e] = "answer")
  BY <1>8, <1>2, <1>5, <1>6 DEF Placed, Stages
<1>10. e \notin rmPending BY <1>2, <1>9 DEF AnswerAt, Assigns
<1>11. ent[e].Id = 0 BY <1>2, <1>5 DEF Placed, Stages, EntityAt
<1>12. PICK x : x = [Returned(ent[e], m.ext) EXCEPT !.Id = m.Id] OBVIOUS
<1>13. x.XBUSY = FALSE /\ x.XOffset = NoFrag /\ x.Id = m.Id
  BY <1>7, <1>12, EntTypes DEF Returned, Frees
<1>14. ent' = [ent EXCEPT ![e] = x] /\ wait' = [wait EXCEPT ![e] = FALSE]
  BY <1>2, <1>7, <1>12 DEF ClientRc
<1>15. rmPending' = rmPending \ {e} BY <1>2, <1>10
<1>16. \E t \in [Entity -> Stage] : Placed(t)'
  BY <1>1, <1>2, <1>3, <1>5, <1>8, <1>13, <1>14, <1>15, PlacedAnswered
<1>17. ent'[e] = x /\ \A c \in Entity : c # e => ent'[c] = ent[c]
  BY <1>14, EntTypes
<1>18. ASSUME NEW d \in Ids PROVE IdAt(d)'
  <2>1. TakesHead(d) BY <1>2, <1>3 DEF TakesHead
  <2>2. IdAt(d) BY DEF Ents, Known
  <2>3. ~Ending(m, d) BY <1>2, <1>10 DEF Ending
  <2>4. CASE m.rc = "ASSIGN_OK" /\ d = m.Id
    <3>1. Assigning(m, d) BY <2>4, <1>3 DEF Assigning, IsAbout
    <3>2. IdTable'[d] = e BY <1>2, <2>4 DEF Types, TypeOK
    <3>3. \A c \in Entity : ent'[c].Id = d <=> ent[c].Id = d \/ c = e
      BY <1>13, <1>17, <2>4
    <3> QED BY <2>1, <2>2, <3>1, <3>2, <3>3, <1>1, <1>2, Numbers, IdAssigned
  <2>5. CASE ~(m.rc = "ASSIGN_OK" /\ d = m.Id)
    <3>1. ~Assigning(m, d) BY <2>5 DEF Assigning, IsAbout
    <3>2. m.rc # "ASSIGN_OK" => m.Id = 0
      BY <1>2, <1>9 DEF AnswerAt, Assigns
    <3>3. m.Id # d BY <2>5, <3>2, Numbers
    <3>4. IdTable'[d] = IdTable[d] BY <1>2, <3>3 DEF Types, TypeOK
    <3>5. \A c \in Entity : ent'[c].Id = d <=> ent[c].Id = d
      BY <1>11, <1>13, <1>17, <3>3, Numbers
    <3> QED BY <2>1, <2>2, <2>3, <3>1, <3>4, <3>5, <1>1, IdTail DEF IdFrame
  <2> QED BY <2>4, <2>5
<1> QED BY <1>16, <1>18 DEF Ents, Known

-----------------------------------------------------------------------------
(* What vidi_host_pr_out writes before the requests *)

LEMMA SumNone ==
    ASSUME NEW S, NEW s \in Seq(S), NEW kind, \A x \in S : Amount(x, kind) = 0
    PROVE  SumOf(s, kind) = 0
<1> DEFINE Bad == {k \in 0..Len(s) : SumTo(s, kind)[k] # 0}
<1>1. Len(s) \in Nat /\ \A k \in 1..Len(s) : s[k] \in S BY ElementOfSeq
<1>2. Summable(s, kind) BY <1>1 DEF Summable
<1> SUFFICES ASSUME Bad # {} PROVE FALSE
  <2>1. Len(s) \in 0..Len(s) BY <1>1
  <2> QED BY <2>1 DEF SumOf
<1>3. PICK k \in Bad : \A l \in Bad : k <= l
  <2>1. Bad \subseteq Nat BY <1>1
  <2> HIDE DEF Bad
  <2> QED BY <2>1, LeastNat
<1>4. k \in 0..Len(s) /\ SumTo(s, kind)[k] # 0 BY <1>3
<1>5. k # 0 /\ SumTo(s, kind)[k] = SumTo(s, kind)[k - 1] + Amount(s[k], kind)
  BY <1>2, <1>4, SumStep
<1>6. k - 1 \in 0..Len(s) /\ ~(k <= k - 1) /\ k \in 1..Len(s)
  BY <1>1, <1>4, <1>5
<1>7. k - 1 \notin Bad
  <2> HIDE DEF Bad
  <2> QED BY <1>3, <1>6
<1>8. SumTo(s, kind)[k - 1] = 0 BY <1>6, <1>7
<1>9. Amount(s[k], kind) = 0 BY <1>1, <1>6
<1> QED BY <1>4, <1>5, <1>8, <1>9

\* The messages of the host that are no requests
SysType == [k : {"stop"}] \cup [k : {"ack_ind"}, n : Nat]
           \cup [k : {"timer"}, on : BOOLEAN]
           \cup [k : {"ack_buf"}, of : Seq(RxBuf)]
           \cup [k : {"ack_id"}, of : Seq(Ids)]

\* How the timer is told to the card
TimerTold(out) ==
    \/ \E m \in SeqSet(out) : m.k = "stop"
    \/ timer' = timer /\ \A m \in SeqSet(out) : m.k # "timer"
    \/ /\ timer' = 0 /\ timer # 0
       /\ \A m \in SeqSet(out) : m.k = "timer" => m.on = (timer = 1)
       /\ \E m \in SeqSet(out) : m.k = "timer"

LEMMA IfIs ==
    ASSUME NEW c \in BOOLEAN, NEW m, NEW S, c => m \in S
    PROVE  /\ If(c, m) \in Seq(S) /\ Len(If(c, m)) = IF c THEN 1 ELSE 0
           /\ If(c, m) = IF c THEN <<m>> ELSE <<>>
           /\ DOMAIN If(c, m) = IF c THEN {1} ELSE {}
<1>1. CASE c
  <2>1. If(c, m) = <<m>> BY <1>1 DEF If
  <2>2. <<m>> \in Seq(S) /\ Len(<<m>>) = 1 BY <1>1
  <2>3. DOMAIN <<m>> = {1} OBVIOUS
  <2> QED BY <1>1, <2>1, <2>2, <2>3
<1>2. CASE ~c
  <2>1. If(c, m) = <<>> BY <1>2 DEF If
  <2> QED BY <1>2, <2>1
<1> QED BY <1>1, <1>2

LEMMA SumIf ==
    ASSUME NEW c \in BOOLEAN, NEW m, NEW kind, c => Amount(m, kind) \in Nat
    PROVE  SumOf(If(c, m), kind) = IF c THEN Amount(m, kind) ELSE 0
<1>1. CASE c
  <2>0. PICK s : s = <<>> OBVIOUS
  <2>1. If(c, m) = Append(s, m) BY <1>1, <2>0 DEF If
  <2> DEFINE S == {m}
  <2>2. s \in Seq(S) /\ m \in S BY <2>0
  <2>3. \A x \in S : Amount(x, kind) \in Nat BY <1>1
  <2> HIDE DEF S
  <2>4. SumOf(Append(s, m), kind) = SumOf(s, kind) + Amount(m, kind)
    BY <2>2, <2>3, SumAppend
  <2>5. SumOf(s, kind) = 0 BY <2>0, SumEmpty
  <2>6. Amount(m, kind) \in Nat BY <1>1
  <2>7. PICK n \in Nat : n = Amount(m, kind) BY <2>6
  <2>8. SumOf(Append(s, m), kind) = n BY <2>4, <2>5, <2>7
  <2> QED BY <1>1, <2>1, <2>7, <2>8
<1>2. CASE ~c
  <2>1. If(c, m) = <<>> BY <1>2 DEF If
  <2> QED BY <1>2, <2>1, SumEmpty
<1> QED BY <1>1, <1>2

LEMMA Amounts ==
    /\ \A m \in ReqType \cup RingType, kind \in {"ack_ind", "ack_req"} :
         Amount(m, kind) \in Nat
    /\ SysType \subseteq ReqType /\ \A m \in SysType : ~IsReq(m)
<1>1. ASSUME NEW m \in ReqType \cup RingType, NEW kind \in {"ack_ind", "ack_req"}
      PROVE  Amount(m, kind) \in Nat
  BY <1>1 DEF ReqType, RingType, Host, RcType, IndType, Amount, Code
<1>2. SysType \subseteq ReqType BY DEF SysType, ReqType
<1>3. \A m \in SysType : ~IsReq(m) BY DEF SysType, IsReq, Code
<1> QED BY <1>1, <1>2, <1>3

LEMMA ConcatIs ==
    ASSUME NEW S, NEW s \in Seq(S), NEW t \in Seq(S), NEW u, u = s \o t
    PROVE  /\ u \in Seq(S) /\ Len(u) = Len(s) + Len(t)
           /\ Len(s) \in Nat /\ Len(t) \in Nat
<1>1. s \o t \in Seq(S) /\ Len(s \o t) = Len(s) + Len(t) BY ConcatProperties
<1> QED BY <1>1, ElementOfSeq

LEMMA ConcatSet ==
    ASSUME NEW S, NEW s \in Seq(S), NEW t \in Seq(S)
    PROVE  SeqSet(s \o t) = SeqSet(s) \cup SeqSet(t)
<1>0. PICK u \in Seq(S) : u = s \o t BY ConcatProperties
<1>1. Len(u) = Len(s) + Len(t) /\ Len(s) \in Nat /\ Len(t) \in Nat
  BY <1>0, ConcatIs
<1>2. /\ \A k \in 1..Len(s) : u[k] = s[k]
      /\ \A k \in 1..Len(t) : u[Len(s) + k] = t[k]
  BY <1>0, ConcatProperties
<1>3. /\ DOMAIN u = 1..Len(u) /\ DOMAIN t = 1..Len(t)
      /\ DOMAIN s = 1..Len(s)
  OBVIOUS
<1>4. ASSUME NEW k \in DOMAIN u
      PROVE  u[k] \in SeqSet(s) \cup SeqSet(t)
  <2>1. CASE k <= Len(s)
    <3>1. k \in DOMAIN s /\ u[k] = s[k] BY <1>1, <1>2, <1>3, <2>1
    <3> QED BY <3>1 DEF SeqSet
  <2>2. CASE ~(k <= Len(s))
    <3>1. k - Len(s) \in 1..Len(t) /\ Len(s) + (k - Len(s)) = k
      BY <1>1, <1>3, <2>2
    <3>2. u[k] = t[k - Len(s)] BY <3>1, <1>2
    <3> QED BY <3>1, <3>2, <1>3 DEF SeqSet
  <2> QED BY <2>1, <2>2
<1>5. ASSUME NEW k \in DOMAIN s PROVE s[k] \in SeqSet(u)
  <2>1. k \in DOMAIN u /\ u[k] = s[k] BY <1>1, <1>2, <1>3
  <2> QED BY <2>1 DEF SeqSet
<1>6. ASSUME NEW j \in DOMAIN t PROVE t[j] \in SeqSet(u)
  <2>1. Len(s) + j \in DOMAIN u /\ u[Len(s) + j] = t[j]
    BY <1>1, <1>2, <1>3
  <2> QED BY <2>1 DEF SeqSet
<1>7. \A x \in SeqSet(u) : x \in SeqSet(s) \cup SeqSet(t)
  BY <1>4 DEF SeqSet
<1>8. \A x \in SeqSet(s) : x \in SeqSet(u) BY <1>5 DEF SeqSet
<1>9. \A x \in SeqSet(t) : x \in SeqSet(u) BY <1>6 DEF SeqSet
<1>10. SeqSet(u) = SeqSet(s) \cup SeqSet(t) BY <1>7, <1>8, <1>9
<1> QED BY <1>0, <1>10

LEMMA FiveSet ==
    ASSUME NEW S, NEW a \in Seq(S), NEW b \in Seq(S), NEW c \in Seq(S),
           NEW d \in Seq(S), NEW e \in Seq(S)
    PROVE  SeqSet(a \o b \o c \o d \o e)
             = SeqSet(a) \cup SeqSet(b) \cup SeqSet(c)
               \cup SeqSet(d) \cup SeqSet(e)
<1>1. PICK p \in Seq(S) : p = a \o b BY ConcatIs
<1>2. PICK q \in Seq(S) : q = p \o c BY ConcatIs
<1>3. PICK r \in Seq(S) : r = q \o d BY ConcatIs
<1>9. SeqSet(r \o e) = SeqSet(r) \cup SeqSet(e) BY ConcatSet
<1>10. SeqSet(q \o d) = SeqSet(q) \cup SeqSet(d) BY ConcatSet
<1>11. SeqSet(p \o c) = SeqSet(p) \cup SeqSet(c) BY ConcatSet
<1>12. SeqSet(a \o b) = SeqSet(a) \cup SeqSet(b) BY ConcatSet
<1>13. r \o e = a \o b \o c \o d \o e BY <1>1, <1>2, <1>3
<1> QED BY <1>1, <1>2, <1>3, <1>9, <1>10, <1>11, <1>12, <1>13

LEMMA FiveParts ==
    ASSUME NEW S, NEW a \in Seq(S), NEW b \in Seq(S), NEW c \in Seq(S),
           NEW d \in Seq(S), NEW e \in Seq(S), NEW kind,
           \A m \in S : Amount(m, kind) \in Nat
    PROVE  /\ Len(a \o b \o c \o d \o e)
                = Len(a) + Len(b) + Len(c) + Len(d) + Len(e)
           /\ SumOf(a \o b \o c \o d \o e, kind)
                = SumOf(a, kind) + SumOf(b, kind)
                  + SumOf(c, kind) + SumOf(d, kind) + SumOf(e, kind)
<1>0. PICK u \in Seq(S) : u = a \o b \o c \o d \o e BY ConcatProperties
<1>1. PICK p \in Seq(S) : p = a \o b BY ConcatIs
<1>2. PICK q \in Seq(S) : q = p \o c BY ConcatIs
<1>3. PICK r \in Seq(S) : r = q \o d BY ConcatIs
<1>4. u = r \o e BY <1>0, <1>1, <1>2, <1>3
<1>5. Len(p) = Len(a) + Len(b) BY <1>1, ConcatIs
<1>6. Len(q) = Len(p) + Len(c) BY <1>2, ConcatIs
<1>7. Len(r) = Len(q) + Len(d) BY <1>3, ConcatIs
<1>8. Len(u) = Len(r) + Len(e) BY <1>4, ConcatIs
<1>13. SumOf(p, kind) = SumOf(a, kind) + SumOf(b, kind)
  BY <1>1, SumConcat
<1>14. SumOf(q, kind) = SumOf(p, kind) + SumOf(c, kind)
  BY <1>2, SumConcat
<1>15. SumOf(r, kind) = SumOf(q, kind) + SumOf(d, kind)
  BY <1>3, SumConcat
<1>16. SumOf(u, kind) = SumOf(r, kind) + SumOf(e, kind)
  BY <1>4, SumConcat
<1>18. SumOf(u, kind) = SumOf(a, kind) + SumOf(b, kind)
                  + SumOf(c, kind) + SumOf(d, kind) + SumOf(e, kind)
  BY <1>13, <1>14, <1>15, <1>16
<1>22. Len(u) = Len(a) + Len(b) + Len(c) + Len(d) + Len(e)
  BY <1>5, <1>6, <1>7, <1>8
<1> QED BY <1>0, <1>18, <1>22

\* vidi_host_pr_out writes no more than there is room for, and every pending
\* acknowledge once.
LEMMA OutSystemIs ==
    ASSUME Types, Locals, OutSystem
    PROVE  \E out \in Seq(SysType), a \in BOOLEAN :
             /\ reqRing' = reqRing \o out /\ staged' = Len(out)
             /\ Len(out) \in 0..(ReqMax - pend)
             /\ pend' = pend + Len(out) /\ ReadyCount' = ReqMax - pend - Len(out)
             /\ SumOf(out, "ack_ind") = IF a THEN nrInd ELSE 0
             /\ nrInd' = IF a THEN 0 ELSE nrInd
             /\ bufAck' \in Seq(RxBuf) /\ idAck' \in Seq(Ids)
             /\ timer' \in 0..2 /\ TimerTold(out)
<1> DEFINE stop  == If(stopFlag, [k |-> "stop"])
           room1 == ReqMax - pend - Len(stop)
           ca    == nrInd > 1 /\ room1 > 0
           ma    == [k |-> "ack_ind", n |-> nrInd]
           ack   == If(ca, ma)
           room2 == room1 - Len(ack)
           want  == IF stopFlag THEN 0 ELSE timer
           ct    == want # 0 /\ room2 > 0
           mt    == [k |-> "timer", on |-> want = 1]
           tmr   == If(ct, mt)
           room3 == room2 - Len(tmr)
           bufs  == Batches("ack_buf", bufAck, AckPer, room3)
           room4 == room3 - Len(bufs)
           ids   == Batches("ack_id", idAck, IdPer, room4)
           out   == stop \o ack \o tmr \o bufs \o ids
<1>1. /\ reqRing' = reqRing \o out /\ staged' = Len(out)
      /\ pend' = pend + Len(out)
      /\ ReadyCount' = ReqMax - pend - Len(out)
      /\ nrInd' = Unacked(ack # <<>>)
      /\ timer' = IF tmr # <<>> THEN 0 ELSE want
      /\ bufAck' = Rest(bufAck, AckPer, room3)
      /\ idAck' = Rest(idAck, IdPer, room4)
      /\ pend < ReqMax
  BY DEF OutSystem
<1>2. /\ pend \in Nat /\ ReqMax \in Nat /\ nrInd \in Nat /\ stopFlag \in BOOLEAN
      /\ timer \in 0..2 /\ bufAck \in Seq(RxBuf) /\ idAck \in Seq(Ids)
      /\ AckPer \in Nat \ {0} /\ IdPer \in Nat \ {0}
  BY VidiAssumption DEF Types, TypeOK
<1>3. stop \in Seq(SysType) /\ Len(stop) = IF stopFlag THEN 1 ELSE 0
  <2>1. [k |-> "stop"] \in SysType BY DEF SysType
  <2> QED BY <1>2, <2>1, IfIs
<1>4. room1 \in Nat /\ (stopFlag \/ room1 > 0) /\ room1 = ReqMax - pend - Len(stop)
  <2>1. PICK p \in Nat, R \in Nat : p = pend /\ R = ReqMax BY <1>2
  <2>2. p < R BY <1>1, <2>1
  <2>3. PICK l \in {0, 1} : l = Len(stop) BY <1>3
  <2>4. l = 1 => stopFlag BY <1>3, <2>3
  <2>5. R - p - l \in Nat /\ (l = 0 => R - p - l > 0) BY <2>2
  <2> HIDE DEF stop
  <2> QED BY <2>1, <2>3, <2>4, <2>5
<1>5. ack \in Seq(SysType) /\ Len(ack) = (IF ca THEN 1 ELSE 0)
      /\ (ack # <<>> <=> ca)
  <2>1. ma \in SysType BY <1>2 DEF SysType
  <2>2. ca \in BOOLEAN OBVIOUS
  <2> HIDE DEF ca, ma
  <2> QED BY <2>1, <2>2, IfIs
<1>6. room2 \in Nat /\ room2 = room1 - Len(ack) BY <1>4, <1>5
<1>7. tmr \in Seq(SysType) /\ Len(tmr) = (IF ct THEN 1 ELSE 0)
      /\ (tmr # <<>> <=> ct) /\ (ct => tmr = <<mt>>)
  <2>1. mt \in SysType BY DEF SysType
  <2>2. ct \in BOOLEAN OBVIOUS
  <2> HIDE DEF ct, mt
  <2> QED BY <2>1, <2>2, IfIs
<1>8. room3 \in Nat /\ room3 = room2 - Len(tmr) BY <1>6, <1>7
<1> DEFINE BT == [k : {"ack_buf"}, of : Seq(RxBuf)]
           IT == [k : {"ack_id"}, of : Seq(Ids)]
<1>9. bufs \in Seq(BT) /\ Len(bufs) \in 0..room3
  <2> HIDE DEF room3
  <2> QED BY <1>2, <1>8, BatchesAre
<1>10. room4 \in Nat /\ room4 = room3 - Len(bufs)
  <2> HIDE DEF bufs, room3
  <2> QED BY <1>8, <1>9
<1>11. ids \in Seq(IT) /\ Len(ids) \in 0..room4
  <2>1. PICK r : r = room4 OBVIOUS
  <2>2. PICK b : b = Batches("ack_id", idAck, IdPer, r) OBVIOUS
  <2>3. ids = b BY <2>1, <2>2
  <2>4. r \in Nat BY <1>10, <2>1
  <2>5. b \in Seq([k : {"ack_id"}, of : Seq(Ids)]) /\ Len(b) \in 0..r
    BY <1>2, <2>2, <2>4, BatchesAre
  <2> HIDE DEF room4, ids
  <2> QED BY <2>1, <2>3, <2>5
<1>12. bufAck' \in Seq(RxBuf) /\ idAck' \in Seq(Ids)
  <2> HIDE DEF room3, room4
  <2> QED BY <1>1, <1>2, <1>8, <1>10, TakenIs
<1>13. timer' \in 0..2
  <2> HIDE DEF tmr
  <2> QED BY <1>1, <1>2
<1>14. SumOf(stop, "ack_ind") = 0 /\ SumOf(tmr, "ack_ind") = 0
       /\ SumOf(ack, "ack_ind") = IF ca THEN nrInd ELSE 0
  <2>1. Amount([k |-> "stop"], "ack_ind") = 0 BY DEF Amount
  <2>2. Amount(mt, "ack_ind") = 0 BY DEF Amount
  <2>3. Amount(ma, "ack_ind") = nrInd BY DEF Amount
  <2>4. ca \in BOOLEAN /\ ct \in BOOLEAN OBVIOUS
  <2> HIDE DEF ca, ct, ma, mt
  <2> QED BY <1>2, <2>1, <2>2, <2>3, <2>4, SumIf
<1>15. SumOf(bufs, "ack_ind") = 0 /\ SumOf(ids, "ack_ind") = 0
  <2>1. \A x \in BT : Amount(x, "ack_ind") = 0 BY DEF Amount
  <2>2. \A x \in IT : Amount(x, "ack_ind") = 0 BY DEF Amount
  <2> HIDE DEF bufs, ids, BT, IT
  <2> QED BY <1>9, <1>11, <2>1, <2>2, SumNone
<1>16. bufs \in Seq(SysType) /\ ids \in Seq(SysType)
  <2>1. BT \subseteq SysType /\ IT \subseteq SysType BY DEF SysType
  <2> HIDE DEF bufs, ids, BT, IT
  <2> QED BY <1>9, <1>11, <2>1, SeqMonotonic
<1>17. \A x \in SeqSet(bufs) : x.k = "ack_buf"
  <2>1. \A k \in DOMAIN bufs : bufs[k] \in BT
    <3> HIDE DEF bufs, BT
    <3> QED BY <1>9, ElementOfSeq
  <2> QED BY <2>1 DEF SeqSet
<1>18. \A x \in SeqSet(ids) : x.k = "ack_id"
  <2>1. \A k \in DOMAIN ids : ids[k] \in IT
    <3> HIDE DEF ids, IT
    <3> QED BY <1>11, ElementOfSeq
  <2> QED BY <2>1 DEF SeqSet
<1>19. /\ stopFlag => [k |-> "stop"] \in SeqSet(stop)
       /\ \A x \in SeqSet(stop) : x.k = "stop"
  <2>1. stopFlag => stop = <<[k |-> "stop"]>> BY DEF If
  <2>2. ~stopFlag => stop = <<>> BY DEF If
  <2> HIDE DEF stop
  <2> QED BY <1>2, <2>1, <2>2 DEF SeqSet
<1>20. \A x \in SeqSet(ack) : x.k = "ack_ind"
  <2>1. ack = <<ma>> \/ ack = <<>> BY DEF If
  <2>2. ma.k = "ack_ind" OBVIOUS
  <2> HIDE DEF ack, ma
  <2> QED BY <2>1, <2>2 DEF SeqSet
<1>21. /\ ct => mt \in SeqSet(tmr)
       /\ \A x \in SeqSet(tmr) : x.k = "timer" /\ x.on = (want = 1)
       /\ ~ct => SeqSet(tmr) = {}
       /\ mt.k = "timer"
  <2>1. mt.k = "timer" /\ mt.on = (want = 1) OBVIOUS
  <2>2. (ct => tmr = <<mt>>) /\ (~ct => tmr = <<>>) BY <1>7
  <2> HIDE DEF ct, mt, tmr, want
  <2> QED BY <2>1, <2>2 DEF SeqSet
<1>22. /\ Len(stop) = IF stopFlag THEN 1 ELSE 0
       /\ ct => want # 0
       /\ ca \in BOOLEAN
  BY <1>3
<1>30. want = IF stopFlag THEN 0 ELSE timer OBVIOUS
<1>31. timer' = IF ct THEN 0 ELSE want BY <1>1, <1>7
<1>32. nrInd' = IF ca THEN 0 ELSE nrInd BY <1>1, <1>5 DEF Unacked
<1> HIDE DEF stop, ack, tmr, bufs, ids, ca, ct, ma, mt, want, room1, room2,
             room3, room4
<1>23. /\ stop \in Seq(SysType) /\ ack \in Seq(SysType) /\ tmr \in Seq(SysType)
       /\ bufs \in Seq(SysType) /\ ids \in Seq(SysType)
  BY <1>3, <1>5, <1>7, <1>16
<1>24. out = stop \o ack \o tmr \o bufs \o ids OBVIOUS
<1>25. \A m \in SysType : Amount(m, "ack_ind") \in Nat BY Amounts
<1> HIDE DEF out
<1>26. PICK ps \in Seq(SysType), pa \in Seq(SysType), pt \in Seq(SysType),
            pb \in Seq(SysType), pi \in Seq(SysType) :
         ps = stop /\ pa = ack /\ pt = tmr /\ pb = bufs /\ pi = ids
  BY <1>23
<1>40. out \in Seq(SysType) BY <1>23, <1>24, ConcatProperties
<1>38. PICK po \in Seq(SysType) : po = out BY <1>40
<1>39. po = ps \o pa \o pt \o pb \o pi BY <1>24, <1>26, <1>38
<1>27. /\ out \in Seq(SysType)
       /\ Len(out) = Len(stop) + Len(ack) + Len(tmr) + Len(bufs) + Len(ids)
       /\ SumOf(out, "ack_ind") = SumOf(stop, "ack_ind") + SumOf(ack, "ack_ind")
            + SumOf(tmr, "ack_ind") + SumOf(bufs, "ack_ind")
            + SumOf(ids, "ack_ind")
  <2>1. /\ Len(ps \o pa \o pt \o pb \o pi)
              = Len(ps) + Len(pa) + Len(pt) + Len(pb) + Len(pi)
        /\ SumOf(ps \o pa \o pt \o pb \o pi, "ack_ind")
              = SumOf(ps, "ack_ind") + SumOf(pa, "ack_ind")
                + SumOf(pt, "ack_ind") + SumOf(pb, "ack_ind")
                + SumOf(pi, "ack_ind")
    BY <1>25, FiveParts
  <2> QED BY <1>26, <1>38, <1>39, <1>40, <2>1
<1>28. Len(out) \in 0..(ReqMax - pend)
  BY <1>2, <1>3, <1>4, <1>5, <1>6, <1>7, <1>8, <1>9, <1>10, <1>11, <1>27
<1>29. SumOf(out, "ack_ind") = IF ca THEN nrInd ELSE 0
  BY <1>2, <1>14, <1>15, <1>27
<1>33. SeqSet(out) = SeqSet(stop) \cup SeqSet(ack) \cup SeqSet(tmr)
                       \cup SeqSet(bufs) \cup SeqSet(ids)
  <2>1. SeqSet(ps \o pa \o pt \o pb \o pi)
          = SeqSet(ps) \cup SeqSet(pa) \cup SeqSet(pt)
            \cup SeqSet(pb) \cup SeqSet(pi)
    BY FiveSet
  <2> QED BY <1>26, <1>38, <1>39, <2>1
<1>36. TimerTold(out)
  <2>1. CASE stopFlag
    <3>1. [k |-> "stop"] \in SeqSet(out) BY <2>1, <1>19, <1>33
    <3> QED BY <3>1 DEF TimerTold
  <2>2. CASE ~stopFlag /\ ~ct
    <3>1. timer' = timer BY <2>2, <1>30, <1>31
    <3>2. \A x \in SeqSet(out) : x.k # "timer"
      BY <2>2, <1>17, <1>18, <1>19, <1>20, <1>21, <1>33
    <3> QED BY <3>1, <3>2 DEF TimerTold
  <2>3. CASE ~stopFlag /\ ct
    <3>1. timer' = 0 /\ timer # 0 /\ want = timer
      BY <2>3, <1>22, <1>30, <1>31
    <3>2. \A x \in SeqSet(out) : x.k = "timer" => x.on = (want = 1)
      BY <2>3, <1>17, <1>18, <1>19, <1>20, <1>21, <1>33
    <3>3. \E x \in SeqSet(out) : x.k = "timer" BY <2>3, <1>21, <1>33
    <3> QED BY <3>1, <3>2, <3>3 DEF TimerTold
  <2> QED BY <2>1, <2>2, <2>3
<1>37. /\ reqRing' = reqRing \o out /\ staged' = Len(out)
       /\ pend' = pend + Len(out)
       /\ ReadyCount' = ReqMax - pend - Len(out)
  BY <1>1 DEF out, stop, ack, tmr, bufs, ids, ca, ct, ma, mt, want, room1,
              room2, room3, room4
<1> QED BY <1>12, <1>13, <1>22, <1>27, <1>28, <1>29, <1>32, <1>36, <1>37

-----------------------------------------------------------------------------
(* The requests in the steps of vidi_host_pr_out and of the card *)

LEMMA EntsOutSystem ==
    ASSUME Types, Locals, Ents, OutSystem
    PROVE  Ents'
<1>1. PICK out \in Seq(SysType) : reqRing' = reqRing \o out
  BY OutSystemIs
<1>2. out \in Seq(ReqType) /\ \A k \in DOMAIN out : ~IsReq(out[k])
  <2>1. \A k \in DOMAIN out : out[k] \in SysType BY ElementOfSeq
  <2>2. SysType \subseteq ReqType BY Amounts
  <2>3. out \in Seq(ReqType) BY <2>2, SeqMonotonic
  <2> QED BY <2>1, <2>3, Amounts
<1>3. PICK s \in Seq(ReqType) : s = out BY <1>2
<1>4. UNCHANGED <<wait, ent, assign, rmPending, fragFree, queue, jobs,
                  indRing, cardId, held, IdTable>>
  BY DEF OutSystem, clientVars, idVars, cardVars
<1>5. PICK st \in [Entity -> Stage] : Placed(st) BY DEF Ents
<1>6. Placed(st)'
  <2>1. reqRing' = reqRing \o s /\ \A k \in DOMAIN s : ~IsReq(s[k])
    BY <1>1, <1>2, <1>3
  <2> QED BY <2>1, <1>4, <1>5, PlacedSystem
<1>7. Known' BY <1>4, KnownSame DEF Ents
<1> QED BY <1>6, <1>7 DEF Ents

LEMMA EntsOutRequest ==
    ASSUME Types, Locals, Ents, OutRequest
    PROVE  Ents'
<1>1. PICK e \in {eno}, f \in fragFree \cup {NoFrag} :
        /\ pc = "req" /\ e # Null
        /\ ent[e].Req = "BIG" <=> f # NoFrag
        /\ fragFree' = fragFree \ {f}
        /\ ent' = [ent EXCEPT ![e].XOffset = f]
        /\ reqRing' = Append(reqRing, ReqMsg(ent[e].Req, ent[e].Id, e, f))
        /\ queue' = Tail(queue)
        /\ assign' = IF ent[e].Id = 0 THEN assign \cup {e} ELSE assign
        /\ rmPending' = IF ent[e].Req = "REMOVE" THEN rmPending \cup {e}
                        ELSE rmPending
        /\ UNCHANGED <<wait, jobs, indRing, cardId, held, IdTable>>
  BY ZenonT(30) DEF OutRequest, cardVars
<1>2. e = Head(queue) /\ queue # <<>> BY <1>1 DEF Locals
<1>3. PICK c \in Entity : c = e
  <2>1. queue \in Seq(Entity) BY DEF Types, TypeOK
  <2> QED BY <2>1, <1>2, TailIs
<1>4. PICK st \in [Entity -> Stage] : Placed(st) BY DEF Ents
<1>5. /\ \E t \in [Entity -> Stage] : Placed(t)'
      /\ \A k \in DOMAIN indRing : IsAnswer(indRing[k]) => indRing[k].own # c
  <2>1. /\ queue # <<>> /\ c = Head(queue) /\ queue' = Tail(queue)
        /\ ent[c].Req = "BIG" <=> f # NoFrag
        /\ fragFree' = fragFree \ {f}
        /\ ent' = [ent EXCEPT ![c].XOffset = f]
        /\ reqRing' = Append(reqRing, ReqMsg(ent[c].Req, ent[c].Id, c, f))
        /\ assign' = IF ent[c].Id = 0 THEN assign \cup {c} ELSE assign
        /\ rmPending' = IF ent[c].Req = "REMOVE" THEN rmPending \cup {c}
                        ELSE rmPending
        /\ UNCHANGED <<wait, jobs, indRing, cardId, held>>
    BY <1>1, <1>2, <1>3
  <2> QED BY ONLY <2>1, <1>4, Types, PlacedSent
<1>6. \A x \in Entity : ent'[x].Id = ent[x].Id
  <2>1. ent' = [ent EXCEPT ![c].XOffset = f] BY <1>1, <1>3
  <2>2. ent'[c] = [ent[c] EXCEPT !.XOffset = f]
        /\ \A x \in Entity : x # c => ent'[x] = ent[x]
    BY <2>1, EntTypes
  <2>3. ent'[c].Id = ent[c].Id BY <2>2, EntTypes
  <2> QED BY <2>2, <2>3
<1>7. \A k \in DOMAIN indRing : IsAnswer(indRing[k])
        => (indRing[k].own \in rmPending' <=> indRing[k].own \in rmPending)
  BY <1>1, <1>3, <1>5
<1>8. Known' BY <1>1, <1>6, <1>7, KnownSame DEF Ents
<1> QED BY <1>5, <1>8 DEF Ents

LEMMA EntsCardReads ==
    ASSUME Types, Ents, CardReads
    PROVE  Ents'
<1>1. PICK m : m = Head(reqRing) OBVIOUS
<1>2. CardTake(m) /\ jobs' = IF IsReq(m) \/ m.k = "stop" THEN jobs \cup {m}
                             ELSE jobs
  <2>1. CASE CardSystem BY <2>1, <1>1 DEF CardSystem, IsReq, Code
  <2>2. CASE CardRequest BY <2>2, <1>1 DEF CardRequest, IsReq
  <2> QED BY <2>1, <2>2 DEF CardReads
<1>3. /\ reqRing # <<>> /\ reqRing' = Tail(reqRing)
      /\ UNCHANGED <<wait, ent, assign, rmPending, fragFree, queue, indRing,
                     cardId, held, IdTable>>
  <2>1. Len(reqRing) > staged /\ staged \in 0..Len(reqRing)
    BY <1>2 DEF CardTake, Types, TypeOK
  <2>2. reqRing \in Seq(ReqType) BY DEF Types
  <2>3. reqRing # <<>> BY <2>1, <2>2
  <2> QED BY <2>3, <1>1, <1>2 DEF CardTake, HostFrame, clientVars, idVars
<1>4. PICK st \in [Entity -> Stage] : Placed(st) BY DEF Ents
<1>5. \E t \in [Entity -> Stage] : Placed(t)'
  <2>1. jobs' = IF IsReq(Head(reqRing)) \/ Head(reqRing).k = "stop"
                THEN jobs \cup {Head(reqRing)} ELSE jobs
    BY <1>1, <1>2
  <2> QED BY <2>1, <1>3, <1>4, PlacedTaken
<1>6. Known' BY <1>3, KnownSame DEF Ents
<1> QED BY <1>5, <1>6 DEF Ents

\* A request the card works on: its entity is at the stage "card", and host and
\* card agree about its Id.
LEMMA JobIs ==
    ASSUME Types, NEW st \in [Entity -> Stage], Placed(st), Known,
           NEW m \in jobs, IsReq(m)
    PROVE  /\ m.own \in Entity /\ st[m.own] = "card"
           /\ m.k = ent[m.own].Req /\ m.Id = ent[m.own].Id
           /\ m.k = "ASSIGN" <=> m.Id = 0
           /\ m.own \in assign <=> m.Id = 0
           /\ m.own \in rmPending <=> m.k = "REMOVE"
           /\ m.Id # 0 => /\ m.Id \in Ids
                          /\ IdTable[m.Id] = m.own /\ cardId[m.Id] = m.own
<1>1. m.own \in Entity BY OwnersAre
<1>2. st[m.own] = "card" /\ m.k = ent[m.own].Req /\ m.Id = ent[m.own].Id
  BY DEF Placed, Stages, RequestAt
<1>3. EntityAt(m.own, st[m.own]) BY <1>1 DEF Placed, Stages
<1>4. /\ m.k = "ASSIGN" <=> m.Id = 0
      /\ m.own \in assign <=> m.Id = 0
      /\ m.own \in rmPending <=> m.k = "REMOVE"
  BY <1>2, <1>3 DEF EntityAt
<1>5. ASSUME m.Id # 0
      PROVE  m.Id \in Ids /\ IdTable[m.Id] = m.own /\ cardId[m.Id] = m.own
  <2>1. m.Id \in Ids BY <1>1, <1>2, <1>5, EntTypes
  <2>2. IdAt(m.Id) BY <2>1 DEF Known
  <2>3. IdTable[m.Id] = m.own BY <1>1, <1>2, <2>2 DEF IdAt
  <2>4. Ended(m.Id) = {}
    <3> SUFFICES ASSUME NEW k \in Ended(m.Id) PROVE FALSE OBVIOUS
    <3>1. /\ k \in DOMAIN indRing /\ IsAnswer(indRing[k])
          /\ indRing[k].Id = m.Id /\ indRing[k].own \in rmPending
      BY DEF Ended, Ending, IsAbout
    <3>2. AnswerAt(indRing[k], st[indRing[k].own] = "answer")
      BY <3>1 DEF Placed, Stages
    <3>3. ent[indRing[k].own].Id = m.Id
      BY <3>1, <3>2 DEF AnswerAt, Assigns
    <3>4. indRing[k].own \in Entity BY <3>1, OwnersAre
    <3>5. indRing[k].own = m.own BY <2>2, <2>3, <3>3, <3>4 DEF IdAt
    <3> QED BY <3>2, <3>5, <1>2 DEF AnswerAt
  <2>5. cardId[m.Id] = m.own BY <1>1, <2>2, <2>3, <2>4, Numbers DEF IdAt
  <2> QED BY <2>1, <2>3, <2>5
<1> QED BY <1>1, <1>2, <1>4, <1>5

\* What the card leaves alone when it posts a message
LEMMA PostIs ==
    ASSUME NEW m, CardPost(m)
    PROVE  /\ ~cardStop /\ indRing' = Append(indRing, m)
           /\ indFree' = indFree - 1
           /\ indFree > (IF m.k = "ack_req" THEN 0 ELSE 1)
           /\ UNCHANGED <<wait, flow, ent, queue, oob, assign, IdTable,
                          rmPending, fragFree, started, cpuStop, stopFlag,
                          pend, nrInd, bufAck, idAck, timer, rnrq, hdrFree,
                          bufFree, pc, phase, nr, ReadyCount, eno, staged,
                          reqRing, timerOn>>
           /\ sched' = TRUE
BY DEF CardPost, Post, HostFrame, clientVars, idVars, stateVars, ackVars,
       rnrVars, dpcVars

\* A message that is no answer; if it is about an Id, it is meant for the
\* entity that the card gave the Id.
LEMMA EntsPosted ==
    ASSUME Types, Ents, NEW m \in RingType, CardPost(m), ~IsAnswer(m),
           ChannelMessage(m), cardId' = cardId, held' \subseteq held,
           jobs' \subseteq jobs,
           m.k \in {"rc", "ind"} /\ m.Id \in Ids =>
             m.own = cardId[m.Id] /\ cardId[m.Id] # Null
    PROVE  Ents'
<1>1. PICK st \in [Entity -> Stage] : Placed(st) BY DEF Ents
<1>2. \A d \in held' : cardId'[d] \in Entity \ DSIG
  BY <1>1 DEF Placed, Channels
<1>3. Placed(st)' BY <1>1, <1>2, PostIs, PlacedPosted
<1>4. ASSUME NEW d \in Ids PROVE IdAt(d)'
  <2>1. AddsLast(m) /\ IdFrame(d) BY PostIs DEF AddsLast, IdFrame, Types
  <2>2. ~Ending(m, d) BY DEF Ending
  <2>3. ~Assigning(m, d) BY DEF Assigning, ChannelMessage, IsAnswer
  <2>4. IsAbout(m, d) => m.own = cardId[d] /\ cardId[d] # Null
    BY DEF IsAbout
  <2>5. IdAt(d) BY DEF Ents, Known
  <2> QED BY <2>1, <2>2, <2>3, <2>4, <2>5, IdAppend
<1> QED BY <1>3, <1>4 DEF Ents, Known

\* What the card says about an Id is typed.
LEMMA MsgTypes ==
    /\ \A rc \in {"OK", "OK_FC", "ASSIGN_OK", "ASSIGN_FAIL"},
          d \in Ids \cup {0}, e \in Entity,
          ext \in {"none", "OK_FC", "REMOVE_COMPLETE"} :
         Rc(rc, d, e, ext) \in RingType
    /\ \A d \in Ids, e \in Entity, b \in RxBuf \cup {0}, big \in BOOLEAN :
         Ind(d, e, b, big) \in RingType
    /\ \A n \in Nat : [k |-> "ack_req", n |-> n] \in RingType
    /\ \A k \in {"start", "cpu_stop", "warning", "rnr_ind"} :
         [k |-> k] \in RingType
<1>1. \A rc \in {"OK", "OK_FC", "ASSIGN_OK", "ASSIGN_FAIL"},
         d \in Ids \cup {0}, e \in Entity,
         ext \in {"none", "OK_FC", "REMOVE_COMPLETE"} :
        Rc(rc, d, e, ext) \in RcType
  BY DEF Rc, RcType
<1>2. \A d \in Ids, e \in Entity, b \in RxBuf \cup {0}, big \in BOOLEAN :
        Ind(d, e, b, big) \in IndType
  BY DEF Ind, IndType
<1> QED BY <1>1, <1>2 DEF RingType

\* The answer to a request: IdStep says what becomes of the Ids.
LEMMA EntsDone ==
    ASSUME Types, Ents, NEW j \in jobs, IsReq(j), NEW m \in RingType,
           CardPost(m), jobs' = jobs \ {j}, IsAnswer(m), m.own = j.own,
           AnswerAt(m, TRUE), \A d \in held' : cardId'[d] \in Entity \ DSIG,
           \A d \in Ids :
             \/ /\ cardId'[d] = cardId[d]
                /\ ~Assigning(m, d) /\ ~Ending(m, d)
                /\ IsAbout(m, d) => m.own = cardId[d] /\ cardId[d] # Null
             \/ /\ Assigning(m, d) /\ ~Ending(m, d)
                /\ m.own # Null /\ m.own # IdTable[d]
                /\ cardId[d] = Null /\ cardId'[d] = m.own
             \/ /\ ~Assigning(m, d) /\ Ending(m, d)
                /\ m.own # Null /\ m.own = IdTable[d]
                /\ cardId[d] = m.own /\ cardId'[d] = Null
    PROVE  Ents'
<1>1. PICK st \in [Entity -> Stage] : Placed(st) BY DEF Ents
<1>2. /\ indRing' = Append(indRing, m)
      /\ UNCHANGED <<wait, ent, assign, rmPending, fragFree, queue, reqRing,
                     IdTable>>
  BY PostIs
<1>3. \E t \in [Entity -> Stage] : Placed(t)' BY <1>1, <1>2, PlacedDone
<1>4. ASSUME NEW d \in Ids PROVE IdAt(d)'
  <2>1. AddsLast(m) /\ IdFrame(d) BY <1>2 DEF AddsLast, IdFrame, Types
  <2>2. IdAt(d) BY DEF Ents, Known
  <2> QED BY <2>1, <2>2, IdAppend, IdAssigning, IdEnding
<1> QED BY <1>3, <1>4 DEF Ents, Known

LEMMA EntsCardAssign ==
    ASSUME Types, Ents, NEW m \in jobs, CardAssign(m)
    PROVE  Ents'
<1>1. PICK st \in [Entity -> Stage] : Placed(st) BY DEF Ents
<1>2. m.k = "ASSIGN" BY DEF CardAssign, CardJob
<1>3. IsReq(m) BY <1>2 DEF IsReq, Code
<1>4. /\ m.own \in Entity /\ m.Id = 0 /\ m.Id = ent[m.own].Id
      /\ m.own \in assign /\ m.own \notin rmPending
  BY <1>1, <1>2, <1>3, JobIs DEF Ents
<1>5. m.own # Null BY <1>4, Numbers
<1>6. \A d \in held : cardId[d] \in Entity \ DSIG BY <1>1 DEF Placed, Channels
<1>7. held' = held BY DEF CardAssign
<1>8. ASSUME NEW d \in Ids, cardId[d] = Null,
             CardJob(m, {"ASSIGN"}, Rc("ASSIGN_OK", d, m.own, "none")),
             cardId' = [cardId EXCEPT ![d] = m.own]
      PROVE  Ents'
  <2>1. PICK a : a = Rc("ASSIGN_OK", d, m.own, "none") OBVIOUS
  <2>2. a \in RingType BY <1>4, <2>1, MsgTypes
  <2>3. /\ a.k = "rc" /\ a.rc = "ASSIGN_OK" /\ a.Id = d /\ a.own = m.own
        /\ a.ext = "none"
    BY <2>1 DEF Rc
  <2>4. CardPost(a) /\ jobs' = jobs \ {m} BY <1>8, <2>1 DEF CardJob
  <2>5. IsAnswer(a) /\ AnswerAt(a, TRUE)
    BY <1>4, <2>3, Numbers DEF IsAnswer, AnswerAt, Assigns
  <2>6. \A x \in held' : cardId'[x] \in Entity \ DSIG
    BY <1>6, <1>7, <1>8, Numbers DEF Types
  <2>7. IdTable[d] # m.own
    <3>1. IdAt(d) BY DEF Ents, Known
    <3> QED BY <3>1, <1>4, Numbers DEF IdAt
  <2>8. ASSUME NEW x \in Ids
        PROVE  \/ /\ cardId'[x] = cardId[x]
                  /\ ~Assigning(a, x) /\ ~Ending(a, x)
                  /\ ~IsAbout(a, x)
               \/ /\ Assigning(a, x) /\ ~Ending(a, x)
                  /\ a.own # Null /\ a.own # IdTable[x]
                  /\ cardId[x] = Null /\ cardId'[x] = a.own
    BY <1>4, <1>5, <1>8, <2>3, <2>7 DEF Types, Assigning, Ending, IsAbout
  <2> QED BY <1>3, <2>2, <2>3, <2>4, <2>5, <2>6, <2>8, EntsDone
<1>9. ASSUME CardJob(m, {"ASSIGN"}, Rc("ASSIGN_FAIL", 0, m.own, "none")),
             cardId' = cardId
      PROVE  Ents'
  <2>1. PICK a : a = Rc("ASSIGN_FAIL", 0, m.own, "none") OBVIOUS
  <2>2. a \in RingType BY <1>4, <2>1, MsgTypes
  <2>3. /\ a.k = "rc" /\ a.rc = "ASSIGN_FAIL" /\ a.Id = 0 /\ a.own = m.own
        /\ a.ext = "none"
    BY <2>1 DEF Rc
  <2>4. CardPost(a) /\ jobs' = jobs \ {m} BY <1>9, <2>1 DEF CardJob
  <2>5. IsAnswer(a) /\ AnswerAt(a, TRUE)
    BY <1>4, <2>3 DEF IsAnswer, AnswerAt, Assigns
  <2>6. \A x \in held' : cardId'[x] \in Entity \ DSIG BY <1>6, <1>7, <1>9
  <2>7. ASSUME NEW x \in Ids
        PROVE  /\ cardId'[x] = cardId[x]
               /\ ~Assigning(a, x) /\ ~Ending(a, x) /\ ~IsAbout(a, x)
    BY <1>9, <2>3, Numbers DEF Assigning, Ending, IsAbout
  <2> QED BY <1>3, <2>2, <2>3, <2>4, <2>5, <2>6, <2>7, EntsDone
<1> QED BY <1>8, <1>9 DEF CardAssign

LEMMA EntsCardData ==
    ASSUME Types, Ents, NEW m \in jobs, CardData(m)
    PROVE  Ents'
<1>1. PICK st \in [Entity -> Stage] : Placed(st) BY DEF Ents
<1>2. m.k \in {"DATA", "BIG", "CTRL"} BY DEF CardData, CardJob
<1>3. IsReq(m) BY <1>2 DEF IsReq, Code
<1>4. /\ m.own \in Entity /\ m.Id \in Ids /\ m.Id = ent[m.own].Id
      /\ m.own \notin assign /\ m.own \notin rmPending
      /\ cardId[m.Id] = m.own
  <2>1. m.Id # 0 BY <1>1, <1>2, <1>3, JobIs DEF Ents
  <2> QED BY <1>1, <1>2, <1>3, <2>1, JobIs DEF Ents
<1>5. PICK rc \in {"OK", "OK_FC"} :
        /\ CardPost(Rc(rc, m.Id, m.own, "none")) /\ jobs' = jobs \ {m}
        /\ rc = "OK" => held' = held
        /\ rc = "OK_FC" => m.own \notin DSIG /\ held' = held \cup {m.Id}
  BY DEF CardData, CardJob
<1>6. PICK a : a = Rc(rc, m.Id, m.own, "none") OBVIOUS
<1>7. a \in RingType
  <2>1. rc \in {"OK", "OK_FC", "ASSIGN_OK", "ASSIGN_FAIL"} BY <1>5
  <2> QED BY <2>1, <1>4, <1>6, MsgTypes
<1>8. /\ a.k = "rc" /\ a.rc = rc /\ a.Id = m.Id /\ a.own = m.own
      /\ a.ext = "none"
  BY <1>6 DEF Rc
<1>9. IsAnswer(a) /\ AnswerAt(a, TRUE)
  BY <1>4, <1>5, <1>8 DEF IsAnswer, AnswerAt, Assigns
<1>10. cardId' = cardId BY DEF CardData
<1>11. \A x \in held' : cardId'[x] \in Entity \ DSIG
  <2>1. \A x \in held : cardId[x] \in Entity \ DSIG
    BY <1>1 DEF Placed, Channels
  <2> QED BY <2>1, <1>4, <1>5, <1>10
<1>12. ASSUME NEW x \in Ids
       PROVE  /\ cardId'[x] = cardId[x] /\ ~Assigning(a, x) /\ ~Ending(a, x)
              /\ IsAbout(a, x) => a.own = cardId[x] /\ cardId[x] # Null
  BY <1>4, <1>5, <1>8, <1>10, Numbers DEF Assigning, Ending, IsAbout
<1> QED BY <1>3, <1>5, <1>6, <1>7, <1>8, <1>9, <1>11, <1>12, EntsDone

LEMMA EntsCardRemove ==
    ASSUME Types, Ents, NEW m \in jobs, CardRemove(m)
    PROVE  Ents'
<1>1. PICK st \in [Entity -> Stage] : Placed(st) BY DEF Ents
<1>2. m.k = "REMOVE" BY DEF CardRemove, CardJob
<1>3. IsReq(m) BY <1>2 DEF IsReq, Code
<1>4. /\ m.own \in Entity /\ m.Id \in Ids /\ m.Id = ent[m.own].Id
      /\ m.own \notin assign /\ m.own \in rmPending
      /\ cardId[m.Id] = m.own /\ IdTable[m.Id] = m.own
  <2>1. m.Id # 0 BY <1>1, <1>2, <1>3, JobIs DEF Ents
  <2> QED BY <1>1, <1>2, <1>3, <2>1, JobIs DEF Ents
<1>5. PICK ext : ext = IF m.own \in DSIG THEN "none" ELSE "REMOVE_COMPLETE"
  OBVIOUS
<1>6. PICK a : a = Rc("OK", m.Id, m.own, ext) OBVIOUS
<1>7. a \in RingType
  <2>1. ext \in {"none", "OK_FC", "REMOVE_COMPLETE"} BY <1>5
  <2> QED BY <2>1, <1>4, <1>6, MsgTypes
<1>8. /\ a.k = "rc" /\ a.rc = "OK" /\ a.Id = m.Id /\ a.own = m.own
      /\ a.ext = ext
  BY <1>6 DEF Rc
<1>9. /\ CardPost(a) /\ jobs' = jobs \ {m}
      /\ cardId' = [cardId EXCEPT ![m.Id] = Null] /\ held' = held \ {m.Id}
  BY <1>5, <1>6 DEF CardRemove, CardJob
<1>10. IsAnswer(a) /\ AnswerAt(a, TRUE)
  BY <1>4, <1>5, <1>8 DEF IsAnswer, AnswerAt, Assigns
<1>11. \A x \in held' : cardId'[x] \in Entity \ DSIG
  <2>1. \A x \in held : cardId[x] \in Entity \ DSIG
    BY <1>1 DEF Placed, Channels
  <2>2. \A x \in Ids : x # m.Id => cardId'[x] = cardId[x]
    BY <1>9 DEF Types
  <2>3. held \subseteq Ids BY DEF Types
  <2> QED BY <1>9, <2>1, <2>2, <2>3
<1>12. ASSUME NEW x \in Ids, x # m.Id
       PROVE  /\ cardId'[x] = cardId[x] /\ ~Assigning(a, x) /\ ~Ending(a, x)
              /\ ~IsAbout(a, x)
  BY <1>4, <1>8, <1>9, <1>12 DEF Types, Assigning, Ending, IsAbout
<1>13. /\ ~Assigning(a, m.Id) /\ Ending(a, m.Id)
       /\ a.own # Null /\ a.own = IdTable[m.Id]
       /\ cardId[m.Id] = a.own /\ cardId'[m.Id] = Null
  BY <1>4, <1>8, <1>9, <1>10, Numbers DEF Types, Assigning, Ending, IsAbout
<1> QED BY <1>3, <1>7, <1>8, <1>9, <1>10, <1>11, <1>12, <1>13, EntsDone

LEMMA EntsCardOther ==
    ASSUME Types, Ents,
           CardStops \/ CardXon \/ CardAck \/ CardInd \/ CardTick \/ CardWarn
    PROVE  Ents'
<1>1. PICK st \in [Entity -> Stage] : Placed(st) BY DEF Ents
<1>2. CASE CardStops
  <2>1. PICK a : a = [k |-> "cpu_stop"] OBVIOUS
  <2>2. /\ CardPost(a) /\ jobs' \subseteq jobs /\ held' = held
        /\ cardId' = cardId
    BY <1>2, <2>1 DEF CardStops, CardJob
  <2>3. a \in RingType /\ a.k = "cpu_stop" BY <2>1, MsgTypes
  <2> QED BY <2>2, <2>3, EntsPosted DEF IsAnswer, ChannelMessage
<1>3. CASE CardXon
  <2>1. PICK d \in held : /\ CardPost(Rc("OK", d, cardId[d], "OK_FC"))
                          /\ held' = held \ {d}
                          /\ jobs' = jobs /\ cardId' = cardId
    BY <1>3 DEF CardXon
  <2>2. d \in Ids /\ cardId[d] \in Entity \ DSIG
    BY <1>1 DEF Types, Placed, Channels
  <2>3. PICK a : a = Rc("OK", d, cardId[d], "OK_FC") OBVIOUS
  <2>4. a \in RingType BY <2>2, <2>3, MsgTypes
  <2>5. /\ a.k = "rc" /\ a.ext = "OK_FC" /\ a.rc = "OK" /\ a.Id = d
        /\ a.own = cardId[d]
    BY <2>3 DEF Rc
  <2>6. ~IsAnswer(a) /\ ChannelMessage(a)
    BY <2>2, <2>5, Numbers DEF IsAnswer, ChannelMessage
  <2> QED BY <2>1, <2>2, <2>3, <2>4, <2>5, <2>6, Numbers, EntsPosted
<1>4. CASE CardInd
  <2>1. PICK d \in Ids, b \in cardBufs \cup {0}, big \in BOOLEAN :
          /\ cardId[d] # Null /\ CardPost(Ind(d, cardId[d], b, big))
          /\ UNCHANGED <<jobs, held, cardId>>
    BY <1>4 DEF CardInd
  <2>2. cardId[d] \in Entity /\ b \in RxBuf \cup {0} BY <2>1 DEF Types
  <2>3. PICK a : a = Ind(d, cardId[d], b, big) OBVIOUS
  <2>4. a \in RingType BY <2>2, <2>3, MsgTypes
  <2>5. a.k = "ind" /\ a.Id = d /\ a.own = cardId[d] BY <2>3 DEF Ind
  <2>6. ~IsAnswer(a) /\ ChannelMessage(a)
    BY <2>5 DEF IsAnswer, ChannelMessage
  <2> QED BY <2>1, <2>3, <2>4, <2>5, <2>6, EntsPosted
<1>5. CASE CardAck
  <2>1. PICK a : a = [k |-> "ack_req", n |-> done] OBVIOUS
  <2>2. CardPost(a) /\ UNCHANGED <<jobs, held, cardId>>
    BY <1>5, <2>1 DEF CardAck
  <2>3. a \in RingType /\ a.k = "ack_req" BY <2>1, MsgTypes DEF Types
  <2> QED BY <2>2, <2>3, EntsPosted DEF IsAnswer, ChannelMessage
<1>6. CASE CardTick
  <2>1. PICK a : a = [k |-> "rnr_ind"] OBVIOUS
  <2>2. CardPost(a) /\ UNCHANGED <<jobs, held, cardId>>
    BY <1>6, <2>1 DEF CardTick
  <2>3. a \in RingType /\ a.k = "rnr_ind" BY <2>1, MsgTypes
  <2> QED BY <2>2, <2>3, EntsPosted DEF IsAnswer, ChannelMessage
<1>7. CASE CardWarn
  <2>1. PICK a : a = [k |-> "warning"] OBVIOUS
  <2>2. CardPost(a) /\ UNCHANGED <<jobs, held, cardId>>
    BY <1>7, <2>1 DEF CardWarn
  <2>3. a \in RingType /\ a.k = "warning" BY <2>1, MsgTypes
  <2> QED BY <2>2, <2>3, EntsPosted DEF IsAnswer, ChannelMessage
<1> QED BY <1>2, <1>3, <1>4, <1>5, <1>6, <1>7

LEMMA EntsNext ==
    ASSUME Types, Locals, Ents, [Next]_vars
    PROVE  Ents'
<1>1. CASE UNCHANGED vars
  BY <1>1, EntsSame DEF vars, clientVars, idVars, outRing, cardVars, placeVars
<1>2. CASE ClientNext
  <2>1. CASE \E e \in Entity, r \in Reqs \cup {"ASSIGN"} : Request(e, r)
    BY <2>1, EntsRequest
  <2>2. ASSUME NEW d \in Ids, Xon(d) PROVE Ents'
    BY <2>2, EntsSame DEF Xon, idVars, outRing, cardVars, placeVars
  <2> QED BY <1>2, <2>1, <2>2 DEF ClientNext
<1>3. CASE IndNext
  <2>1. CASE SysAckReq
    BY <2>1, EntsTail DEF SysAckReq, idVars, IsAnswer, Dispatch
  <2>2. CASE SysRnrInd
    BY <2>2, EntsTail DEF SysRnrInd, idVars, IsAnswer, Dispatch
  <2>3. CASE SysState
    <3>1. PICK m : m = Head(indRing) OBVIOUS
    <3>2. PICK k \in {"start", "cpu_stop", "warning"} : Dispatch(k, m)
      BY <2>3, <3>1 DEF SysState
    <3>3. UNCHANGED <<wait, ent, assign, rmPending, fragFree, IdTable>>
      BY <2>3 DEF SysState, idVars
    <3>4. ~IsAnswer(m) BY <3>2 DEF Dispatch, IsAnswer
    <3> QED BY <3>2, <3>3, <3>4, EntsTail
  <2>4. CASE RcIgnored \/ RcRemoved \/ RcAnswer \/ RcAssign
    BY <2>4, EntsRcIgnored, EntsRcRemoved, EntsRcAnswer, EntsRcAssign
  <2>5. CASE IndDropped \/ IndTaken \/ IndRnr
    <3>1. PICK m : m = Head(indRing) OBVIOUS
    <3>2. Dispatch("ind", m) BY <2>5, <3>1 DEF IndDropped, IndTaken, IndRnr
    <3>3. UNCHANGED <<wait, ent, assign, rmPending, fragFree, IdTable>>
      BY <2>5 DEF IndDropped, IndTaken, IndRnr, idVars
    <3>4. ~IsAnswer(m) BY <3>2 DEF Dispatch, IsAnswer
    <3> QED BY <3>2, <3>3, <3>4, EntsTail
  <2> QED BY <1>3, <2>1, <2>2, <2>3, <2>4, <2>5 DEF IndNext
<1>4. CASE DpcStart \/ Oob \/ Count \/ IndEnd \/ OutImpossible \/ OutSync
  <2>1. UNCHANGED <<placeVars, IdTable>>
    BY <1>4 DEF DpcStart, Oob, Count, IndEnd, OutImpossible, OutSync, idVars,
                clientVars, outRing, cardVars, placeVars
  <2> QED BY <2>1, EntsSame
<1>5. CASE OutSystem \/ OutRequest BY <1>5, EntsOutSystem, EntsOutRequest
<1>6. CASE CardNext
  <2>1. CASE CardReads BY <2>1, EntsCardReads
  <2>2. ASSUME NEW e \in Entity, CardAnswers(e) PROVE Ents'
    BY <2>2, EntsCardAssign, EntsCardData, EntsCardRemove DEF CardAnswers
  <2>3. CASE CardStops \/ CardXon \/ CardAck \/ CardInd \/ CardTick \/ CardWarn
    BY <2>3, EntsCardOther
  <2> QED BY <1>6, <2>1, <2>2, <2>3 DEF CardNext
<1> QED BY <1>1, <1>2, <1>3, <1>4, <1>5, <1>6 DEF Next, DpcNext

-----------------------------------------------------------------------------
(* The queues of the host: RNR entries, their headers, acknowledges *)

Kept == /\ bufAck \in Seq(RxBuf) /\ idAck \in Seq(Ids)
        /\ rnrq \in Seq(REntry) /\ timer \in 0..2
        /\ hdrFree \in 0..Hdrs /\ bufFree \in 0..Hdrs
        /\ hdrFree + bufFree + Len(rnrq) = Hdrs
        /\ \A k \in DOMAIN rnrq : rnrq[k].keep = "rx" => rnrq[k].buf # 0

LEMMA RnrTypes ==
    ASSUME Kept
    PROVE  /\ DOMAIN rnrq = 1..Len(rnrq) /\ Len(rnrq) \in Nat
           /\ \A k \in DOMAIN rnrq :
                /\ rnrq[k] \in REntry /\ rnrq[k].Id \in Ids
                /\ rnrq[k].own \in Entity
                /\ rnrq[k].keep \in {"local", "buf", "rx"}
                /\ rnrq[k].ctr \in 0..RnrTicks
                /\ rnrq[k].buf \in RxBuf \cup {0}
                /\ rnrq[k].keep = "rx" => rnrq[k].buf \in RxBuf
<1>1. DOMAIN rnrq = 1..Len(rnrq) /\ Len(rnrq) \in Nat BY DEF Kept
<1>2. \A k \in DOMAIN rnrq : rnrq[k] \in REntry BY ElementOfSeq DEF Kept
<1>3. \A h \in REntry : /\ h.Id \in Ids /\ h.own \in Entity
                        /\ h.keep \in {"local", "buf", "rx"}
                        /\ h.ctr \in 0..RnrTicks /\ h.buf \in RxBuf \cup {0}
  BY DEF REntry
<1> QED BY <1>1, <1>2, <1>3 DEF Kept

\* One entry less
LEMMA LessIs ==
    ASSUME NEW S, NEW s \in Seq(S), NEW k \in DOMAIN s
    PROVE  LET t == SubSeq(s, 1, k - 1) \o SubSeq(s, k + 1, Len(s)) IN
           /\ t \in Seq(S) /\ Len(t) = Len(s) - 1
           /\ \A j \in DOMAIN t : \E i \in DOMAIN s : t[j] = s[i]
<1>1. Len(s) \in Nat /\ DOMAIN s = 1..Len(s) /\ k \in 1..Len(s) OBVIOUS
<1> DEFINE n == Len(s)
           a == SubSeq(s, 1, k - 1)
           b == SubSeq(s, k + 1, n)
<1>2. \A i \in 1..n : s[i] \in S BY ElementOfSeq
<1>3. a \in Seq(S) /\ Len(a) = k - 1 /\ \A i \in 1..(k - 1) : a[i] = s[i]
  <2>1. 1 \in Int /\ k - 1 \in Int /\ \A i \in 1..(k - 1) : s[i] \in S
    BY <1>1, <1>2
  <2>2. /\ SubSeq(s, 1, k - 1) \in Seq(S)
        /\ Len(SubSeq(s, 1, k - 1)) = IF 1 <= k - 1 THEN k - 1 - 1 + 1 ELSE 0
        /\ \A i \in 1..(k - 1 - 1 + 1) : SubSeq(s, 1, k - 1)[i] = s[1 + i - 1]
    BY ONLY <2>1, SubSeqProperties
  <2>3. \A i \in 1..(k - 1) : 1 + i - 1 = i /\ i \in 1..(k - 1 - 1 + 1)
    BY <1>1
  <2> QED BY <1>1, <2>2, <2>3
<1>4. b \in Seq(S) /\ Len(b) = n - k /\ \A i \in 1..(n - k) : b[i] = s[k + i]
  <2>1. k + 1 \in Int /\ n \in Int /\ \A i \in (k + 1)..n : s[i] \in S
    BY <1>1, <1>2
  <2>2. /\ SubSeq(s, k + 1, n) \in Seq(S)
        /\ Len(SubSeq(s, k + 1, n)) = IF k + 1 <= n THEN n - (k + 1) + 1 ELSE 0
        /\ \A i \in 1..(n - (k + 1) + 1) :
             SubSeq(s, k + 1, n)[i] = s[k + 1 + i - 1]
    BY ONLY <2>1, SubSeqProperties
  <2>3. \A i \in 1..(n - k) : k + 1 + i - 1 = k + i
                              /\ i \in 1..(n - (k + 1) + 1)
    BY <1>1
  <2> QED BY <1>1, <2>2, <2>3
<1> HIDE DEF a, b, n
<1>5. PICK u \in Seq(S), v \in Seq(S) : u = a /\ v = b BY <1>3, <1>4
<1>6. u \o v \in Seq(S) /\ Len(u \o v) = Len(u) + Len(v) BY ConcatProperties
<1>7. SeqSet(u \o v) = SeqSet(u) \cup SeqSet(v) BY ConcatSet
<1>8. SeqSet(u) \subseteq SeqSet(s)
  <2>1. DOMAIN u = 1..(k - 1) BY <1>1, <1>3, <1>5
  <2>2. \A i \in DOMAIN u : i \in DOMAIN s /\ u[i] = s[i]
    BY <2>1, <1>1, <1>3, <1>5
  <2> QED BY <2>2 DEF SeqSet
<1>9. SeqSet(v) \subseteq SeqSet(s)
  <2>1. DOMAIN v = 1..(n - k) BY <1>1, <1>4, <1>5
  <2>2. \A i \in DOMAIN v : k + i \in DOMAIN s /\ v[i] = s[k + i]
    BY <2>1, <1>1, <1>4, <1>5 DEF n
  <2> QED BY <2>2 DEF SeqSet
<1>10. \A j \in DOMAIN (u \o v) : \E i \in DOMAIN s : (u \o v)[j] = s[i]
  BY <1>7, <1>8, <1>9 DEF SeqSet
<1>11. Len(u \o v) = Len(s) - 1 BY <1>1, <1>3, <1>4, <1>5, <1>6 DEF n
<1> QED BY <1>5, <1>6, <1>10, <1>11 DEF a, b, n

\* cancel_rnr_on_remove keeps the number of headers.
LEMMA KeptCancel ==
    ASSUME Kept, NEW d, CancelRnr(d), idAck' = idAck
    PROVE  Kept'
<1>1. CASE WithId(d) = {}
  BY <1>1 DEF CancelRnr, rnrVars, Kept
<1>2. CASE WithId(d) # {}
  <2>1. PICK k \in DOMAIN rnrq :
          /\ rnrq' = SubSeq(rnrq, 1, k - 1) \o SubSeq(rnrq, k + 1, Len(rnrq))
          /\ FreeEntry(rnrq[k])
          /\ timer' = StopTimer(rnrq', FALSE)
    BY <1>2 DEF CancelRnr, WithId
  <2>2. /\ rnrq' \in Seq(REntry) /\ Len(rnrq') = Len(rnrq) - 1
        /\ \A j \in DOMAIN rnrq' : \E i \in DOMAIN rnrq : rnrq'[j] = rnrq[i]
    <3>1. PICK q \in Seq(REntry) : q = rnrq BY DEF Kept
    <3>2. k \in DOMAIN q BY <3>1
    <3>3. LET t == SubSeq(q, 1, k - 1) \o SubSeq(q, k + 1, Len(q)) IN
          /\ t \in Seq(REntry) /\ Len(t) = Len(q) - 1
          /\ \A j \in DOMAIN t : \E i \in DOMAIN q : t[j] = q[i]
      BY <3>2, LessIs
    <3> QED BY <2>1, <3>1, <3>3
  <2>3. KeptBuffer(rnrq[k]) \in Seq(RxBuf)
    <3>1. rnrq[k].keep = "rx" => rnrq[k].buf \in RxBuf BY RnrTypes
    <3> QED BY <3>1 DEF KeptBuffer
  <2>4. bufAck' \in Seq(RxBuf)
    <3>1. bufAck' = bufAck \o KeptBuffer(rnrq[k]) BY <2>1 DEF FreeEntry
    <3> QED BY <3>1, <2>3, ConcatProperties DEF Kept
  <2>5. timer' \in 0..2 BY <2>1 DEF StopTimer, Kept
  <2>6. /\ bufFree' = IF rnrq[k].keep = "buf" THEN bufFree + 1 ELSE bufFree
        /\ hdrFree' = IF rnrq[k].keep = "buf" THEN hdrFree ELSE hdrFree + 1
    BY <2>1 DEF FreeEntry
  <2>7. Hdrs \in Nat BY VidiAssumption
  <2>8. k \in 1..Len(rnrq) /\ Len(rnrq) \in Nat BY RnrTypes
  <2>9. /\ hdrFree' \in 0..Hdrs /\ bufFree' \in 0..Hdrs
        /\ hdrFree' + bufFree' + Len(rnrq') = Hdrs
    <3>1. PICK H \in Nat : H = Hdrs BY <2>7
    <3>2. PICK h \in Nat, g \in Nat, n \in Nat :
            h = hdrFree /\ g = bufFree /\ n = Len(rnrq)
      <4>1. hdrFree \in Nat BY <2>7 DEF Kept
      <4>2. bufFree \in Nat BY <2>7 DEF Kept
      <4>3. Len(rnrq) \in Nat BY <2>8
      <4> QED BY <4>1, <4>2, <4>3
    <3>3. n >= 1 BY <2>8, <3>2
    <3>4. h + g + n = H BY <3>1, <3>2 DEF Kept
    <3>8. /\ bufFree' = IF rnrq[k].keep = "buf" THEN g + 1 ELSE g
          /\ hdrFree' = IF rnrq[k].keep = "buf" THEN h ELSE h + 1
      BY <2>6, <3>2
    <3>9. hdrFree' \in Nat /\ bufFree' \in Nat BY <3>8
    <3>5. PICK x \in Nat, y \in Nat : x = hdrFree' /\ y = bufFree' BY <3>9
    <3>6. x + y = h + g + 1 BY <3>5, <3>8
    <3>7. x \in 0..H /\ y \in 0..H /\ x + y + (n - 1) = H
      BY <3>3, <3>4, <3>6
    <3> QED BY <2>2, <3>1, <3>2, <3>5, <3>7
  <2>10. \A j \in DOMAIN rnrq' : rnrq'[j].keep = "rx" => rnrq'[j].buf # 0
    BY <2>2 DEF Kept
  <2> QED BY <2>2, <2>4, <2>5, <2>9, <2>10 DEF Kept
<1> QED BY <1>1, <1>2

\* A function on 1..n as a sequence
LEMMA MadeSeq ==
    ASSUME NEW T, NEW n \in Nat, NEW f \in [1..n -> T]
    PROVE  f \in Seq(T) /\ Len(f) = n
OBVIOUS

\* diva_process_rnr_ind keeps the number of headers: what leaves the queue is
\* what goes to the two free queues.
LEMMA KeptProcess ==
    ASSUME Kept, NEW d, NEW a, ProcessRnr(d, a)
    PROVE  /\ rnrq' \in Seq(REntry)
           /\ bufAck' \in Seq(RxBuf) /\ idAck' \in Seq(Ids)
           /\ hdrFree' \in 0..Hdrs /\ bufFree' \in 0..Hdrs
           /\ hdrFree' + bufFree' + Len(rnrq') = Hdrs
           /\ \A k \in DOMAIN rnrq' : rnrq'[k].keep = "rx" => rnrq'[k].buf # 0
<1> DEFINE Asked(k) == d = 0 \/ rnrq[k].Id = d
           Kn(k) == IdTable[rnrq[k].Id] # Null
           Later(k) == IdTable[rnrq[k].Id] \in DSIG /\ rnrq[k].ctr + 1 < RnrTicks
           Stays(k) == \/ ~Asked(k)
                       \/ Kn(k) /\ (Later(k) \/ a[k] = "rnr")
           After(k) == IF ~Asked(k) THEN rnrq[k]
                       ELSE IF Later(k) THEN [rnrq[k] EXCEPT !.ctr = @ + 1]
                       ELSE [rnrq[k] EXCEPT !.ctr = 0]
           S == {k \in DOMAIN rnrq : Stays(k)}
           T == {k \in DOMAIN rnrq : ~Stays(k) /\ Kn(k)}
           C == {k \in DOMAIN rnrq : ~Stays(k) /\ rnrq[k].keep = "buf"}
           K == {k \in DOMAIN rnrq : ~Stays(k) /\ rnrq[k].keep = "rx"}
<1>1. /\ rnrq' = [k \in DOMAIN InOrder(S) |-> After(InOrder(S)[k])]
      /\ idAck' = idAck \o [k \in DOMAIN InOrder(T) |-> rnrq[InOrder(T)[k]].Id]
      /\ bufAck' = bufAck \o [k \in DOMAIN InOrder(K) |-> rnrq[InOrder(K)[k]].buf]
      /\ bufFree' = bufFree + Cardinality(C)
      /\ hdrFree' = hdrFree + Len(rnrq) - Len(InOrder(S)) - Cardinality(C)
  BY DEF ProcessRnr, Among
<1>2. PICK n \in Nat : n = Len(rnrq) BY RnrTypes
<1>3. DOMAIN rnrq = 1..n BY <1>2, RnrTypes
<1>4. S \in SUBSET (1..n) /\ T \in SUBSET (1..n) /\ C \in SUBSET (1..n)
      /\ K \in SUBSET (1..n) /\ S \cap C = {}
  BY <1>3
<1>5. \A k \in 1..n : After(k) \in REntry
  <2> SUFFICES ASSUME NEW k \in 1..n PROVE After(k) \in REntry OBVIOUS
  <2>1. PICK h \in REntry : h = rnrq[k] BY <1>3, RnrTypes
  <2>2. RnrTicks \in Nat BY VidiAssumption
  <2>3. h.ctr \in 0..RnrTicks BY DEF REntry
  <2>4. \A c \in 0..RnrTicks : [h EXCEPT !.ctr = c] \in REntry BY DEF REntry
  <2>5. Later(k) => h.ctr + 1 \in 0..RnrTicks BY <2>1, <2>2, <2>3
  <2>6. 0 \in 0..RnrTicks BY <2>2
  <2> HIDE DEF Asked, Later
  <2> QED BY <2>1, <2>4, <2>5, <2>6
<1>6. \A k \in 1..n : After(k).keep = "rx" => After(k).buf # 0
  <2> SUFFICES ASSUME NEW k \in 1..n PROVE After(k).keep = "rx" => After(k).buf # 0
    OBVIOUS
  <2>1. PICK h \in REntry : h = rnrq[k] BY <1>3, RnrTypes
  <2>2. \A c : [h EXCEPT !.ctr = c].keep = h.keep
               /\ [h EXCEPT !.ctr = c].buf = h.buf
    BY DEF REntry
  <2>3. h.keep = "rx" => h.buf # 0 BY <1>3, <2>1 DEF Kept
  <2> HIDE DEF Asked, Later
  <2> QED BY <2>1, <2>2, <2>3
<1>7. \A k \in T : rnrq[k].Id \in Ids BY RnrTypes
<1>8. \A k \in K : rnrq[k].buf \in RxBuf BY RnrTypes
<1> HIDE DEF Asked, Kn, Later, Stays, After, S, T, C, K
<1>9. PICK s \in Seq(S) : s = InOrder(S) /\ Len(s) = Cardinality(S)
  BY <1>4, InOrderIs
<1>10. Cardinality(S) \in 0..n /\ Cardinality(C) \in Nat
       /\ Cardinality(S) + Cardinality(C) <= n
  <2>1. IsFiniteSet(S) /\ IsFiniteSet(C) /\ Cardinality(S) \in Nat
        /\ Cardinality(C) \in Nat
    BY <1>4, InOrderIs
  <2>2. Cardinality(S \cup C) = Cardinality(S) + Cardinality(C) - Cardinality({})
    BY <2>1, <1>4, FS_Union
  <2>3. IsFiniteSet(1..n) /\ Cardinality(1..n) = n
    <3>1. IsFiniteSet(1..n) /\ Cardinality(1..n) = IF 1 > n THEN 0 ELSE n - 1 + 1
      BY FS_Interval
    <3> QED BY <3>1
  <2>4. S \cup C \in SUBSET (1..n) BY <1>4
  <2>5. Cardinality(S \cup C) <= n BY <2>3, <2>4, FS_Subset
  <2>6. Cardinality({}) = 0 BY FS_EmptySet
  <2> QED BY <2>1, <2>2, <2>5, <2>6
<1>11. DOMAIN s = 1..Cardinality(S) BY <1>9, <1>10
<1>12. \A k \in DOMAIN s : s[k] \in S BY ElementOfSeq
<1>13. rnrq' \in Seq(REntry) /\ Len(rnrq') = Cardinality(S)
  <2>1. PICK c \in Nat : c = Cardinality(S) BY <1>10
  <2>2. rnrq' = [k \in 1..c |-> After(s[k])] BY <1>1, <1>9, <1>11, <2>1
  <2>3. \A k \in 1..c : After(s[k]) \in REntry BY <1>4, <1>5, <1>11, <1>12, <2>1
  <2>4. PICK f \in [1..c -> REntry] : f = rnrq' BY <2>2, <2>3
  <2> QED BY <2>1, <2>4, MadeSeq
<1>14. \A k \in DOMAIN rnrq' : rnrq'[k].keep = "rx" => rnrq'[k].buf # 0
  BY <1>1, <1>4, <1>6, <1>9, <1>12
<1>15. idAck' \in Seq(Ids)
  <2>1. PICK t \in Seq(T) : t = InOrder(T) BY <1>4, InOrderIs
  <2>2. \A k \in 1..Len(t) : t[k] \in T BY ElementOfSeq
  <2>3. PICK f : f = [k \in 1..Len(t) |-> rnrq[t[k]].Id] OBVIOUS
  <2>4. f \in [1..Len(t) -> Ids] BY <2>2, <2>3, <1>7
  <2>5. f \in Seq(Ids) BY <2>4, MadeSeq
  <2>6. idAck' = idAck \o f BY <1>1, <2>1, <2>3, SMTT(30)
  <2> QED BY <2>5, <2>6, ConcatProperties DEF Kept
<1>16. bufAck' \in Seq(RxBuf)
  <2>1. PICK t \in Seq(K) : t = InOrder(K) BY <1>4, InOrderIs
  <2>2. \A k \in 1..Len(t) : t[k] \in K BY ElementOfSeq
  <2>3. PICK f : f = [k \in 1..Len(t) |-> rnrq[t[k]].buf] OBVIOUS
  <2>4. f \in [1..Len(t) -> RxBuf] BY <2>2, <2>3, <1>8
  <2>5. f \in Seq(RxBuf) BY <2>4, MadeSeq
  <2>6. bufAck' = bufAck \o f BY <1>1, <2>1, <2>3, SMTT(30)
  <2> QED BY <2>5, <2>6, ConcatProperties DEF Kept
<1>17. /\ hdrFree' \in 0..Hdrs /\ bufFree' \in 0..Hdrs
       /\ hdrFree' + bufFree' + Len(rnrq') = Hdrs
  <2>1. PICK x \in Nat, y \in Nat : x = Cardinality(S) /\ y = Cardinality(C)
    BY <1>10
  <2>2. bufFree' = bufFree + y /\ hdrFree' = hdrFree + n - x - y
    BY <1>1, <1>2, <1>9, <2>1
  <2>3. hdrFree \in Nat /\ bufFree \in Nat /\ Hdrs \in Nat
        /\ hdrFree + bufFree + n = Hdrs
    BY <1>2, VidiAssumption DEF Kept
  <2>4. x + y <= n /\ Len(rnrq') = x BY <1>10, <1>13, <2>1
  <2> QED BY <2>2, <2>3, <2>4
<1> QED BY <1>13, <1>14, <1>15, <1>16, <1>17

\* An indication that is taken from the ring
LEMMA IndIs ==
    ASSUME Types, Locals, BigHasBuf, NEW m, Dispatch("ind", m)
    PROVE  /\ m \in IndType /\ m.Id \in Ids /\ m.own \in Entity
           /\ m.buf \in RxBuf \cup {0} /\ m.big \in BOOLEAN
           /\ m.big => m.buf # 0
<1>1. indRing # <<>> /\ m = Head(indRing) /\ m.k = "ind" /\ m \in RingType
  BY Dispatched
<1>2. m \in IndType BY <1>1, RingKinds
<1>3. 1 \in DOMAIN indRing /\ m = indRing[1] BY <1>1, TailIs DEF Types
<1>4. m.Id \in Ids /\ m.own \in Entity /\ m.buf \in RxBuf \cup {0}
      /\ m.big \in BOOLEAN
  BY <1>2 DEF IndType
<1> QED BY <1>1, <1>2, <1>3, <1>4 DEF BigHasBuf

\* vidi_save_rnr_ind takes a header from one of the two free queues.
LEMMA KeptSave ==
    ASSUME Kept, NEW m, m.Id \in Ids, m.own \in Entity,
           m.buf \in RxBuf \cup {0}, m.big \in BOOLEAN, m.big => m.buf # 0,
           SaveRnr(m)
    PROVE  Kept'
<1>0. 0 \notin RxBuf /\ Hdrs \in Nat /\ RnrTicks \in Nat BY VidiAssumption
<1>1. CASE Lost(m)
  <2>1. idAck' \in Seq(Ids) BY <1>1, AppendProperties DEF Lost, Kept
  <2>2. bufAck' \in Seq(RxBuf) BY <1>1, AppendProperties DEF Lost, Kept
  <2>3. UNCHANGED rnrVars BY <1>1 DEF Lost
  <2> QED BY <2>1, <2>2, <2>3 DEF rnrVars, Kept
<1>2. ASSUME NEW keep \in {"local", "buf", "rx"}, SaveAs(m, keep),
             keep = "rx" => m.big, OldBuffer \/ NewHeader
      PROVE  Kept'
  <2>1. PICK h : h = Entry(m, keep) OBVIOUS
  <2>2. h \in REntry
    <3>1. 0 \in 0..RnrTicks BY <1>0
    <3> QED BY <2>1, <3>1 DEF Entry, REntry
  <2>3. h.keep = "rx" => h.buf # 0 BY <1>2, <2>1 DEF Entry
  <2>4. rnrq' = Append(rnrq, h) BY <1>2, <2>1 DEF SaveAs
  <2>5. /\ rnrq' \in Seq(REntry) /\ Len(rnrq') = Len(rnrq) + 1
        /\ DOMAIN rnrq = 1..Len(rnrq)
        /\ DOMAIN rnrq' = 1..(Len(rnrq) + 1) /\ Len(rnrq) \in Nat
        /\ \A k \in 1..Len(rnrq) : rnrq'[k] = rnrq[k]
        /\ rnrq'[Len(rnrq) + 1] = h
    BY <2>2, <2>4, AppendIs DEF Kept
  <2>6. \A k \in DOMAIN rnrq' : rnrq'[k].keep = "rx" => rnrq'[k].buf # 0
    <3>1. \A k \in DOMAIN rnrq' : k \in DOMAIN rnrq \/ k = Len(rnrq) + 1
      BY <2>5
    <3> QED BY <2>3, <2>5, <3>1 DEF Kept
  <2>7. bufAck' \in Seq(RxBuf) BY <1>2, AppendProperties DEF SaveAs, Kept
  <2>8. idAck' \in Seq(Ids) BY <1>2 DEF SaveAs, Kept
  <2>9. timer' \in 0..2 BY <1>2 DEF SaveAs, Kept
  <2>10. PICK b \in Nat, n \in Nat, x \in Nat :
           b = bufFree /\ n = hdrFree /\ x = Len(rnrq)
    <3>1. hdrFree \in Nat BY <1>0 DEF Kept
    <3>2. bufFree \in Nat BY <1>0 DEF Kept
    <3> QED BY <2>5, <3>1, <3>2
  <2>11. b + n + x = Hdrs BY <1>0, <2>10 DEF Kept
  <2>12. \/ hdrFree' = n - 1 /\ n > 0 /\ bufFree' = b
         \/ bufFree' = b - 1 /\ b > 0 /\ hdrFree' = n
    BY <1>2, <2>10 DEF OldBuffer, NewHeader
  <2>13. /\ hdrFree' \in 0..Hdrs /\ bufFree' \in 0..Hdrs
         /\ hdrFree' + bufFree' + (x + 1) = Hdrs
    <3>1. PICK H \in Nat : H = Hdrs BY <1>0
    <3>2. b + n + x = H BY <2>11, <3>1
    <3>3. CASE hdrFree' = n - 1 /\ n > 0 /\ bufFree' = b BY <3>1, <3>2, <3>3
    <3>4. CASE bufFree' = b - 1 /\ b > 0 /\ hdrFree' = n BY <3>1, <3>2, <3>4
    <3> QED BY <2>12, <3>3, <3>4
  <2> QED BY <2>5, <2>6, <2>7, <2>8, <2>9, <2>10, <2>13 DEF Kept
<1> QED BY <1>1, <1>2 DEF SaveRnr

keptVars == <<bufAck, idAck, rnrq, timer, hdrFree, bufFree>>

LEMMA KeptSame ==
    ASSUME Kept, UNCHANGED keptVars
    PROVE  Kept'
BY DEF Kept, keptVars

LEMMA KeptNext ==
    ASSUME Types, Locals, BigHasBuf, Kept, [Next]_vars
    PROVE  Kept'
<1>1. CASE UNCHANGED vars
  BY <1>1, KeptSame DEF vars, ackVars, rnrVars, keptVars
<1>2. CASE ClientNext
  BY <1>2, KeptSame DEF ClientNext, Request, Xon, ackVars, rnrVars, keptVars
<1>3. CASE SysAckReq \/ SysState \/ RcIgnored \/ RcAnswer \/ RcAssign
  BY <1>3, KeptSame DEF SysAckReq, SysState, RcIgnored, RcAnswer, RcAssign,
                        ackVars, rnrVars, keptVars
<1>4. CASE SysRnrInd
  <2>1. PICK a : ProcessRnr(0, a) BY <1>4 DEF SysRnrInd
  <2>2. timer' \in 0..2 BY <1>4 DEF SysRnrInd, StopTimer, Kept
  <2> QED BY <2>1, <2>2, KeptProcess DEF Kept
<1>5. CASE RcRemoved
  <2>1. PICK d : CancelRnr(d) BY <1>5 DEF RcRemoved
  <2>2. idAck' = idAck BY <1>5 DEF RcRemoved
  <2> QED BY <2>1, <2>2, KeptCancel
<1>6. CASE IndDropped \/ IndTaken
  <2>1. PICK m : /\ Dispatch("ind", m) /\ AckBuf(m)
                 /\ idAck' = idAck \/ idAck' = Append(idAck, m.Id)
                 /\ UNCHANGED rnrVars
    BY <1>6 DEF IndDropped, IndTaken
  <2>2. m.Id \in Ids /\ m.buf \in RxBuf \cup {0} BY <2>1, IndIs
  <2>3. idAck' \in Seq(Ids)
    <3>1. PICK s \in Seq(Ids), d \in Ids : s = idAck /\ d = m.Id
      BY <2>2 DEF Kept
    <3>2. Append(s, d) \in Seq(Ids) BY AppendProperties
    <3> QED BY <2>1, <3>1, <3>2
  <2>4. bufAck' \in Seq(RxBuf)
    BY <2>1, <2>2, AppendProperties DEF Kept, AckBuf
  <2> QED BY <2>1, <2>3, <2>4 DEF rnrVars, Kept
<1>7. CASE IndRnr
  <2>1. PICK m : Dispatch("ind", m) /\ SaveRnr(m) BY <1>7 DEF IndRnr
  <2>2. /\ m.Id \in Ids /\ m.own \in Entity /\ m.buf \in RxBuf \cup {0}
        /\ m.big \in BOOLEAN /\ (m.big => m.buf # 0)
    BY <2>1, IndIs
  <2> QED BY <2>1, <2>2, KeptSave
<1>8. CASE Oob
  <2>1. PICK d, a : ProcessRnr(d, a) BY <1>8 DEF Oob
  <2>2. timer' = timer BY <1>8 DEF Oob
  <2> QED BY <2>1, <2>2, KeptProcess DEF Kept
<1>9. CASE DpcStart \/ Count \/ IndEnd \/ OutImpossible \/ OutSync
  BY <1>9, KeptSame DEF DpcStart, Count, IndEnd, OutImpossible, OutSync,
                        ackVars, rnrVars, keptVars
<1>10. CASE OutSystem
  <2>1. bufAck' \in Seq(RxBuf) /\ idAck' \in Seq(Ids) /\ timer' \in 0..2
    BY <1>10, OutSystemIs
  <2>2. UNCHANGED <<rnrq, hdrFree, bufFree>> BY <1>10 DEF OutSystem
  <2> QED BY <2>1, <2>2 DEF Kept
<1>11. CASE OutRequest
  <2>1. idAck' = idAck BY <1>11 DEF OutRequest
  <2>2. (\E d : CancelRnr(d)) \/ UNCHANGED <<rnrVars, bufAck>>
    BY <1>11 DEF OutRequest
  <2>3. UNCHANGED <<rnrVars, bufAck>> => Kept'
    BY <2>1, KeptSame DEF rnrVars, keptVars
  <2> QED BY <2>1, <2>2, <2>3, KeptCancel
<1>12. CASE CardNext
  <2>1. UNCHANGED <<ackVars, rnrVars>>
    BY <1>12 DEF CardNext, CardReads, CardSystem, CardRequest, CardTake,
       CardStops, CardAnswers, CardAssign, CardData, CardRemove, CardXon,
       CardAck, CardInd, CardTick, CardWarn, CardJob, CardPost, HostFrame
  <2> QED BY <2>1, KeptSame DEF ackVars, rnrVars, keptVars
<1> QED BY <1>1, <1>2, <1>3, <1>4, <1>5, <1>6, <1>7, <1>8, <1>9, <1>10,
           <1>11, <1>12 DEF Next, DpcNext, IndNext

-----------------------------------------------------------------------------
(* The two rings and what host and card count about them *)

Rings ==
    /\ reqRing \in Seq(ReqType) /\ indRing \in Seq(RingType)
    /\ staged \in 0..Len(reqRing) /\ pend \in 0..ReqMax
    /\ done \in Nat /\ indFree \in 0..IndMax
    /\ nrInd \in 0..IndMax /\ nr \in 0..IndMax
    /\ nr <= nrInd /\ nr <= Len(indRing)
    /\ RequestCredits /\ IndicationCredits

ringVars == <<reqRing, indRing, staged, pend, done, indFree, nrInd, nr>>

LEMMA RingsSame ==
    ASSUME Rings, UNCHANGED ringVars
    PROVE  Rings'
BY DEF Rings, ringVars, RequestCredits, IndicationCredits

\* The counters as numbers
LEMMA RingNumbers ==
    ASSUME Rings
    PROVE  /\ pend \in Nat /\ ReqMax \in Nat /\ IndMax \in Nat /\ nrInd \in Nat
           /\ nr \in Nat /\ indFree \in Nat /\ staged \in Nat /\ done \in Nat
           /\ Len(reqRing) \in Nat /\ Len(indRing) \in Nat
           /\ SumOf(reqRing, "ack_ind") \in Nat
           /\ SumOf(indRing, "ack_req") \in Nat
<1>1. ReqMax \in Nat /\ IndMax \in Nat BY VidiAssumption
<1>2. SumOf(reqRing, "ack_ind") \in Nat
  <2>1. \A x \in ReqType : Amount(x, "ack_ind") \in Nat BY Amounts
  <2>2. SumTo(reqRing, "ack_ind")[Len(reqRing)] \in Nat
    <3>1. Summable(reqRing, "ack_ind")
      BY <2>1, ElementOfSeq DEF Summable, Rings
    <3>2. Len(reqRing) \in 0..Len(reqRing) BY <3>1 DEF Summable
    <3> QED BY <3>1, <3>2, SumStep
  <2> QED BY <2>2 DEF SumOf
<1>3. SumOf(indRing, "ack_req") \in Nat
  <2>1. \A x \in RingType : Amount(x, "ack_req") \in Nat BY Amounts
  <2>2. SumTo(indRing, "ack_req")[Len(indRing)] \in Nat
    <3>1. Summable(indRing, "ack_req")
      BY <2>1, ElementOfSeq DEF Summable, Rings
    <3>2. Len(indRing) \in 0..Len(indRing) BY <3>1 DEF Summable
    <3> QED BY <3>1, <3>2, SumStep
  <2> QED BY <2>2 DEF SumOf
<1>4. pend \in Nat /\ done \in Nat BY <1>1 DEF Rings
<1>5. nrInd \in Nat /\ nr \in Nat BY <1>1 DEF Rings
<1>6. indFree \in Nat BY <1>1 DEF Rings
<1>7. Len(reqRing) \in Nat /\ Len(indRing) \in Nat BY DEF Rings
<1>8. staged \in Nat BY <1>7 DEF Rings
<1> QED BY <1>1, <1>2, <1>3, <1>4, <1>5, <1>6, <1>7, <1>8

\* A message of the card is taken; if it acknowledges requests, as many less
\* are pending.
LEMMA RingsTaken ==
    ASSUME Rings, indRing # <<>>, nr > 0, NEW m, m = Head(indRing),
           indRing' = Tail(indRing), nr' = nr - 1,
           pend' = pend - Amount(m, "ack_req"),
           UNCHANGED <<reqRing, staged, done, indFree, nrInd>>
    PROVE  Rings'
<1>1. indRing \in Seq(RingType) BY DEF Rings
<1>2. Tail(indRing) \in Seq(RingType) /\ Len(Tail(indRing)) = Len(indRing) - 1
  BY <1>1, TailIs
<1>3. PICK a \in Nat, s \in Nat : /\ a = Amount(m, "ack_req")
                                  /\ s = SumOf(Tail(indRing), "ack_req")
                                  /\ SumOf(indRing, "ack_req") = a + s
  <2>1. \A x \in RingType : Amount(x, "ack_req") \in Nat BY Amounts
  <2> QED BY <1>1, <2>1, SumTail, SMTT(30)
<1>4. PICK p \in Nat, l \in Nat, d \in Nat, R \in Nat :
        p = pend /\ l = Len(reqRing) /\ d = done /\ R = ReqMax
  BY RingNumbers
<1>5. p = l + d + (a + s) /\ p <= R
  BY <1>3, <1>4 DEF Rings, RequestCredits
<1>6. p - a = l + d + s /\ p - a \in 0..R BY <1>5
<1>7. RequestCredits' /\ pend' \in 0..ReqMax
  BY <1>3, <1>4, <1>6 DEF RequestCredits
<1>8. PICK x \in Nat, y \in Nat, f \in Nat, n \in Nat, z \in Nat, I \in Nat :
        /\ x = nrInd /\ y = nr /\ f = indFree /\ n = Len(indRing)
        /\ z = SumOf(reqRing, "ack_ind") /\ I = IndMax
  BY RingNumbers
<1>9. f + n + (x - y) + z = I /\ y <= x /\ y <= n /\ y > 0 /\ y <= I
  BY <1>8 DEF Rings, IndicationCredits
<1>10. f + (n - 1) + (x - (y - 1)) + z = I /\ y - 1 \in 0..I
       /\ y - 1 <= x /\ y - 1 <= n - 1
  BY <1>9
<1>11. IndicationCredits' /\ nr' \in 0..IndMax /\ nr' <= nrInd'
       /\ nr' <= Len(indRing')
  BY <1>2, <1>8, <1>10 DEF IndicationCredits
<1> QED BY <1>2, <1>7, <1>11 DEF Rings

\* The card posts a message; if it acknowledges, then all requests it has read.
LEMMA RingsPosted ==
    ASSUME Rings, NEW m \in RingType, CardPost(m), UNCHANGED <<nrInd, nr, staged>>,
           done' = done - Amount(m, "ack_req"),
           Amount(m, "ack_req") \in 0..done
    PROVE  Rings'
<1>1. /\ indRing' = Append(indRing, m) /\ indFree' = indFree - 1
      /\ indFree > 0
      /\ UNCHANGED <<reqRing, pend, staged>>
  <2>1. indFree \in Nat BY RingNumbers
  <2>2. indFree > (IF m.k = "ack_req" THEN 0 ELSE 1) BY PostIs
  <2>3. indFree > 0
    <3>1. CASE m.k = "ack_req" BY <2>1, <2>2, <3>1
    <3>2. CASE m.k # "ack_req" BY <2>1, <2>2, <3>2
    <3> QED BY <3>1, <3>2
  <2>4. /\ indRing' = Append(indRing, m) /\ indFree' = indFree - 1
        /\ UNCHANGED <<reqRing, pend, staged>>
    BY PostIs
  <2> QED BY <2>3, <2>4
<1>2. indRing \in Seq(RingType) BY DEF Rings
<1>3. indRing' \in Seq(RingType) /\ Len(indRing') = Len(indRing) + 1
  BY <1>1, <1>2, AppendIs
<1>4. PICK a \in Nat, s \in Nat, d \in Nat :
        /\ a = Amount(m, "ack_req") /\ s = SumOf(indRing, "ack_req")
        /\ d = done
  <2>1. \A x \in RingType : Amount(x, "ack_req") \in Nat BY Amounts
  <2> QED BY <2>1, RingNumbers
<1>5. SumOf(indRing', "ack_req") = s + a
  <2>1. \A x \in RingType : Amount(x, "ack_req") \in Nat BY Amounts
  <2> QED BY <1>1, <1>2, <1>4, <2>1, SumAppend
<1>6. PICK p \in Nat, l \in Nat : p = pend /\ l = Len(reqRing)
  BY RingNumbers
<1>7. p = l + d + s /\ a <= d BY <1>4, <1>6 DEF Rings, RequestCredits
<1>8. p = l + (d - a) + (s + a) /\ d - a \in Nat BY <1>7
<1>9. RequestCredits' /\ done' \in Nat
  BY <1>1, <1>4, <1>5, <1>6, <1>8 DEF RequestCredits
<1>10. PICK x \in Nat, y \in Nat, f \in Nat, n \in Nat, z \in Nat, I \in Nat :
        /\ x = nrInd /\ y = nr /\ f = indFree /\ n = Len(indRing)
        /\ z = SumOf(reqRing, "ack_ind") /\ I = IndMax
  BY RingNumbers
<1>11. f + n + (x - y) + z = I /\ y <= n /\ f > 0 /\ f <= I
  BY <1>1, <1>10 DEF Rings, IndicationCredits
<1>12. (f - 1) + (n + 1) + (x - y) + z = I /\ y <= n + 1 /\ f - 1 \in 0..I
  BY <1>11
<1>13. IndicationCredits' /\ nr' <= Len(indRing') /\ indFree' \in 0..IndMax
  BY <1>1, <1>3, <1>10, <1>12 DEF IndicationCredits
<1> QED BY <1>1, <1>3, <1>9, <1>13 DEF Rings

\* The card takes a message from the request ring; an acknowledge gives it
\* room for as many indications.
LEMMA RingsRead ==
    ASSUME Rings, NEW m, CardTake(m), m = Head(reqRing),
           indFree' = indFree + Amount(m, "ack_ind"), UNCHANGED <<nrInd, nr>>
    PROVE  Rings'
<1>1. /\ reqRing' = Tail(reqRing) /\ done' = done + 1 /\ Len(reqRing) > staged
      /\ UNCHANGED <<indRing, pend, staged, nrInd, nr>>
  BY DEF CardTake, HostFrame
<1>2. reqRing \in Seq(ReqType) BY DEF Rings
<1>3. reqRing # <<>>
  <2>1. staged \in Nat BY RingNumbers
  <2> QED BY <1>1, <1>2, <2>1
<1>4. Tail(reqRing) \in Seq(ReqType) /\ Len(Tail(reqRing)) = Len(reqRing) - 1
  BY <1>2, <1>3, TailIs
<1>5. PICK a \in Nat, s \in Nat : /\ a = Amount(m, "ack_ind")
                                  /\ s = SumOf(Tail(reqRing), "ack_ind")
                                  /\ SumOf(reqRing, "ack_ind") = a + s
  <2>1. \A x \in ReqType : Amount(x, "ack_ind") \in Nat BY Amounts
  <2> QED BY <1>2, <1>3, <2>1, SumTail
<1>6. PICK p \in Nat, l \in Nat, d \in Nat, t \in Nat, g \in Nat :
        /\ p = pend /\ l = Len(reqRing) /\ d = done
        /\ t = SumOf(indRing, "ack_req") /\ g = staged
  BY RingNumbers
<1>7. p = l + d + t /\ l > g BY <1>1, <1>6 DEF Rings, RequestCredits
<1>8. p = (l - 1) + (d + 1) + t /\ g \in 0..(l - 1) /\ d + 1 \in Nat BY <1>7
<1>9. RequestCredits' /\ done' \in Nat /\ staged' \in 0..Len(reqRing')
  BY <1>1, <1>4, <1>6, <1>8 DEF RequestCredits
<1>10. PICK x \in Nat, y \in Nat, f \in Nat, n \in Nat, I \in Nat :
        /\ x = nrInd /\ y = nr /\ f = indFree /\ n = Len(indRing)
        /\ I = IndMax
  BY RingNumbers
<1>11. f + n + (x - y) + (a + s) = I /\ y <= x
  BY <1>5, <1>10 DEF Rings, IndicationCredits
<1>12. (f + a) + n + (x - y) + s = I /\ f + a \in 0..I BY <1>11
<1>13. IndicationCredits' /\ indFree' \in 0..IndMax
  BY <1>1, <1>5, <1>10, <1>12 DEF IndicationCredits
<1> QED BY <1>1, <1>4, <1>9, <1>13 DEF Rings

\* vidi_host_pr_dpc reads the counter of the card: all messages in the ring are
\* to be acknowledged, and no more than the ring holds.
LEMMA RingsCount ==
    ASSUME Rings, Locals, Count
    PROVE  Rings'
<1>1. nr = 0 /\ nr' = Len(indRing) /\ nrInd' = nrInd + Len(indRing)
      /\ UNCHANGED <<reqRing, indRing, staged, pend, done, indFree>>
  BY DEF Count, Locals, outRing, cardVars
<1>2. PICK x \in Nat, f \in Nat, n \in Nat, z \in Nat, I \in Nat :
        /\ x = nrInd /\ f = indFree /\ n = Len(indRing)
        /\ z = SumOf(reqRing, "ack_ind") /\ I = IndMax
  BY RingNumbers
<1>3. f + n + x + z = I
  BY <1>1, <1>2 DEF Rings, IndicationCredits
<1>4. /\ f + n + (x + n - n) + z = I /\ n <= x + n /\ n \in 0..I
      /\ x + n \in 0..I
  BY <1>3
<1>5. /\ IndicationCredits' /\ nr' \in 0..IndMax /\ nrInd' \in 0..IndMax
      /\ nr' <= nrInd' /\ nr' <= Len(indRing')
  BY <1>1, <1>2, <1>4 DEF IndicationCredits
<1>6. RequestCredits' BY <1>1 DEF Rings, RequestCredits
<1> QED BY <1>1, <1>5, <1>6 DEF Rings

LEMMA RingsSystem ==
    ASSUME Rings, Types, Locals, OutSystem
    PROVE  Rings'
<1>1. PICK out \in Seq(SysType), a \in BOOLEAN :
             /\ reqRing' = reqRing \o out /\ staged' = Len(out)
             /\ Len(out) \in 0..(ReqMax - pend)
             /\ pend' = pend + Len(out)
             /\ SumOf(out, "ack_ind") = IF a THEN nrInd ELSE 0
             /\ nrInd' = IF a THEN 0 ELSE nrInd
  BY OutSystemIs
<1>2. /\ nr = 0 /\ UNCHANGED <<indRing, done, indFree, nr>>
  BY DEF OutSystem, Locals, cardVars
<1>3. PICK s \in Seq(ReqType) : s = out
  <2>1. SysType \subseteq ReqType BY Amounts
  <2> QED BY <2>1, SeqMonotonic
<1>4. PICK r \in Seq(ReqType) : r = reqRing BY DEF Rings
<1>5. /\ r \o s \in Seq(ReqType) /\ Len(r \o s) = Len(r) + Len(s)
      /\ SumOf(r \o s, "ack_ind") = SumOf(r, "ack_ind") + SumOf(s, "ack_ind")
  <2>1. \A x \in ReqType : Amount(x, "ack_ind") \in Nat BY Amounts
  <2> QED BY <2>1, SumConcat, ConcatProperties
<1>6. PICK p \in Nat, l \in Nat, d \in Nat, t \in Nat, o \in Nat, R \in Nat :
        /\ p = pend /\ l = Len(r) /\ d = done /\ R = ReqMax
        /\ t = SumOf(indRing, "ack_req") /\ o = Len(s)
  <2>1. Len(s) \in Nat /\ Len(r) \in Nat OBVIOUS
  <2>2. pend \in Nat /\ done \in Nat /\ ReqMax \in Nat
        /\ SumOf(indRing, "ack_req") \in Nat
    BY RingNumbers
  <2> QED BY <2>1, <2>2
<1>7. p = l + d + t /\ o <= R - p
  <2>1. p = l + d + t BY <1>4, <1>6 DEF Rings, RequestCredits
  <2>2. o \in 0..(R - p) BY <1>1, <1>3, <1>6
  <2> QED BY <2>1, <2>2
<1>8. p + o = (l + o) + d + t /\ p + o \in 0..R /\ o \in 0..(l + o) BY <1>7
<1>9. RequestCredits' /\ pend' \in 0..ReqMax /\ staged' \in 0..Len(reqRing')
  BY <1>1, <1>2, <1>3, <1>4, <1>5, <1>6, <1>8 DEF RequestCredits
<1>10. PICK x \in Nat, f \in Nat, n \in Nat, z \in Nat, I \in Nat :
        /\ x = nrInd /\ f = indFree /\ n = Len(indRing)
        /\ z = SumOf(r, "ack_ind") /\ I = IndMax
  <2>1. SumOf(r, "ack_ind") \in Nat BY <1>4, RingNumbers
  <2>2. nrInd \in Nat /\ indFree \in Nat /\ Len(indRing) \in Nat
        /\ IndMax \in Nat
    BY RingNumbers
  <2> QED BY <2>1, <2>2
<1>11. f + n + x + z = I /\ x <= I
  BY <1>2, <1>4, <1>10 DEF Rings, IndicationCredits
<1>12. SumOf(s, "ack_ind") = IF a THEN x ELSE 0 BY <1>1, <1>3, <1>10
<1>13. IndicationCredits'
  <2>1. SumOf(reqRing', "ack_ind") = z + (IF a THEN x ELSE 0)
    BY <1>1, <1>3, <1>4, <1>5, <1>10, <1>12
  <2>2. nrInd' = IF a THEN 0 ELSE x BY <1>1, <1>10
  <2>3. CASE a
    <3>1. SumOf(reqRing', "ack_ind") = z + x /\ nrInd' = 0 BY <2>1, <2>2, <2>3
    <3>2. f + n + (0 - 0) + (z + x) = I BY <1>11
    <3> QED BY <3>1, <3>2, <1>2, <1>10 DEF IndicationCredits
  <2>4. CASE ~a
    <3>1. SumOf(reqRing', "ack_ind") = z /\ nrInd' = x BY <2>1, <2>2, <2>4
    <3>2. f + n + (x - 0) + z = I BY <1>11
    <3> QED BY <3>1, <3>2, <1>2, <1>10 DEF IndicationCredits
  <2> QED BY <2>3, <2>4
<1>14. nrInd' \in 0..IndMax /\ nr' <= nrInd'
  BY <1>1, <1>2, <1>10, <1>11
<1>15. reqRing' \in Seq(ReqType) BY <1>1, <1>3, <1>4, <1>5
<1> QED BY <1>2, <1>9, <1>13, <1>14, <1>15 DEF Rings

LEMMA RingsRequest ==
    ASSUME Rings, Types, Locals, Ents, OutRequest
    PROVE  Rings'
<1>1. PICK e \in {eno}, f \in fragFree \cup {NoFrag} :
        /\ pc = "req" /\ e # Null /\ ReadyCount # 0
        /\ reqRing' = Append(reqRing, ReqMsg(ent[e].Req, ent[e].Id, e, f))
        /\ staged' = staged + 1 /\ pend' = pend + 1
        /\ UNCHANGED <<indRing, done, indFree, nrInd, nr>>
  BY DEF OutRequest, cardVars, Counted, dpcVars
<1>2. e = Head(queue) /\ queue # <<>> BY <1>1 DEF Locals
<1>3. e \in Entity
  <2>1. queue \in Seq(Entity) BY DEF Types, TypeOK
  <2> QED BY <2>1, <1>2, TailIs
<1>4. PICK m : m = ReqMsg(ent[e].Req, ent[e].Id, e, f) OBVIOUS
<1>5. m \in ReqType /\ m.k \in Code
  <2>1. fragFree \subseteq Frag BY DEF Types, TypeOK
  <2>2. f \in Frag \cup {NoFrag} BY <2>1
  <2>3. m \in Host BY <1>3, <1>4, <2>2, EntTypes DEF ReqMsg, Host
  <2>4. m.k \in Code BY <2>3 DEF Host
  <2> QED BY <2>3, <2>4 DEF ReqType
<1>6. Amount(m, "ack_ind") = 0 BY <1>5 DEF Amount, Code
<1>7. /\ reqRing' \in Seq(ReqType) /\ Len(reqRing') = Len(reqRing) + 1
      /\ SumOf(reqRing', "ack_ind") = SumOf(reqRing, "ack_ind") + 0
  <2>1. \A x \in ReqType : Amount(x, "ack_ind") \in Nat BY Amounts
  <2>2. PICK r \in Seq(ReqType) : r = reqRing BY DEF Rings
  <2>3. SumOf(Append(r, m), "ack_ind") = SumOf(r, "ack_ind") + 0
    BY <1>5, <1>6, <2>1, SumAppend
  <2>4. Append(r, m) \in Seq(ReqType) /\ Len(Append(r, m)) = Len(r) + 1
    BY <1>5, AppendIs
  <2> QED BY <1>1, <1>4, <2>2, <2>3, <2>4
<1>8. PICK p \in Nat, l \in Nat, d \in Nat, t \in Nat, g \in Nat, R \in Nat :
        /\ p = pend /\ l = Len(reqRing) /\ d = done /\ R = ReqMax
        /\ t = SumOf(indRing, "ack_req") /\ g = staged
  BY RingNumbers
<1>9. p = l + d + t /\ p < R /\ g <= l
  <2>1. p = l + d + t BY <1>8 DEF Rings, RequestCredits
  <2>2. R - p # 0 BY <1>1, <1>8 DEF Locals
  <2>3. p \in 0..R /\ g \in 0..l BY <1>8 DEF Rings
  <2> QED BY <2>1, <2>2, <2>3
<1>10. p + 1 = (l + 1) + d + t /\ p + 1 \in 0..R /\ g + 1 \in 0..(l + 1)
  BY <1>9
<1>11. RequestCredits' /\ pend' \in 0..ReqMax /\ staged' \in 0..Len(reqRing')
  BY <1>1, <1>7, <1>8, <1>10 DEF RequestCredits
<1>12. IndicationCredits'
  <2>1. SumOf(reqRing', "ack_ind") = SumOf(reqRing, "ack_ind")
    BY <1>7, RingNumbers
  <2> QED BY <1>1, <2>1 DEF Rings, IndicationCredits
<1> QED BY <1>1, <1>7, <1>11, <1>12 DEF Rings

\* Whatever the card does but read, it posts one message.
Answered(j, rc, d, ext) ==
    /\ d \in Ids \cup {0} \/ (d = j.Id /\ j.k # "ASSIGN")
    /\ j.k \in Code
    /\ CardPost(Rc(rc, d, j.own, ext))
    /\ jobs' = jobs \ {j} /\ done' = done

LEMMA CardPosts ==
    ASSUME Types, Ents, CardNext, ~CardReads
    PROVE  \E m \in RingType :
             /\ CardPost(m)
             /\ \/ m.k # "ack_req" /\ done' = done
                \/ m.k = "ack_req" /\ m.n = done /\ done' = 0
             /\ m.k = "ind" /\ m.big => m.buf # 0
             /\ \/ jobs' = jobs
                \/ \E j \in jobs : jobs' = jobs \ {j}
<1>1. PICK st \in [Entity -> Stage] : Placed(st) BY DEF Ents
<1>2. CASE \E e \in Entity : CardAnswers(e)
  <2>1. PICK j \in jobs : CardAssign(j) \/ CardData(j) \/ CardRemove(j)
    BY <1>2 DEF CardAnswers
  <2>2. PICK rc \in {"OK", "OK_FC", "ASSIGN_OK", "ASSIGN_FAIL"} :
        \E d \in Ids \cup {0, j.Id} : \E ext \in {"none", "REMOVE_COMPLETE"} :
          Answered(j, rc, d, ext)
    <3>1. CASE CardAssign(j)
      <4>1. ASSUME NEW d \in Ids,
                   CardJob(j, {"ASSIGN"}, Rc("ASSIGN_OK", d, j.own, "none"))
            PROVE  Answered(j, "ASSIGN_OK", d, "none")
        BY <4>1 DEF CardJob, Code, Answered
      <4>2. ASSUME CardJob(j, {"ASSIGN"}, Rc("ASSIGN_FAIL", 0, j.own, "none"))
            PROVE  Answered(j, "ASSIGN_FAIL", 0, "none")
        BY <4>2 DEF CardJob, Code, Answered
      <4> QED BY <3>1, <4>1, <4>2 DEF CardAssign
    <3>2. CASE CardData(j)
      <4>1. ASSUME NEW rc \in {"OK", "OK_FC"},
                   NEW K \in SUBSET {"DATA", "BIG", "CTRL"},
                   CardJob(j, K, Rc(rc, j.Id, j.own, "none"))
            PROVE  Answered(j, rc, j.Id, "none")
        <5>1. j.k \in {"DATA", "BIG", "CTRL"} BY <4>1 DEF CardJob
        <5> QED BY <4>1, <5>1 DEF CardJob, Code, Answered
      <4>2. \/ CardJob(j, {"DATA", "BIG", "CTRL"}, Rc("OK", j.Id, j.own, "none"))
            \/ CardJob(j, {"DATA", "BIG"}, Rc("OK_FC", j.Id, j.own, "none"))
        BY <3>2 DEF CardData
      <4>3. /\ {"DATA", "BIG", "CTRL"} \in SUBSET {"DATA", "BIG", "CTRL"}
            /\ {"DATA", "BIG"} \in SUBSET {"DATA", "BIG", "CTRL"}
        OBVIOUS
      <4>4. Answered(j, "OK", j.Id, "none") \/ Answered(j, "OK_FC", j.Id, "none")
        BY <4>1, <4>2, <4>3
      <4> QED BY <4>4
    <3>3. CASE CardRemove(j)
      <4>1. PICK ext \in {"none", "REMOVE_COMPLETE"} :
              CardJob(j, {"REMOVE"}, Rc("OK", j.Id, j.own, ext))
        BY <3>3 DEF CardRemove
      <4>2. Answered(j, "OK", j.Id, ext) BY <4>1 DEF CardJob, Code, Answered
      <4> QED BY <4>2
    <3> QED BY <2>1, <3>1, <3>2, <3>3
  <2>9. PICK d \in Ids \cup {0, j.Id} : \E ext \in {"none", "REMOVE_COMPLETE"} :
          Answered(j, rc, d, ext)
    BY <2>2
  <2>10. PICK ext \in {"none", "REMOVE_COMPLETE"} : Answered(j, rc, d, ext)
    BY <2>9
  <2>3. IsReq(j) BY <2>10 DEF IsReq, Answered
  <2>4. j.own \in Entity /\ (j.Id # 0 => j.Id \in Ids)
    BY <1>1, <2>3, JobIs DEF Ents
  <2>5. d \in Ids \cup {0} BY <2>10, <2>4 DEF Answered
  <2>6. PICK m : m = Rc(rc, d, j.own, ext) OBVIOUS
  <2>7. m \in RingType
    <3>1. ext \in {"none", "OK_FC", "REMOVE_COMPLETE"} BY <2>2
    <3> QED BY <2>4, <2>5, <2>6, <3>1, MsgTypes
  <2>8. m.k = "rc" BY <2>6 DEF Rc
  <2> QED BY <2>10, <2>6, <2>7, <2>8 DEF Answered
<1>3. CASE CardStops
  <2>1. PICK a : a = [k |-> "cpu_stop"] OBVIOUS
  <2>2. PICK j \in jobs : CardPost(a) /\ jobs' = jobs \ {j} /\ done' = done
    BY <1>3, <2>1 DEF CardStops, CardJob
  <2>3. a \in RingType /\ a.k = "cpu_stop" BY <2>1, MsgTypes
  <2> QED BY <2>2, <2>3
<1>4. CASE CardXon
  <2>1. PICK d \in held : /\ CardPost(Rc("OK", d, cardId[d], "OK_FC"))
                          /\ jobs' = jobs /\ done' = done
    BY <1>4 DEF CardXon
  <2>2. d \in Ids /\ cardId[d] \in Entity
    BY <1>1 DEF Types, Placed, Channels
  <2>3. PICK a : a = Rc("OK", d, cardId[d], "OK_FC") OBVIOUS
  <2>4. a \in RingType BY <2>2, <2>3, MsgTypes
  <2>5. a.k = "rc" BY <2>3 DEF Rc
  <2> QED BY <2>1, <2>3, <2>4, <2>5
<1>5. CASE CardInd
  <2>1. PICK d \in Ids, b \in cardBufs \cup {0}, big \in BOOLEAN :
          /\ cardId[d] # Null /\ CardPost(Ind(d, cardId[d], b, big))
          /\ (big => b # 0)
          /\ UNCHANGED <<jobs, done>>
    BY <1>5 DEF CardInd
  <2>2. cardId[d] \in Entity /\ b \in RxBuf \cup {0} BY <2>1 DEF Types
  <2>3. PICK a : a = Ind(d, cardId[d], b, big) OBVIOUS
  <2>4. a \in RingType BY <2>2, <2>3, MsgTypes
  <2>5. a.k = "ind" /\ a.big = big /\ a.buf = b BY <2>3 DEF Ind
  <2> QED BY <2>1, <2>3, <2>4, <2>5
<1>6. CASE CardAck
  <2>1. PICK a : a = [k |-> "ack_req", n |-> done] OBVIOUS
  <2>2. CardPost(a) /\ jobs' = jobs /\ done' = 0 BY <1>6, <2>1 DEF CardAck
  <2>3. a \in RingType /\ a.k = "ack_req" /\ a.n = done
    BY <2>1, MsgTypes DEF Types
  <2> QED BY <2>2, <2>3
<1>7. CASE CardTick
  <2>1. PICK a : a = [k |-> "rnr_ind"] OBVIOUS
  <2>2. CardPost(a) /\ UNCHANGED <<jobs, done>> BY <1>7, <2>1 DEF CardTick
  <2>3. a \in RingType /\ a.k = "rnr_ind" BY <2>1, MsgTypes
  <2> QED BY <2>2, <2>3
<1>8. CASE CardWarn
  <2>1. PICK a : a = [k |-> "warning"] OBVIOUS
  <2>2. CardPost(a) /\ UNCHANGED <<jobs, done>> BY <1>8, <2>1 DEF CardWarn
  <2>3. a \in RingType /\ a.k = "warning" BY <2>1, MsgTypes
  <2> QED BY <2>2, <2>3
<1> QED BY <1>2, <1>3, <1>4, <1>5, <1>6, <1>7, <1>8 DEF CardNext

LEMMA RingsNext ==
    ASSUME Types, Locals, Rings, Ents, [Next]_vars
    PROVE  Rings'
<1>1. CASE UNCHANGED vars
  BY <1>1, RingsSame DEF vars, outRing, cardVars, dpcVars, ringVars
<1>2. CASE ClientNext
  BY <1>2, RingsSame DEF ClientNext, Request, Xon, outRing, cardVars, dpcVars,
                         ringVars
<1>3. CASE IndNext
  <2>1. PICK k, m : Dispatch(k, m) /\ m = Head(indRing) /\ m.k = k
    BY <1>3 DEF IndNext, SysAckReq, SysRnrInd, SysState, RcIgnored, RcRemoved,
       RcAnswer, RcAssign, IndDropped, IndTaken, IndRnr, Dispatch
  <2>2. /\ indRing # <<>> /\ indRing' = Tail(indRing) /\ nr > 0 /\ nr' = nr - 1
        /\ UNCHANGED <<reqRing, staged, done, indFree, nrInd>>
    BY <2>1, Dispatched DEF Dispatch, outRing, cardVars
  <2>3. pend \in Nat BY RingNumbers
  <2>4. pend' = pend - Amount(m, "ack_req")
    <3>1. CASE SysAckReq
      <4>1. Amount(m, "ack_req") = m.n BY <2>1, <3>1 DEF SysAckReq, Dispatch, Amount
      <4>2. pend' = IF m.n <= pend THEN pend - m.n ELSE pend
        BY <2>1, <3>1 DEF SysAckReq
      <4>3. PICK a \in Nat, s \in Nat :
              a = Amount(m, "ack_req") /\ SumOf(indRing, "ack_req") = a + s
        <5>1. \A x \in RingType : Amount(x, "ack_req") \in Nat BY Amounts
        <5>2. indRing \in Seq(RingType) BY DEF Rings
        <5> QED BY <2>1, <2>2, <5>1, <5>2, SumTail
      <4>4. PICK p \in Nat, l \in Nat, d \in Nat :
              p = pend /\ l = Len(reqRing) /\ d = done
        BY RingNumbers
      <4>5. p = l + d + (a + s) BY <4>3, <4>4 DEF Rings, RequestCredits
      <4>6. a <= p BY <4>5
      <4> QED BY <4>1, <4>2, <4>3, <4>4, <4>6
    <3>2. CASE ~SysAckReq
      <4>1. m.k # "ack_req" /\ pend' = pend
        BY <1>3, <2>1, <3>2 DEF IndNext, SysRnrInd, SysState, RcIgnored,
           RcRemoved, RcAnswer, RcAssign, IndDropped, IndTaken, IndRnr, Dispatch
      <4>2. Amount(m, "ack_req") = 0 BY <4>1 DEF Amount
      <4> QED BY <2>3, <4>1, <4>2
    <3> QED BY <3>1, <3>2
  <2> QED BY <2>1, <2>2, <2>4, RingsTaken
<1>4. CASE DpcStart \/ Oob \/ IndEnd \/ OutImpossible
  BY <1>4, RingsSame DEF DpcStart, Oob, IndEnd, OutImpossible, outRing,
                         cardVars, dpcVars, ringVars
<1>5. CASE OutSync
  <2>1. staged' = 0 /\ UNCHANGED <<reqRing, indRing, pend, done, indFree, nrInd, nr>>
    BY <1>5 DEF OutSync, cardVars
  <2>2. staged' \in 0..Len(reqRing') BY <2>1, RingNumbers
  <2> QED BY <2>1, <2>2 DEF Rings, RequestCredits, IndicationCredits
<1>6. CASE Count BY <1>6, RingsCount
<1>7. CASE OutSystem BY <1>7, RingsSystem
<1>8. CASE OutRequest BY <1>8, RingsRequest
<1>9. CASE CardReads
  <2>1. PICK m : m = Head(reqRing) /\ CardTake(m)
    BY <1>9 DEF CardReads, CardSystem, CardRequest
  <2>2. indFree' = indFree + Amount(m, "ack_ind")
    <3>1. indFree \in Nat BY RingNumbers
    <3>2. CASE m.k = "ack_ind"
      BY <1>9, <2>1, <3>2 DEF CardReads, CardSystem, CardRequest, Code, Amount
    <3>3. CASE m.k # "ack_ind"
      <4>1. indFree' = indFree
        BY <1>9, <2>1, <3>3 DEF CardReads, CardSystem, CardRequest
      <4> QED BY <3>1, <3>3, <4>1 DEF Amount
    <3> QED BY <3>2, <3>3
  <2>3. UNCHANGED <<nrInd, nr>> BY <2>1 DEF CardTake, HostFrame, dpcVars
  <2> QED BY <2>1, <2>2, <2>3, RingsRead
<1>10. CASE CardNext /\ ~CardReads
  <2>1. PICK m \in RingType :
          /\ CardPost(m)
          /\ \/ m.k # "ack_req" /\ done' = done
             \/ m.k = "ack_req" /\ m.n = done /\ done' = 0
    BY <1>10, CardPosts
  <2>2. done \in Nat BY RingNumbers
  <2>3. done' = done - Amount(m, "ack_req") /\ Amount(m, "ack_req") \in 0..done
    BY <2>1, <2>2 DEF Amount
  <2>4. UNCHANGED <<nrInd, nr, staged>> BY <2>1, PostIs
  <2> QED BY <2>1, <2>3, <2>4, RingsPosted
<1> QED BY <1>1, <1>2, <1>3, <1>4, <1>5, <1>6, <1>7, <1>8, <1>9, <1>10
        DEF Next, DpcNext

-----------------------------------------------------------------------------
(* The variables of the DPC *)

Dpc ==
    /\ pc \in {"idle", "oob", "ind", "out", "req"} /\ phase \in {1, 2}
    /\ started \in BOOLEAN /\ cpuStop \in BOOLEAN /\ stopFlag \in BOOLEAN
    /\ sched \in BOOLEAN
    /\ ReadyCount \in 0..ReqMax /\ eno \in Entity \cup {Null}
    /\ queue \in Seq(Entity)
    /\ pc # "ind" => nr = 0
    /\ pc = "req" => ReadyCount = ReqMax - pend
    /\ pc = "req" /\ eno # Null => queue # <<>> /\ eno = Head(queue)

LEMMA BigNext ==
    ASSUME Types, Locals, BigHasBuf, Ents, [Next]_vars
    PROVE  BigHasBuf'
<1>1. CASE indRing' = indRing
  BY <1>1 DEF BigHasBuf
<1>2. CASE IndNext
  <2>1. PICK kind, m : Dispatch(kind, m)
    BY <1>2 DEF IndNext, SysAckReq, SysRnrInd, SysState, RcIgnored, RcRemoved,
       RcAnswer, RcAssign, IndDropped, IndTaken, IndRnr
  <2>2. indRing # <<>> /\ indRing' = Tail(indRing) /\ indRing \in Seq(RingType)
    BY <2>1, Dispatched
  <2>3. /\ DOMAIN indRing = 1..Len(indRing) /\ Len(indRing) \in Nat
        /\ DOMAIN indRing' = 1..(Len(indRing) - 1)
        /\ \A k \in 1..(Len(indRing) - 1) : indRing'[k] = indRing[k + 1]
    BY <2>2, TailIs
  <2>4. \A k \in DOMAIN indRing' :
          k + 1 \in DOMAIN indRing /\ indRing'[k] = indRing[k + 1]
    BY <2>3
  <2> QED BY <2>4 DEF BigHasBuf
<1>3. CASE CardNext /\ ~CardReads
  <2>1. PICK m \in RingType : /\ CardPost(m)
                              /\ m.k = "ind" /\ m.big => m.buf # 0
    BY <1>3, CardPosts
  <2>2. indRing' = Append(indRing, m) BY <2>1, PostIs
  <2>3. /\ DOMAIN indRing' = 1..(Len(indRing) + 1) /\ Len(indRing) \in Nat
        /\ DOMAIN indRing = 1..Len(indRing)
        /\ indRing'[Len(indRing) + 1] = m
        /\ \A k \in 1..Len(indRing) : indRing'[k] = indRing[k]
    BY <2>2, AppendIs DEF Types
  <2>4. \A k \in DOMAIN indRing' : k \in DOMAIN indRing \/ k = Len(indRing) + 1
    BY <2>3
  <2> QED BY <2>1, <2>3, <2>4 DEF BigHasBuf
<1>4. CASE CardReads
  <2>1. indRing' = indRing
    BY <1>4 DEF CardReads, CardSystem, CardRequest, CardTake
  <2> QED BY <2>1, <1>1
<1>5. CASE ClientNext \/ UNCHANGED vars
  <2>1. indRing' = indRing BY <1>5 DEF ClientNext, Request, Xon, vars
  <2> QED BY <2>1, <1>1
<1>6. CASE DpcNext /\ ~IndNext
  <2>1. indRing' = indRing
    BY <1>6 DEF DpcNext, DpcStart, Oob, Count, IndEnd, OutImpossible,
       OutSystem, OutRequest, OutSync
  <2> QED BY <2>1, <1>1
<1> QED BY <1>2, <1>3, <1>4, <1>5, <1>6 DEF Next

LEMMA DpcNextIs ==
    ASSUME Types, Locals, Dpc, [Next]_vars
    PROVE  Dpc'
<1>1. CASE UNCHANGED vars
  BY <1>1 DEF vars, clientVars, stateVars, dpcVars, Dpc
<1>2. CASE ClientNext
  <2>1. CASE \E e \in Entity, r \in Reqs \cup {"ASSIGN"} : Request(e, r)
    <3>1. PICK e \in Entity, r \in Reqs \cup {"ASSIGN"} : Request(e, r) BY <2>1
    <3>2. UNCHANGED <<stateVars, dpcVars, pend>> /\ sched' \in BOOLEAN
      BY <3>1 DEF Request, Dpc
    <3>3. queue' = queue \/ queue' = Append(queue, e) BY <3>1 DEF Request
    <3>4. CASE queue' = queue
      BY <3>2, <3>4 DEF Dpc, stateVars, dpcVars
    <3>5. CASE queue' = Append(queue, e)
      <4>1. queue' \in Seq(Entity) BY <3>5, AppendIs DEF Dpc
      <4>2. ASSUME queue # <<>> PROVE queue' # <<>> /\ Head(queue') = Head(queue)
        <5>1. PICK q \in Seq(Entity) : q = queue BY DEF Dpc
        <5>2. Len(q) \in Nat \ {0} /\ Head(q) = q[1] BY <4>2, <5>1, TailIs
        <5>3. PICK p \in Seq(Entity) : p = queue' BY <4>1
        <5>4. p = Append(q, e) BY <3>5, <5>1, <5>3
        <5>5. Len(p) = Len(q) + 1 /\ p[1] = q[1] BY <5>2, <5>4, AppendIs
        <5>6. p # <<>> BY <5>2, <5>5
        <5>7. Head(p) = p[1] BY <5>6, TailIs
        <5> QED BY <5>1, <5>2, <5>3, <5>5, <5>6, <5>7
      <4> QED BY <3>2, <4>1, <4>2 DEF Dpc, stateVars, dpcVars
    <3> QED BY <3>3, <3>4, <3>5
  <2>2. CASE \E d \in Ids : Xon(d)
    <3>1. /\ UNCHANGED <<stateVars, dpcVars, pend, queue>> /\ sched' \in BOOLEAN
      BY <2>2 DEF Xon
    <3> QED BY <3>1 DEF Dpc, stateVars, dpcVars
  <2> QED BY <1>2, <2>1, <2>2 DEF ClientNext
<1>3. CASE IndNext
  <2>1. PICK k, m : Dispatch(k, m)
    BY <1>3 DEF IndNext, SysAckReq, SysRnrInd, SysState, RcIgnored, RcRemoved,
       RcAnswer, RcAssign, IndDropped, IndTaken, IndRnr
  <2>2. pc = "ind" /\ UNCHANGED <<queue, sched, pc, phase, ReadyCount, eno>>
    BY <2>1 DEF Dispatch
  <2>3. started' \in BOOLEAN /\ cpuStop' \in BOOLEAN /\ stopFlag' \in BOOLEAN
    BY <1>3 DEF IndNext, SysAckReq, SysRnrInd, SysState, RcIgnored, RcRemoved,
       RcAnswer, RcAssign, IndDropped, IndTaken, IndRnr, stateVars, Dpc
  <2> QED BY <2>2, <2>3 DEF Dpc
<1>4. CASE DpcStart \/ Oob \/ Count
  BY <1>4 DEF DpcStart, Oob, Count, clientVars, stateVars, dpcVars, Dpc
<1>5. CASE IndEnd \/ OutImpossible \/ OutSync
  BY <1>5 DEF IndEnd, OutImpossible, OutSync, OutOver, clientVars, stateVars, Dpc
<1>6. CASE OutSystem
  <2>1. PICK n \in Nat : n \in 0..(ReqMax - pend) /\ pend' = pend + n
                         /\ ReadyCount' = ReqMax - pend - n
    BY <1>6, OutSystemIs
  <2>2. ReadyCount' \in 0..ReqMax /\ ReadyCount' = ReqMax - pend'
    <3>1. ReqMax \in Nat BY VidiAssumption
    <3>2. pend \in Nat BY <3>1 DEF Types, TypeOK
    <3> QED BY <2>1, <3>1, <3>2
  <2>3. /\ eno' = IF queue = <<>> THEN Null ELSE Head(queue)
        /\ pc' = "req" /\ stopFlag' = FALSE /\ pc = "out"
        /\ UNCHANGED <<queue, started, cpuStop, sched, phase, nr>>
    BY <1>6 DEF OutSystem, clientVars
  <2>4. eno' \in Entity \cup {Null} BY <2>3, TailIs DEF Dpc
  <2> QED BY <2>2, <2>3, <2>4 DEF Dpc
<1>7. CASE OutRequest
  <2>1. /\ pc = "req" /\ eno # Null /\ ReadyCount # 0
        /\ pend' = pend + 1 /\ ReadyCount' = ReadyCount - 1
        /\ queue' = Tail(queue)
        /\ eno' = IF queue' = <<>> THEN Null ELSE Head(queue')
        /\ UNCHANGED <<stateVars, sched, pc, phase, nr>>
    BY <1>7 DEF OutRequest, Counted
  <2>2. queue # <<>> /\ queue \in Seq(Entity) BY <2>1 DEF Dpc
  <2>3. queue' \in Seq(Entity) BY <2>1, <2>2, TailIs
  <2>4. eno' \in Entity \cup {Null} BY <2>1, <2>3, TailIs
  <2>5. ReadyCount' \in 0..ReqMax /\ ReadyCount' = ReqMax - pend'
    <3>1. ReqMax \in Nat BY VidiAssumption
    <3>2. pend \in Nat BY <3>1 DEF Types, TypeOK
    <3>3. ReadyCount = ReqMax - pend BY <2>1 DEF Dpc
    <3>4. ReadyCount \in 0..ReqMax BY DEF Dpc
    <3> QED BY <2>1, <3>1, <3>2, <3>3, <3>4
  <2> QED BY <2>1, <2>3, <2>4, <2>5 DEF Dpc, stateVars
<1>8. CASE CardNext
  <2>1. UNCHANGED <<queue, stateVars, dpcVars, pend>>
    BY <1>8 DEF CardNext, CardReads, CardSystem, CardRequest, CardTake,
       CardStops, CardAnswers, CardAssign, CardData, CardRemove, CardXon,
       CardAck, CardInd, CardTick, CardWarn, CardJob, CardPost, HostFrame,
       clientVars
  <2>2. sched' \in BOOLEAN
    BY <1>8 DEF CardNext, CardReads, CardSystem, CardRequest, CardTake,
       CardStops, CardAnswers, CardAssign, CardData, CardRemove, CardXon,
       CardAck, CardInd, CardTick, CardWarn, CardJob, CardPost, Post, Dpc
  <2> QED BY <2>1, <2>2 DEF Dpc, stateVars, dpcVars
<1> QED BY <1>1, <1>2, <1>3, <1>4, <1>5, <1>6, <1>7, <1>8 DEF Next, DpcNext

-----------------------------------------------------------------------------
(* The variables of the clients and of the two sides of an Id *)

EntType == [Id : Ids \cup {0}, Req : Code, XBUSY : BOOLEAN,
            XOffset : Frag \cup {RingPage, NoFrag}]

Client ==
    /\ wait \in [Entity -> BOOLEAN] /\ flow \subseteq Entity
    /\ ent \in [Entity -> EntType]
    /\ oob \in Seq(Ids) /\ Len(oob) <= OobMax
    /\ assign \subseteq Entity /\ rmPending \subseteq Entity
    /\ IdTable \in [Ids -> Entity \cup {Null}]
    /\ fragFree \subseteq Frag

clientTypes == <<wait, flow, ent, oob, assign, rmPending, IdTable, fragFree>>

LEMMA ClientSame ==
    ASSUME Client, UNCHANGED clientTypes
    PROVE  Client'
BY DEF Client, clientTypes

\* The fields of an ENTITY that is written stay in their types.
LEMMA EntWritten ==
    ASSUME NEW x \in EntType
    PROVE  /\ \A r \in Code : Queued(x, r) \in EntType
           /\ \A f \in Frag \cup {NoFrag} : [x EXCEPT !.XOffset = f] \in EntType
           /\ \A ext : Returned(x, ext) \in EntType
           /\ \A ext : \A d \in Ids \cup {0} :
                [Returned(x, ext) EXCEPT !.Id = d] \in EntType
<1>1. \A r \in Code : Queued(x, r) \in EntType BY DEF Queued, EntType
<1>2. \A f \in Frag \cup {NoFrag} : [x EXCEPT !.XOffset = f] \in EntType
  BY DEF EntType
<1>3. ASSUME NEW ext PROVE Returned(x, ext) \in EntType
  BY DEF Returned, EntType
<1>4. ASSUME NEW y \in EntType, NEW d \in Ids \cup {0}
      PROVE  [y EXCEPT !.Id = d] \in EntType
  BY DEF EntType
<1> QED BY <1>1, <1>2, <1>3, <1>4

\* A return code that gives a fragment back is an answer, and then XOffset does
\* not name the ring's own page any more.
LEMMA FreedIs ==
    ASSUME Types, Locals, Ents, NEW m, m = Head(indRing), Dispatch("rc", m),
           NEW e \in Entity, m.own = e
    PROVE  Freed(ent[e], m.ext) \subseteq Frag
<1>1. indRing # <<>> /\ m.k = "rc" /\ indRing \in Seq(RingType) BY Dispatched
<1>2. 1 \in DOMAIN indRing /\ m = indRing[1] BY <1>1, TailIs
<1>3. PICK st \in [Entity -> Stage] : Placed(st) BY DEF Ents
<1>4. fragFree \subseteq Frag /\ ent[e].XOffset \in Frag \cup {RingPage, NoFrag}
  BY EntTypes DEF Types, TypeOK
<1>5. ASSUME m.ext # "OK_FC" PROVE ent[e].XOffset # RingPage
  <2>1. IsAnswer(m) BY <1>1, <1>5 DEF IsAnswer
  <2>2. st[e] = "answer" BY <1>2, <1>3, <2>1 DEF Placed, Stages, AnswerAt
  <2>3. EntityAt(e, st[e]) BY <1>3 DEF Placed, Stages
  <2> QED BY <2>2, <2>3 DEF EntityAt
<1> QED BY <1>4, <1>5 DEF Freed, Frees

\* A return code is called back.
LEMMA CalledBack ==
    ASSUME Client, NEW e \in Entity, NEW m, ClientRc(e, m)
    PROVE  wait' \in [Entity -> BOOLEAN] /\ flow' \subseteq Entity
BY DEF Client, ClientRc

LEMMA ClientNextIs ==
    ASSUME Types, Locals, Dpc, Ents, Client, [Next]_vars
    PROVE  Client'
<1>1. CASE UNCHANGED vars
  BY <1>1, ClientSame DEF vars, clientVars, idVars, clientTypes
<1>2. CASE \E e \in Entity, r \in Reqs \cup {"ASSIGN"} : Request(e, r)
  <2>1. PICK e \in Entity, r \in Reqs \cup {"ASSIGN"} : Request(e, r) BY <1>2
  <2>2. /\ wait' = [wait EXCEPT ![e] = TRUE]
        /\ ent' = ent \/ ent' = [ent EXCEPT ![e] = Queued(@, r)]
        /\ UNCHANGED <<flow, oob, assign, rmPending, IdTable, fragFree>>
    BY <2>1 DEF Request, idVars
  <2>3. r \in Code BY VidiAssumption DEF Code
  <2>4. ent[e] \in EntType BY DEF Client
  <2>5. Queued(ent[e], r) \in EntType BY <2>3, <2>4, EntWritten
  <2>6. ent' \in [Entity -> EntType] BY <2>2, <2>5 DEF Client
  <2>7. wait' \in [Entity -> BOOLEAN] BY <2>2 DEF Client
  <2> QED BY <2>2, <2>6, <2>7 DEF Client
<1>3. CASE \E d \in Ids : Xon(d)
  <2>1. PICK d \in Ids : Xon(d) BY <1>3
  <2>2. /\ oob' = IF Len(oob) < OobMax THEN Append(oob, d) ELSE oob
        /\ UNCHANGED <<wait, flow, ent, assign, rmPending, IdTable, fragFree>>
    BY <2>1 DEF Xon, idVars
  <2>3. oob' \in Seq(Ids) /\ Len(oob') <= OobMax
    <3>1. OobMax \in Nat BY VidiAssumption
    <3>2. /\ Append(oob, d) \in Seq(Ids) /\ Len(oob) \in Nat
          /\ Len(Append(oob, d)) = Len(oob) + 1
      BY AppendIs DEF Client
    <3>3. PICK n \in Nat : n = Len(oob) BY <3>2
    <3>4. n <= OobMax BY <3>3 DEF Client
    <3>5. CASE n < OobMax
      <4>1. n + 1 <= OobMax BY <3>1, <3>5
      <4> QED BY <2>2, <3>2, <3>3, <3>5, <4>1
    <3>6. CASE ~(n < OobMax)
      BY <2>2, <3>3, <3>6 DEF Client
    <3> QED BY <3>5, <3>6
  <2> QED BY <2>2, <2>3 DEF Client
<1>4. CASE SysAckReq \/ SysRnrInd \/ SysState \/ RcIgnored
           \/ IndDropped \/ IndTaken \/ IndRnr
  <2>1. UNCHANGED clientTypes
    BY <1>4 DEF SysAckReq, SysRnrInd, SysState, RcIgnored, IndDropped,
       IndTaken, IndRnr, Dispatch, idVars, clientTypes
  <2> QED BY <2>1, ClientSame
<1>5. CASE RcRemoved \/ RcAnswer \/ RcAssign
  <2>1. PICK m : m = Head(indRing) OBVIOUS
  <2>2. PICK e \in Entity :
          /\ Dispatch("rc", m) /\ ClientRc(e, m)
          /\ fragFree' = Freed(ent[e], m.ext)
          /\ \/ ent' = [ent EXCEPT ![e] = Returned(@, m.ext)]
             \/ ent' = [ent EXCEPT ![e] = [Returned(@, m.ext) EXCEPT !.Id = 0]]
             \/ ent' = [ent EXCEPT ![e] = [Returned(@, m.ext) EXCEPT !.Id = m.Id]]
          /\ \/ IdTable' = IdTable
             \/ IdTable' = [IdTable EXCEPT ![m.Id] = Null]
             \/ IdTable' = [IdTable EXCEPT ![m.Id] = e]
          /\ assign' \subseteq assign /\ rmPending' \subseteq rmPending
          /\ oob' = oob
          /\ (m.Id # 0 /\ e = IdTable[m.Id]) \/ e = m.own
    BY <1>5, <2>1 DEF RcRemoved, RcAnswer, RcAssign, Dispatch, idVars
  <2>3. m.k = "rc" /\ m \in RingType /\ indRing # <<>> BY <2>2, Dispatched
  <2>4. m.Id \in Ids \cup {0} BY <2>3, RingKinds DEF RcType
  <2>5. m.own = e BY <2>1, <2>2, <2>3, <2>4, RcOwner
  <2>6. fragFree' \subseteq Frag BY <2>1, <2>2, <2>5, FreedIs
  <2>7. ent[e] \in EntType BY DEF Client
  <2>8. /\ Returned(ent[e], m.ext) \in EntType
        /\ [Returned(ent[e], m.ext) EXCEPT !.Id = 0] \in EntType
        /\ [Returned(ent[e], m.ext) EXCEPT !.Id = m.Id] \in EntType
    BY <2>4, <2>7, EntWritten
  <2>9. \E x \in EntType : ent' = [ent EXCEPT ![e] = x] BY <2>2, <2>8
  <2>10. ent' \in [Entity -> EntType] BY <2>9 DEF Client
  <2>11. wait' \in [Entity -> BOOLEAN] /\ flow' \subseteq Entity
    BY <2>2, CalledBack
  <2>12. IdTable' \in [Ids -> Entity \cup {Null}] BY <2>2 DEF Client
  <2> QED BY <2>2, <2>6, <2>10, <2>11, <2>12 DEF Client
<1>6. CASE Oob
  <2>1. /\ oob # <<>> /\ oob' = Tail(oob)
        /\ UNCHANGED <<wait, flow, ent, assign, rmPending, IdTable, fragFree>>
    BY <1>6 DEF Oob, idVars
  <2>2. oob' \in Seq(Ids) /\ Len(oob') <= OobMax
    <3>1. OobMax \in Nat BY VidiAssumption
    <3>2. Tail(oob) \in Seq(Ids) /\ Len(oob) \in Nat /\ Len(Tail(oob)) = Len(oob) - 1
      BY <2>1, TailIs DEF Client
    <3>3. PICK n \in Nat : n = Len(oob) BY <3>2
    <3>4. n <= OobMax BY <3>3 DEF Client
    <3>5. n - 1 <= OobMax BY <3>1, <3>4
    <3> QED BY <2>1, <3>2, <3>3, <3>5
  <2> QED BY <2>1, <2>2 DEF Client
<1>7. CASE DpcStart \/ Count \/ IndEnd \/ OutImpossible \/ OutSync \/ OutSystem
  BY <1>7, ClientSame DEF DpcStart, Count, IndEnd, OutImpossible, OutSync,
     OutSystem, clientVars, idVars, clientTypes
<1>8. CASE OutRequest
  <2>1. PICK e \in {eno}, f \in fragFree \cup {NoFrag} :
          /\ e # Null
          /\ fragFree' = fragFree \ {f}
          /\ ent' = [ent EXCEPT ![e].XOffset = f]
          /\ assign' = IF ent[e].Id = 0 THEN assign \cup {e} ELSE assign
          /\ rmPending' = rmPending \cup {e} \/ rmPending' = rmPending
          /\ UNCHANGED <<wait, flow, oob, IdTable>>
    BY <1>8 DEF OutRequest
  <2>2. e \in Entity BY <2>1 DEF Dpc
  <2>3. f \in Frag \cup {NoFrag} BY <2>1 DEF Client
  <2>4. ent[e] \in EntType BY <2>2 DEF Client
  <2>5. [ent[e] EXCEPT !.XOffset = f] \in EntType BY <2>3, <2>4, EntWritten
  <2>6. ent' \in [Entity -> EntType] BY <2>1, <2>5 DEF Client
  <2> QED BY <2>1, <2>2, <2>6 DEF Client
<1>9. CASE CardNext
  <2>1. UNCHANGED <<clientVars, idVars, fragFree>>
    BY <1>9 DEF CardNext, CardReads, CardSystem, CardRequest, CardTake,
       CardStops, CardAnswers, CardAssign, CardData, CardRemove, CardXon,
       CardAck, CardInd, CardTick, CardWarn, CardJob, CardPost, HostFrame
  <2> QED BY <2>1, ClientSame DEF clientVars, idVars, clientTypes
<1> QED BY <1>1, <1>2, <1>3, <1>4, <1>5, <1>6, <1>7, <1>8, <1>9
    DEF Next, ClientNext, DpcNext, IndNext

\* The inside of the card
Card ==
    /\ jobs \subseteq Host \cup [k : {"stop"}]
    /\ cardId \in [Ids -> Entity \cup {Null}]
    /\ await \subseteq Ids /\ held \subseteq Ids /\ cardBufs \subseteq RxBuf
    /\ timerOn \in BOOLEAN /\ cardStop \in BOOLEAN

LEMMA CardSame ==
    ASSUME Card, UNCHANGED cardVars
    PROVE  Card'
BY DEF Card, cardVars

LEMMA SeqSetIs ==
    ASSUME NEW S, NEW s \in Seq(S)
    PROVE  SeqSet(s) \subseteq S
BY ElementOfSeq DEF SeqSet

LEMMA CardNextIs ==
    ASSUME Types, Locals, Ents, Card, [Next]_vars
    PROVE  Card'
<1>1. CASE UNCHANGED vars \/ ClientNext
  BY <1>1, CardSame DEF vars, ClientNext, Request, Xon
<1>2. CASE DpcNext
  <2>1. UNCHANGED cardVars
    BY <1>2 DEF DpcNext, DpcStart, Oob, Count, IndEnd, OutImpossible,
       OutSystem, OutRequest, OutSync, IndNext, SysAckReq, SysRnrInd,
       SysState, RcIgnored, RcRemoved, RcAnswer, RcAssign, IndDropped,
       IndTaken, IndRnr, Dispatch
  <2> QED BY <2>1, CardSame
<1>3. CASE CardReads
  <2>1. PICK m : m = Head(reqRing) /\ CardTake(m)
    BY <1>3 DEF CardReads, CardSystem, CardRequest
  <2>2. m \in ReqType
    <3>1. reqRing \in Seq(ReqType) BY DEF Types
    <3>2. reqRing # <<>>
      <4>1. Len(reqRing) > staged BY <2>1 DEF CardTake
      <4>2. staged \in Nat /\ Len(reqRing) \in Nat BY <3>1 DEF Types, TypeOK
      <4> QED BY <4>1, <4>2
    <3> QED BY <2>1, <3>1, <3>2, TailIs
  <2>3. UNCHANGED <<cardId, held, cardStop>> BY <2>1 DEF CardTake
  <2>4. CASE CardSystem
    <3>1. jobs' = jobs /\ await' \subseteq await
      BY <2>4 DEF CardSystem
    <3>2. timerOn' \in BOOLEAN
      <4>1. m.k = "timer" => m.on \in BOOLEAN BY <2>2, ReqKinds
      <4> QED BY <2>1, <2>4, <4>1 DEF CardSystem, Card
    <3>3. cardBufs' \subseteq RxBuf
      <4>1. m.k = "ack_buf" => m.of \in Seq(RxBuf) BY <2>2, ReqKinds
      <4>2. m.k = "ack_buf" => SeqSet(m.of) \subseteq RxBuf BY <4>1, SeqSetIs
      <4> QED BY <2>1, <2>4, <4>2 DEF CardSystem, Card
    <3> QED BY <2>3, <3>1, <3>2, <3>3 DEF Card
  <2>5. CASE CardRequest
    <3>1. /\ m.k \in Code \cup {"stop"} /\ jobs' = jobs \cup {m}
          /\ UNCHANGED <<timerOn, cardBufs, await>>
      BY <2>1, <2>5 DEF CardRequest
    <3>2. m \in Host \cup [k : {"stop"}] BY <2>2, <3>1, ReqKinds
    <3> QED BY <2>3, <3>1, <3>2 DEF Card
  <2> QED BY <1>3, <2>4, <2>5 DEF CardReads
<1>4. CASE \E e \in Entity : CardAnswers(e)
  <2>1. PICK j \in jobs : j.k # "stop" /\ (CardAssign(j) \/ CardData(j) \/ CardRemove(j))
    BY <1>4 DEF CardAnswers
  <2>2. PICK st \in [Entity -> Stage] : Placed(st) BY DEF Ents
  <2>3. IsReq(j)
    BY <2>1 DEF CardAssign, CardData, CardRemove, CardJob, IsReq, Code
  <2>4. j.own \in Entity /\ (j.k = "ASSIGN" <=> j.Id = 0)
        /\ (j.Id # 0 => j.Id \in Ids)
    BY <2>2, <2>3, JobIs DEF Ents
  <2>5. jobs' \subseteq jobs /\ UNCHANGED <<timerOn, cardBufs>>
    BY <2>1 DEF CardAssign, CardData, CardRemove, CardJob, CardPost
  <2>6. CASE CardAssign(j)
    <3>1. /\ UNCHANGED <<await, held, cardStop>>
          /\ (\E d \in Ids : cardId' = [cardId EXCEPT ![d] = j.own])
             \/ cardId' = cardId
      BY <2>6 DEF CardAssign
    <3>2. cardId' \in [Ids -> Entity \cup {Null}] BY <2>4, <3>1 DEF Card
    <3> QED BY <2>5, <3>1, <3>2 DEF Card
  <2>7. CASE CardData(j)
    <3>1. /\ UNCHANGED <<cardId, await, cardStop>>
          /\ held' = held \/ held' = held \cup {j.Id}
          /\ j.k \in {"DATA", "BIG", "CTRL"}
      BY <2>7 DEF CardData, CardJob
    <3>2. j.Id \in Ids BY <2>4, <3>1
    <3> QED BY <2>5, <3>1, <3>2 DEF Card
  <2>8. CASE CardRemove(j)
    <3>1. /\ cardId' = [cardId EXCEPT ![j.Id] = Null]
          /\ await' = await \ {j.Id} /\ held' = held \ {j.Id}
          /\ UNCHANGED cardStop
      BY <2>8 DEF CardRemove
    <3>2. cardId' \in [Ids -> Entity \cup {Null}] BY <3>1 DEF Card
    <3> QED BY <2>5, <3>1, <3>2 DEF Card
  <2> QED BY <2>1, <2>6, <2>7, <2>8
<1>5. CASE CardStops
  BY <1>5 DEF CardStops, CardJob, CardPost, Card
<1>6. CASE CardXon \/ CardAck \/ CardTick \/ CardWarn
  BY <1>6 DEF CardXon, CardAck, CardTick, CardWarn, CardPost, Card
<1>7. CASE CardInd
  BY <1>7 DEF CardInd, CardPost, Card
<1> QED BY <1>1, <1>2, <1>3, <1>4, <1>5, <1>6, <1>7 DEF Next, CardNext

\* The parts are the whole.
Groups == Kept /\ Rings /\ Dpc /\ Client /\ Card

LEMMA GroupsAre ==
    Groups <=> /\ Types /\ Counts
               /\ RxHasBuf
BY DEF Groups, Kept, Rings, Dpc, Client, Card, Types, TypeOK, Counts, Locals,
       RxHasBuf, EntType

LEMMA InvGroups == IInv <=> Groups /\ BigHasBuf /\ Ents
BY GroupsAre DEF IInv

-----------------------------------------------------------------------------
(* The invariant holds at the start and is kept by every step. *)

LEMMA InvNext ==
    ASSUME IInv, [Next]_vars
    PROVE  IInv'
<1>1. Types /\ Locals /\ Groups /\ BigHasBuf /\ Ents
  BY InvGroups DEF IInv, Counts
<1>2. Kept' BY <1>1, KeptNext DEF Groups
<1>3. Rings' BY <1>1, RingsNext DEF Groups
<1>4. Dpc' BY <1>1, DpcNextIs DEF Groups
<1>5. Client' BY <1>1, ClientNextIs DEF Groups
<1>6. Card' BY <1>1, CardNextIs DEF Groups
<1>7. BigHasBuf' BY <1>1, BigNext
<1>8. Ents' BY <1>1, EntsNext
<1>9. (Groups /\ BigHasBuf /\ Ents)'
  BY <1>2, <1>3, <1>4, <1>5, <1>6, <1>7, <1>8 DEF Groups
<1>10. IInv' <=> (Groups /\ BigHasBuf /\ Ents)' BY InvGroups, PTL
<1> QED BY <1>9, <1>10

LEMMA InvInit ==
    ASSUME Init
    PROVE  IInv
<1>1. PICK m : m = [k |-> "start"] OBVIOUS
<1>2. /\ m \in RingType /\ m.k = "start" BY <1>1, MsgTypes
<1>3. indRing = <<m>> BY <1>1 DEF Init
<1>4. /\ indRing \in Seq(RingType) /\ Len(indRing) = 1
      /\ DOMAIN indRing = {1} /\ indRing[1] = m
  BY <1>2, <1>3
<1>5. reqRing = <<>> /\ staged = 0 /\ pend = 0 /\ done = 0 /\ nrInd = 0 /\ nr = 0
      /\ indFree = IndMax - 1 /\ jobs = {}
  BY DEF Init
<1>6. ReqMax \in Nat \ {0} /\ IndMax \in Nat \ 0..2 /\ Hdrs \in Nat /\ OobMax \in Nat
  BY VidiAssumption
<1>7. Rings
  <2>1. SumOf(reqRing, "ack_ind") = 0 BY <1>5, SumEmpty
  <2>2. SumOf(indRing, "ack_req") = 0
    <3>1. \A x \in {m} : Amount(x, "ack_req") = 0 BY <1>2 DEF Amount
    <3>2. indRing \in Seq({m}) BY <1>3
    <3> QED BY <3>1, <3>2, SumNone
  <2>3. Len(reqRing) = 0 /\ reqRing \in Seq(ReqType) BY <1>5
  <2>4. RequestCredits BY <1>5, <2>2, <2>3 DEF RequestCredits
  <2>5. IndicationCredits BY <1>4, <1>5, <1>6, <2>1 DEF IndicationCredits
  <2>6. 0 \in 0..ReqMax /\ 0 \in 0..IndMax /\ IndMax - 1 \in 0..IndMax /\ 0 \in 0..0
    BY <1>6
  <2> QED BY <1>4, <1>5, <2>3, <2>4, <2>5, <2>6 DEF Rings
<1>8. Kept
  <2>1. bufAck \in Seq(RxBuf)
    <3>1. IsFiniteSet(RxBuf) BY VidiAssumption
    <3>2. Cardinality(RxBuf) \in Nat BY <3>1, FS_CardinalityType
    <3>3. bufAck \in [1..Cardinality(RxBuf) -> RxBuf] BY DEF Init
    <3> QED BY <3>2, <3>3, MadeSeq
  <2>2. /\ idAck = <<>> /\ rnrq = <<>> /\ timer = 0 /\ hdrFree = Hdrs
        /\ bufFree = 0
    BY DEF Init
  <2>3. Len(rnrq) = 0 /\ rnrq \in Seq(REntry) /\ idAck \in Seq(Ids)
        /\ DOMAIN rnrq = {}
    BY <2>2
  <2>4. 0 \in 0..Hdrs /\ Hdrs \in 0..Hdrs /\ Hdrs + 0 + 0 = Hdrs BY <1>6
  <2> QED BY <2>1, <2>2, <2>3, <2>4 DEF Kept
<1>9. Dpc
  <2>1. 0 \in 0..ReqMax BY <1>6
  <2>2. queue = <<>> BY DEF Init
  <2>3. queue \in Seq(Entity) BY <2>2
  <2> QED BY <2>1, <2>3 DEF Init, Dpc
<1>10. Client
  <2>1. oob = <<>> BY DEF Init
  <2>2. oob \in Seq(Ids) /\ Len(oob) = 0 BY <2>1
  <2>3. Len(oob) <= OobMax BY <1>6, <2>2
  <2>4. [Id |-> 0, Req |-> "none", XOffset |-> NoFrag, XBUSY |-> FALSE] \in EntType
    BY DEF EntType, Code
  <2>5. ent \in [Entity -> EntType] BY <2>4 DEF Init
  <2> QED BY <2>2, <2>3, <2>5 DEF Init, Client
<1>11. Card BY DEF Init, Card
<1>12. BigHasBuf BY <1>2, <1>4 DEF BigHasBuf
<1>13. Known
  <2> SUFFICES ASSUME NEW d \in Ids PROVE IdAt(d) BY DEF Known
  <2>1. /\ IdTable[d] = Null /\ cardId[d] = Null /\ d # 0
        /\ \A e \in Entity : ent[e].Id = 0 /\ e # Null
    BY Numbers DEF Init
  <2>2. About(d) = {} /\ Assigned(d) = {} /\ Ended(d) = {}
    BY <1>2, <1>4 DEF About, Assigned, Ended, IsAbout, Assigning, Ending
  <2> QED BY <2>1, <2>2 DEF IdAt
<1>14. \E st \in [Entity -> Stage] : Placed(st)
  <2>1. PICK st : st = [e \in Entity |-> "idle"] OBVIOUS
  <2>2. st \in [Entity -> Stage] BY <2>1 DEF Stage
  <2>3. Stages(st)
    <3>1. ASSUME NEW e \in Entity PROVE EntityAt(e, st[e])
      <4>1. /\ st[e] = "idle" /\ wait[e] = FALSE
            /\ ent[e].XBUSY = FALSE /\ ent[e].XOffset = NoFrag
            /\ e \notin assign /\ e \notin rmPending
        BY <2>1 DEF Init
      <4> QED BY <4>1, Numbers DEF EntityAt
    <3>2. queue = <<>> BY DEF Init
    <3>3. \A k \in DOMAIN indRing : ~IsAnswer(indRing[k])
      BY <1>2, <1>4 DEF IsAnswer
    <3> QED BY <1>5, <3>1, <3>2, <3>3 DEF Stages
  <2>4. Single
    <3>1. queue = <<>> BY DEF Init
    <3> QED BY <1>4, <1>5, <3>1 DEF Single
  <2>5. Channels BY <1>2, <1>4 DEF Channels, Init
  <2>6. Fragments
    <3>1. fragFree = Frag /\ \A e \in Entity : ent[e].XOffset = NoFrag
      BY DEF Init
    <3> QED BY <3>1, Numbers DEF Fragments
  <2> QED BY <2>2, <2>3, <2>4, <2>5, <2>6 DEF Placed
<1> QED BY <1>7, <1>8, <1>9, <1>10, <1>11, <1>12, <1>13, <1>14, InvGroups
    DEF Groups, Ents

LEMMA InvSafe == Spec => []IInv
BY InvInit, InvNext, PTL DEF Spec

\* Host and card agree about the entries of both rings, and no counter leaves
\* its range (vidi_di.c:169, 193).
THEOREM CreditsSafe == Spec => []Credits
<1>1. IInv => Credits BY DEF IInv, Counts, Types, Credits
<1> QED BY <1>1, InvSafe, PTL

\* A fragment has one user, who waits for the answer, and a request on its way
\* names the fragment of its entity (vidi_di.c:344; io.c:573).
THEOREM FragmentsSafe == Spec => []FragmentsKept
<1>1. ASSUME IInv PROVE FragmentsKept
  <2>1. PICK st \in [Entity -> Stage] : Placed(st) BY <1>1 DEF IInv, Ents
  <2>2. Types BY <1>1 DEF IInv
  <2>3. RingPage \notin fragFree BY <2>2, Numbers DEF Types, TypeOK
  <2>4. \A e \in Entity : ent[e].XOffset \in Frag => wait[e]
    BY <2>1, Numbers DEF Placed, Stages, EntityAt
  <2>5. \A f \in Frag : f \notin fragFree <=>
          \E e \in Entity : ent[e].XOffset = f /\ wait[e]
    BY <2>1, <2>4 DEF Placed, Fragments
  <2>6. \A m \in SeqSet(reqRing) \cup jobs :
          m.k = "BIG" => ent[m.own].XOffset = m.frag
    <3>1. \A k \in DOMAIN reqRing :
            reqRing[k].k = "BIG" => ent[reqRing[k].own].XOffset = reqRing[k].frag
      BY <2>1 DEF Placed, Stages, RequestAt, IsReq, Code
    <3>2. \A m \in jobs : m.k = "BIG" => ent[m.own].XOffset = m.frag
      BY <2>1 DEF Placed, Stages, RequestAt, IsReq, Code
    <3> QED BY <3>1, <3>2 DEF SeqSet
  <2> QED BY <2>1, <2>3, <2>5, <2>6 DEF FragmentsKept, Placed, Fragments
<1> QED BY <1>1, InvSafe, PTL

-----------------------------------------------------------------------------
(* The timer of the card *)

\* What the messages in s leave the timer to be, that on says before them, if
\* the host wants t; that the card is told to stop
Told(s) == {k \in DOMAIN s : s[k].k = "timer"}
Says(s, t, on) ==
    IF t # 0 THEN t = 1
    ELSE IF Told(s) # {}
         THEN \A k \in Told(s) : s[k].on \/ \E j \in Told(s) : j > k
         ELSE on
Stops(s, J, c) ==
    c \/ (\E m \in J : m.k = "stop") \/ \E k \in DOMAIN s : s[k].k = "stop"

LEMMA TimerIs ==
    /\ TimerWanted <=> Says(reqRing, timer, timerOn)
    /\ StopSent <=> Stops(reqRing, jobs, cardStop)
BY DEF TimerWanted, TimerMsgs, StopSent, At, Told, Says, Stops

LEMMA TimerIsNext ==
    /\ TimerWanted' <=> Says(reqRing', timer', timerOn')
    /\ StopSent' <=> Stops(reqRing', jobs', cardStop')
BY DEF TimerWanted, TimerMsgs, StopSent, At, Told, Says, Stops

LEMMA SaysTail ==
    ASSUME NEW S, NEW s \in Seq(S), s # <<>>, NEW t, NEW on, NEW x,
           x = IF Head(s).k = "timer" THEN Head(s).on ELSE on,
           Says(s, t, on)
    PROVE  Says(Tail(s), t, x)
<1>1. /\ Len(s) \in Nat \ {0} /\ Head(s) = s[1] /\ DOMAIN s = 1..Len(s)
      /\ DOMAIN Tail(s) = 1..(Len(s) - 1)
      /\ \A k \in 1..(Len(s) - 1) : Tail(s)[k] = s[k + 1]
  BY TailIs
<1>2. \A k \in Told(Tail(s)) : /\ k \in Nat /\ k + 1 \in Told(s)
                               /\ Tail(s)[k] = s[k + 1]
  BY <1>1 DEF Told
<1>3. \A k \in Told(s) : k = 1 \/ (k \in Nat /\ k - 1 \in Told(Tail(s)))
  <2> SUFFICES ASSUME NEW k \in Told(s), k # 1
               PROVE  k \in Nat /\ k - 1 \in Told(Tail(s))
    OBVIOUS
  <2>1. k \in 1..Len(s) /\ s[k].k = "timer" BY <1>1 DEF Told
  <2>2. k - 1 \in 1..(Len(s) - 1) /\ (k - 1) + 1 = k BY <1>1, <2>1
  <2>3. Tail(s)[k - 1] = s[k] BY <1>1, <2>2
  <2> QED BY <1>1, <2>1, <2>2, <2>3 DEF Told
<1>4. CASE t # 0 BY <1>4 DEF Says
<1>5. CASE t = 0 /\ Told(Tail(s)) # {}
  <2>1. Told(s) # {} BY <1>2, <1>5
  <2>2. \A k \in Told(s) : s[k].on \/ \E j \in Told(s) : j > k
    BY <1>5, <2>1 DEF Says
  <2>3. ASSUME NEW k \in Told(Tail(s)), ~Tail(s)[k].on
        PROVE  \E j \in Told(Tail(s)) : j > k
    <3>1. PICK j \in Told(s) : j > k + 1 BY <1>2, <2>2, <2>3
    <3>2. j # 1 BY <1>2, <3>1
    <3>3. j \in Nat /\ j - 1 \in Told(Tail(s)) BY <1>3, <3>2
    <3>4. j - 1 > k BY <1>2, <3>1, <3>3
    <3> QED BY <3>3, <3>4
  <2> QED BY <1>5, <2>3 DEF Says
<1>6. CASE t = 0 /\ Told(Tail(s)) = {}
  <2>1. \A k \in Told(s) : k = 1 BY <1>3, <1>6
  <2>2. x
    <3>1. CASE Head(s).k = "timer"
      <4>1. 1 \in Told(s) BY <1>1, <3>1 DEF Told
      <4>2. s[1].on \/ \E j \in Told(s) : j > 1 BY <1>6, <4>1 DEF Says
      <4>3. s[1].on BY <4>2, <2>1
      <4> QED BY <1>1, <3>1, <4>3
    <3>2. CASE Head(s).k # "timer"
      <4>1. 1 \notin Told(s) BY <1>1, <3>2 DEF Told
      <4>2. Told(s) = {} BY <4>1, <2>1
      <4> QED BY <1>6, <3>2, <4>2 DEF Says
    <3> QED BY <3>1, <3>2
  <2> QED BY <1>6, <2>2 DEF Says
<1> QED BY <1>4, <1>5, <1>6

LEMMA StopsTail ==
    ASSUME NEW S, NEW s \in Seq(S), s # <<>>, NEW J, NEW K, NEW c,
           Stops(s, J, c), J \subseteq K, Head(s).k = "stop" => Head(s) \in K
    PROVE  Stops(Tail(s), K, c)
<1>1. /\ Len(s) \in Nat \ {0} /\ Head(s) = s[1] /\ DOMAIN s = 1..Len(s)
      /\ DOMAIN Tail(s) = 1..(Len(s) - 1)
      /\ \A k \in 1..(Len(s) - 1) : Tail(s)[k] = s[k + 1]
  BY TailIs
<1>2. ASSUME NEW k \in DOMAIN s, s[k].k = "stop"
      PROVE  Stops(Tail(s), K, c)
  <2>1. CASE k = 1 BY <1>1, <1>2, <2>1 DEF Stops
  <2>2. CASE k # 1
    <3>1. k - 1 \in 1..(Len(s) - 1) /\ (k - 1) + 1 = k BY <1>1, <2>2
    <3>2. Tail(s)[k - 1] = s[k] BY <1>1, <3>1
    <3> QED BY <1>1, <1>2, <3>1, <3>2 DEF Stops
  <2> QED BY <2>1, <2>2
<1> QED BY <1>2 DEF Stops

\* More messages: none about the timer, or the last of them says what the host
\* wants.
LEMMA SaysMore ==
    ASSUME NEW S, NEW s \in Seq(S), NEW o \in Seq(S), NEW t, NEW x, NEW on,
           NEW J, NEW c, Says(s, t, on) \/ Stops(s, J, c),
           \/ \E m \in SeqSet(o) : m.k = "stop"
           \/ x = t /\ \A m \in SeqSet(o) : m.k # "timer"
           \/ /\ x = 0 /\ t # 0
              /\ \A m \in SeqSet(o) : m.k = "timer" => m.on = (t = 1)
              /\ \E m \in SeqSet(o) : m.k = "timer"
    PROVE  Says(s \o o, x, on) \/ Stops(s \o o, J, c)
<1>1. /\ Len(s) \in Nat /\ Len(o) \in Nat
      /\ DOMAIN s = 1..Len(s) /\ DOMAIN o = 1..Len(o)
      /\ DOMAIN (s \o o) = 1..(Len(s) + Len(o))
      /\ \A k \in 1..Len(s) : (s \o o)[k] = s[k]
  <2>1. s \o o \in Seq(S) /\ Len(s \o o) = Len(s) + Len(o) BY ConcatProperties
  <2>2. \A k \in 1..Len(s) : (s \o o)[k] = s[k] BY ConcatProperties
  <2> QED BY <2>1, <2>2
<1>2. PICK n \in Nat : n = Len(s) BY <1>1
<1>3. ASSUME NEW k \in DOMAIN o
      PROVE  /\ n + k \in DOMAIN (s \o o) /\ (s \o o)[n + k] = o[k]
             /\ \A i \in DOMAIN s : n + k > i
  BY <1>1, <1>2
<1>4. ASSUME NEW i \in DOMAIN (s \o o)
      PROVE  i \in DOMAIN s \/ \E k \in DOMAIN o : i = n + k
  <2>1. i \in 1..(Len(s) + Len(o)) BY <1>1
  <2>2. CASE i <= n BY <1>1, <1>2, <2>1, <2>2
  <2>3. CASE ~(i <= n)
    <3>1. i - n \in 1..Len(o) /\ i = n + (i - n) BY <1>1, <1>2, <2>1, <2>3
    <3> QED BY <3>1, <1>1
  <2> QED BY <2>2, <2>3
<1>5. CASE Stops(s, J, c)
  BY <1>5, <1>1 DEF Stops
<1>6. CASE \E m \in SeqSet(o) : m.k = "stop"
  BY <1>6, <1>3 DEF Stops, SeqSet
<1>7. CASE Says(s, t, on) /\ x = t /\ \A m \in SeqSet(o) : m.k # "timer"
  <2>1. Told(s \o o) = Told(s)
    <3>1. \A k \in DOMAIN o : o[k].k # "timer" BY <1>7 DEF SeqSet
    <3>2. \A i \in Told(s \o o) : i \in Told(s)
      BY <3>1, <1>1, <1>3, <1>4 DEF Told
    <3>3. \A i \in Told(s) : i \in Told(s \o o) BY <1>1 DEF Told
    <3> QED BY <3>2, <3>3
  <2>2. \A k \in Told(s) : (s \o o)[k] = s[k] BY <1>1 DEF Told
  <2> QED BY <1>7, <2>1, <2>2 DEF Says
<1>8. CASE /\ Says(s, t, on) /\ x = 0 /\ t # 0
           /\ \A m \in SeqSet(o) : m.k = "timer" => m.on = (t = 1)
           /\ \E m \in SeqSet(o) : m.k = "timer"
  <2>1. t = 1 BY <1>8 DEF Says
  <2>2. PICK k \in DOMAIN o : o[k].k = "timer" BY <1>8 DEF SeqSet
  <2>3. n + k \in Told(s \o o) BY <2>2, <1>3 DEF Told
  <2>4. \A j \in DOMAIN o : o[j].k = "timer" => o[j].on
    BY <1>8, <2>1 DEF SeqSet
  <2>5. ASSUME NEW i \in Told(s \o o)
        PROVE  (s \o o)[i].on \/ \E j \in Told(s \o o) : j > i
    <3>1. i \in DOMAIN (s \o o) /\ (s \o o)[i].k = "timer" BY DEF Told
    <3>2. CASE i \in DOMAIN s BY <3>2, <1>3, <2>2, <2>3
    <3>3. CASE \E j \in DOMAIN o : i = n + j BY <3>1, <3>3, <1>3, <2>4
    <3> QED BY <1>4, <3>1, <3>2, <3>3
  <2> QED BY <1>8, <2>3, <2>5 DEF Says
<1> QED BY <1>5, <1>6, <1>7, <1>8

timerVars == <<reqRing, jobs, cardStop, timerOn>>

\* The host changes what it wants only when nothing is kept any more, or when
\* the first indication is kept.
LEMMA TimerKept ==
    ASSUME TimerRuns, UNCHANGED timerVars,
           rnrq' # <<>> => (rnrq # <<>> /\ timer' = timer) \/ timer' = 1
    PROVE  TimerRuns'
<1> SUFFICES ASSUME rnrq' # <<>> PROVE TimerWanted' \/ StopSent'
  BY DEF TimerRuns
<1>1. CASE timer' = 1 BY <1>1, TimerIsNext DEF Says
<1>2. CASE rnrq # <<>> /\ timer' = timer
  <2>1. TimerWanted \/ StopSent BY <1>2 DEF TimerRuns
  <2> QED BY <1>2, <2>1, TimerIs, TimerIsNext DEF timerVars
<1> QED BY <1>1, <1>2

\* diva_process_rnr_ind adds nothing to the queue.
LEMMA ProcessNone ==
    ASSUME Kept, NEW d, NEW a, ProcessRnr(d, a), rnrq' # <<>>
    PROVE  rnrq # <<>>
<1> SUFFICES ASSUME rnrq = <<>> PROVE FALSE OBVIOUS
<1>1. PICK f, S : /\ S \subseteq DOMAIN rnrq
                  /\ DOMAIN rnrq' = DOMAIN InOrder(S)
                  /\ f = InOrder(S)
  BY DEF ProcessRnr, Among
<1>2. S = {} BY <1>1
<1>3. 0 \in Nat /\ S \in SUBSET (1..0) BY <1>2
<1>4. InOrder(S) \in Seq(S) /\ Len(InOrder(S)) = Cardinality(S)
  BY <1>3, InOrderIs
<1>5. Cardinality(S) = 0 BY <1>2, FS_EmptySet
<1>6. DOMAIN rnrq' = {} BY <1>1, <1>4, <1>5
<1>7. rnrq' \in Seq(REntry) BY KeptProcess
<1>8. rnrq' = <<>>
  <2>1. PICK q \in Seq(REntry) : q = rnrq' BY <1>7
  <2>2. DOMAIN q = {} /\ DOMAIN q = 1..Len(q) /\ Len(q) \in Nat BY <1>6, <2>1
  <2>3. Len(q) = 0 BY <2>2
  <2> QED BY <2>1, <2>3
<1> QED BY <1>8

LEMMA TimerNext ==
    ASSUME IInv, TimerRuns, [Next]_vars
    PROVE  TimerRuns'
<1>0. Types /\ Locals /\ Kept BY InvGroups DEF IInv, Counts, Groups
<1>1. CASE UNCHANGED vars \/ ClientNext
  BY <1>1, TimerKept DEF vars, ClientNext, Request, Xon, rnrVars, outRing,
                         cardVars, timerVars
<1>2. CASE SysAckReq \/ SysState \/ RcIgnored \/ RcAnswer \/ RcAssign
           \/ IndDropped \/ IndTaken
  <2>1. UNCHANGED timerVars
    BY <1>2 DEF SysAckReq, SysState, RcIgnored, RcAnswer, RcAssign, IndDropped,
                IndTaken, Dispatch, outRing, cardVars, timerVars
  <2>2. UNCHANGED rnrVars
    BY <1>2 DEF SysAckReq, SysState, RcIgnored, RcAnswer, RcAssign, IndDropped,
                IndTaken
  <2> QED BY <2>1, <2>2, TimerKept DEF rnrVars
<1>3. CASE SysRnrInd \/ Oob
  <2>1. PICK d, a : ProcessRnr(d, a) BY <1>3 DEF SysRnrInd, Oob
  <2>2. rnrq' # <<>> => rnrq # <<>> /\ timer' = timer
    BY <1>0, <1>3, <2>1, ProcessNone DEF SysRnrInd, Oob, StopTimer
  <2>3. UNCHANGED timerVars
    BY <1>3 DEF SysRnrInd, Oob, Dispatch, outRing, cardVars, timerVars
  <2> QED BY <2>2, <2>3, TimerKept
<1>4. ASSUME NEW d, CancelRnr(d)
      PROVE  rnrq' # <<>> => rnrq # <<>> /\ timer' = timer
  <2>1. CASE WithId(d) = {}
    BY <1>4, <2>1 DEF CancelRnr, rnrVars
  <2>2. CASE WithId(d) # {}
    <3>1. PICK k \in DOMAIN rnrq : TRUE BY <2>2 DEF WithId
    <3>2. rnrq # <<>> BY <3>1
    <3>3. timer' = StopTimer(rnrq', FALSE) BY <1>4, <2>2 DEF CancelRnr
    <3> QED BY <3>2, <3>3 DEF StopTimer
  <2> QED BY <2>1, <2>2
<1>5. CASE RcRemoved
  <2>1. UNCHANGED timerVars
    BY <1>5 DEF RcRemoved, Dispatch, outRing, cardVars, timerVars
  <2>2. \E d : CancelRnr(d) BY <1>5 DEF RcRemoved
  <2> QED BY <1>4, <2>1, <2>2, TimerKept
<1>6. CASE IndRnr
  <2>1. PICK m : SaveRnr(m) BY <1>6 DEF IndRnr
  <2>2. rnrq' # <<>> => (rnrq # <<>> /\ timer' = timer) \/ timer' = 1
    BY <2>1 DEF SaveRnr, Lost, rnrVars, SaveAs
  <2>3. UNCHANGED timerVars
    BY <1>6 DEF IndRnr, Dispatch, outRing, cardVars, timerVars
  <2> QED BY <2>2, <2>3, TimerKept
<1>7. CASE DpcStart \/ Count \/ IndEnd \/ OutImpossible \/ OutSync
  <2>1. UNCHANGED timerVars
    BY <1>7 DEF DpcStart, Count, IndEnd, OutImpossible, OutSync, outRing,
                cardVars, timerVars
  <2>2. UNCHANGED rnrVars
    BY <1>7 DEF DpcStart, Count, IndEnd, OutImpossible, OutSync
  <2> QED BY <2>1, <2>2, TimerKept DEF rnrVars
<1>8. CASE OutSystem
  <2>1. PICK out \in Seq(SysType) : reqRing' = reqRing \o out /\ TimerTold(out)
    BY <1>0, <1>8, OutSystemIs
  <2>2. UNCHANGED <<rnrq, cardVars>> BY <1>8 DEF OutSystem
  <2>3. ASSUME rnrq # <<>> PROVE TimerWanted' \/ StopSent'
    <3>1. Says(reqRing, timer, timerOn) \/ Stops(reqRing, jobs, cardStop)
      BY <2>3, TimerIs DEF TimerRuns
    <3>2. PICK s \in Seq(ReqType) : s = reqRing BY <1>0 DEF Types
    <3>3. SysType \subseteq ReqType BY Amounts
    <3>4. out \in Seq(ReqType) BY <3>3
    <3>5. Says(s \o out, timer', timerOn) \/ Stops(s \o out, jobs, cardStop)
      BY <2>1, <3>1, <3>2, <3>4, SaysMore DEF TimerTold
    <3>6. s \o out = reqRing' BY <2>1, <3>2
    <3> QED BY <2>2, <3>5, <3>6, TimerIsNext DEF cardVars
  <2> QED BY <2>2, <2>3 DEF TimerRuns
<1>9. CASE OutRequest
  <2>1. PICK e, f :
          /\ e = eno /\ pc = "req" /\ e # Null
          /\ reqRing' = Append(reqRing, ReqMsg(ent[e].Req, ent[e].Id, e, f))
          /\ (\E d : CancelRnr(d)) \/ UNCHANGED rnrVars
          /\ UNCHANGED cardVars
    BY <1>9 DEF OutRequest
  <2>2. rnrq' # <<>> => rnrq # <<>> /\ timer' = timer
    BY <1>4, <2>1 DEF rnrVars
  <2>3. PICK m : m = ReqMsg(ent[e].Req, ent[e].Id, e, f) OBVIOUS
  <2>4. e \in Entity
    BY <1>0, <2>1 DEF Types, TypeOK
  <2>5. m.k \in Code BY <1>0, <2>3, <2>4, EntTypes DEF ReqMsg
  <2>6. PICK s \in Seq(ReqType) : s = reqRing BY <1>0 DEF Types
  <2>7. reqRing' = Append(s, m) BY <2>1, <2>3, <2>6
  <2>8. reqRing' = s \o <<m>> BY <2>7
  <2>9. ASSUME rnrq' # <<>> PROVE TimerWanted' \/ StopSent'
    <3>1. Says(s, timer, timerOn) \/ Stops(s, jobs, cardStop)
      BY <2>2, <2>6, <2>9, TimerIs DEF TimerRuns
    <3>2. PICK S : S = ReqType \cup {m} OBVIOUS
    <3>3. s \in Seq(S) BY <2>6, <3>2
    <3>4. <<m>> \in Seq(S) BY <3>2
    <3>5. \A x \in SeqSet(<<m>>) : x.k # "timer" BY <2>5 DEF SeqSet, Code
    <3>6. Says(s \o <<m>>, timer', timerOn) \/ Stops(s \o <<m>>, jobs, cardStop)
      BY <2>2, <2>9, <3>1, <3>3, <3>4, <3>5, SaysMore
    <3> QED BY <2>1, <2>8, <3>6, TimerIsNext DEF cardVars
  <2> QED BY <2>9 DEF TimerRuns
<1>10. CASE CardReads
  <2>1. PICK m : m = Head(reqRing) /\ CardTake(m)
    BY <1>10 DEF CardReads, CardSystem, CardRequest
  <2>2. PICK s \in Seq(ReqType) : s = reqRing BY <1>0 DEF Types
  <2>3. s # <<>>
    <3>1. Len(reqRing) > staged BY <2>1 DEF CardTake
    <3>2. staged \in Nat BY <1>0, <2>2 DEF Types, TypeOK
    <3> QED BY <2>2, <3>1, <3>2
  <2>4. /\ reqRing' = Tail(s) /\ cardStop' = cardStop
        /\ UNCHANGED rnrVars
    BY <2>1, <2>2 DEF CardTake, HostFrame
  <2>5. /\ timerOn' = IF Head(s).k = "timer" THEN Head(s).on ELSE timerOn
        /\ jobs \subseteq jobs' /\ (Head(s).k = "stop" => Head(s) \in jobs')
    BY <1>10, <2>2 DEF CardReads, CardSystem, CardRequest, Code
  <2>6. ASSUME rnrq # <<>> PROVE TimerWanted' \/ StopSent'
    <3>1. Says(s, timer, timerOn) \/ Stops(s, jobs, cardStop)
      BY <2>2, <2>6, TimerIs DEF TimerRuns
    <3>2. Says(s, timer, timerOn) => Says(Tail(s), timer, timerOn')
      BY <2>3, <2>5, SaysTail
    <3>3. Stops(s, jobs, cardStop) => Stops(Tail(s), jobs', cardStop)
      BY <2>3, <2>5, StopsTail
    <3> QED BY <2>4, <3>1, <3>2, <3>3, TimerIsNext DEF rnrVars
  <2> QED BY <2>4, <2>6 DEF TimerRuns, rnrVars
<1>11. CASE CardNext /\ ~CardReads
  <2>1. UNCHANGED <<reqRing, timerOn, rnrVars>>
    BY <1>11 DEF CardNext, CardReads, CardStops, CardAnswers, CardAssign,
       CardData, CardRemove, CardXon, CardAck, CardInd, CardTick, CardWarn,
       CardJob, CardPost, HostFrame
  <2>2. Stops(reqRing, jobs, cardStop) => Stops(reqRing, jobs', cardStop')
    <3>1. CASE CardStops
      BY <3>1 DEF CardStops, Stops
    <3>2. CASE \E e \in Entity : CardAnswers(e)
      <4>1. PICK j \in jobs : j.k # "stop" /\ jobs' = jobs \ {j}
                              /\ cardStop' = cardStop
        BY <3>2 DEF CardAnswers, CardAssign, CardData, CardRemove, CardJob
      <4> QED BY <4>1 DEF Stops
    <3>3. CASE CardXon \/ CardAck \/ CardInd \/ CardTick \/ CardWarn
      BY <3>3 DEF CardXon, CardAck, CardInd, CardTick, CardWarn
    <3> QED BY <1>11, <3>1, <3>2, <3>3 DEF CardNext
  <2> QED BY <2>1, <2>2, TimerIs, TimerIsNext DEF TimerRuns, rnrVars
<1> QED BY <1>1, <1>2, <1>3, <1>5, <1>6, <1>7, <1>8, <1>9, <1>10, <1>11
    DEF Next, DpcNext, IndNext

\* While an indication is kept for later, the card's timer runs or is going to
\* be started, unless the card is told to stop (vidi_di.c:875, 918).
THEOREM TimerSafe == Spec => []TimerRuns
<1>1. Init => TimerRuns BY DEF Init, TimerRuns
<1>2. IInv /\ TimerRuns /\ [Next]_vars => TimerRuns' BY TimerNext
<1> QED BY <1>1, <1>2, InvSafe, PTL DEF Spec

=============================================================================
