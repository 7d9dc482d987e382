---------------------------- MODULE XdiReqSteps -----------------------------
(*****************************************************************************)
(* The steps of the DPC, the answers to ASSIGN, request() and pr_out keep    *)
(* the invariant over the histories of XdiReqProofs (kernel/di.c,            *)
(* kernel/io.c).                                                             *)
(*****************************************************************************)
EXTENDS XdiReqProofs, SequenceTheorems

-----------------------------------------------------------------------------
(* Lists through e_tbl[].next *)

\* A set of numbers that is not empty has a least element.
LEMMA LeastNat ==
    ASSUME NEW T, T \subseteq Nat, T # {}
    PROVE  \E n \in T : \A m \in T : n <= m
  <1>1. \E x \in T : \A y \in T : <<y, x>> \notin OpToRel(<, Nat)
    BY NatLessThanWellFounded, WFMin
  <1>2. PICK x \in T : \A y \in T : <<y, x>> \notin OpToRel(<, Nat) BY <1>1
  <1>3. ASSUME NEW y \in T PROVE x <= y
    <2>1. x \in Nat /\ y \in Nat BY <1>3
    <2>2. ~(y < x) BY <1>2, <2>1 DEF OpToRel
    <2>3. QED BY <2>1, <2>2
  <1>4. QED BY <1>3

\* The walk w from h along nx, for n steps
Steps(nx, h, n, w) ==
    w = [k \in 0..n |-> IF k = 0 THEN h ELSE IF w[k-1] = 0 THEN 0 ELSE nx[w[k-1]]]

\* The recursive function of Walk exists.
LEMMA StepsExist ==
    ASSUME NEW nx, NEW h, NEW N \in Nat
    PROVE  \E w : Steps(nx, h, N, w)
  <1> DEFINE Bad == {n \in 0..N : ~\E w : Steps(nx, h, n, w)}
  <1>1. Bad = {}
    <2> SUFFICES ASSUME Bad # {} PROVE FALSE OBVIOUS
    <2>0. Bad \subseteq Nat OBVIOUS
    <2>1. PICK n \in Bad : \A m \in Bad : n <= m
      <3> HIDE DEF Bad
      <3> QED BY LeastNat, <2>0
    <2>2. n # 0
      <3>1. Steps(nx, h, 0, [k \in 0..0 |-> h]) BY DEF Steps
      <3>2. QED BY <3>1, <2>1
    <2>3. n - 1 \in 0..N /\ n - 1 \notin Bad BY <2>1, <2>2
    <2>4. PICK v : Steps(nx, h, n - 1, v) BY <2>3
    <2> DEFINE w == [k \in 0..n |-> IF k = 0 THEN h
                                    ELSE IF v[k-1] = 0 THEN 0 ELSE nx[v[k-1]]]
    <2>5. ASSUME NEW k \in 0..n, k # 0 PROVE w[k - 1] = v[k - 1]
      <3>1. k - 1 \in 0..(n - 1) BY <2>1, <2>5
      <3>2. v[k - 1] = IF k - 1 = 0 THEN h
                       ELSE IF v[k - 1 - 1] = 0 THEN 0 ELSE nx[v[k - 1 - 1]]
        BY <2>4, <3>1 DEF Steps
      <3>3. k - 1 \in 0..n BY <3>1, <2>1
      <3>4. QED BY <3>2, <3>3
    <2>6. Steps(nx, h, n, w) BY <2>5 DEF Steps
    <2>7. QED BY <2>6, <2>1
  <1>2. QED BY <1>1

\* Walk follows next from h as the loop of isdn_rc() over the assign list does.
LEMMA WalkSteps ==
    ASSUME XdiAssumption, NEW h
    PROVE  Steps(next, h, EMax, Walk(h))
  <1> DEFINE P(w) == w = [k \in 0..EMax |-> IF k = 0 THEN h
                            ELSE IF w[k-1] = 0 THEN 0 ELSE next[w[k-1]]]
  <1>1. Walk(h) = CHOOSE w : P(w) BY DEF Walk
  <1>2. EMax \in Nat BY DEF XdiAssumption
  <1>3. \E w : P(w)
    <2>1. PICK w : Steps(next, h, EMax, w) BY <1>2, StepsExist
    <2>2. P(w) BY <2>1 DEF Steps
    <2>3. QED BY <2>2
  <1>4. P(CHOOSE w : P(w)) BY <1>3
  <1>5. QED BY <1>1, <1>4 DEF Steps

\* s lists n different slots, linked from h along nx.
Linked(nx, h, n, s) ==
    /\ n \in Nat
    /\ \A k \in 0..(n - 1) : s[k] \in Slot
    /\ \A j, k \in 0..(n - 1) : s[j] = s[k] => j = k
    /\ (n > 0 => h = s[0])
    /\ \A k \in 0..(n - 1) : k + 1 < n => nx[s[k]] = s[k + 1]

\* There are no more slots than EMax.
LEMMA LinkedShort ==
    ASSUME XdiAssumption, NEW nx, NEW h, NEW n, NEW s, Linked(nx, h, n, s)
    PROVE  n <= EMax
  <1>1. n \in Nat /\ EMax \in Nat BY DEF Linked, XdiAssumption
  <1> DEFINE f == [k \in 0..(n - 1) |-> s[k]]
  <1>2. f \in Injection(0..(n - 1), Slot)
    <2>1. f \in [0..(n - 1) -> Slot] BY DEF Linked
    <2>2. \A a, b \in 0..(n - 1) : f[a] = f[b] => a = b BY DEF Linked
    <2>3. QED BY <2>1, <2>2 DEF Injection, IsInjective
  <1>3. IsFiniteSet(Slot) /\ Cardinality(Slot) = EMax
    <2>1. 1 \in Int /\ EMax \in Int BY <1>1
    <2>2. IsFiniteSet(1..EMax) /\ Cardinality(1..EMax) = IF 1 > EMax THEN 0 ELSE EMax - 1 + 1
      BY <2>1, FS_Interval
    <2>3. EMax > 0 BY DEF XdiAssumption
    <2>4. QED BY <2>2, <2>3, <1>1 DEF Slot
  <1>4. Cardinality(0..(n - 1)) = n
    <2>1. 0 \in Int /\ n - 1 \in Int BY <1>1
    <2>2. Cardinality(0..(n - 1)) = IF 0 > n - 1 THEN 0 ELSE n - 1 - 0 + 1
      BY <2>1, FS_Interval
    <2>3. QED BY <2>2, <1>1
  <1>5. Cardinality(0..(n - 1)) <= Cardinality(Slot) BY <1>2, <1>3, FS_Injection
  <1>6. QED BY <1>3, <1>4, <1>5

\* The walk passes the linked slots in order.
LEMMA StepsLinked ==
    ASSUME XdiAssumption, NEW nx, NEW h, NEW n, NEW s, Linked(nx, h, n, s),
           NEW w, Steps(nx, h, EMax, w)
    PROVE  \A k \in 0..(n - 1) : k \in 0..EMax /\ w[k] = s[k]
  <1>0. n <= EMax BY LinkedShort
  <1>1. n \in Nat /\ EMax \in Nat /\ n <= EMax BY <1>0 DEF Linked, XdiAssumption
  <1>2. 0 \notin Slot BY DEF Slot
  <1> DEFINE Bad == {k \in 0..(n - 1) : w[k] # s[k]}
  <1>3. Bad = {}
    <2> SUFFICES ASSUME Bad # {} PROVE FALSE OBVIOUS
    <2>0. Bad \subseteq Nat OBVIOUS
    <2>1. PICK k \in Bad : \A m \in Bad : k <= m
      <3> HIDE DEF Bad
      <3> QED BY LeastNat, <2>0
    <2>2. k \in 0..EMax /\ k \in 0..(n - 1) BY <2>1, <1>1
    <2>3. w[k] = IF k = 0 THEN h ELSE IF w[k-1] = 0 THEN 0 ELSE nx[w[k-1]]
      BY <2>2 DEF Steps
    <2>4. k # 0
      <3>1. n > 0 BY <2>2, <1>1
      <3>2. h = s[0] BY <3>1 DEF Linked
      <3>3. QED BY <3>2, <2>1, <2>3
    <2>5. k - 1 \in 0..(n - 1) /\ ~(k <= k - 1) /\ (k - 1) + 1 < n /\ (k - 1) + 1 = k
      BY <2>2, <2>4, <1>1
    <2>6. w[k - 1] = s[k - 1] BY <2>1, <2>5
    <2>7. s[k - 1] \in Slot /\ nx[s[k - 1]] = s[(k - 1) + 1] BY <2>5 DEF Linked
    <2>8. QED BY <2>1, <2>3, <2>4, <2>5, <2>6, <2>7, <1>2
  <1>4. QED BY <1>1, <1>3

\* A list that ends in 0 leads nowhere else.
LEMMA StepsEnd ==
    ASSUME XdiAssumption, NEW nx, NEW h, NEW n, NEW s, Linked(nx, h, n, s),
           NEW w, Steps(nx, h, EMax, w),
           n = 0 => h = 0, n > 0 => nx[s[n - 1]] = 0
    PROVE  \A k \in 0..EMax : k >= n => w[k] = 0
  <1>0. n <= EMax BY LinkedShort
  <1>1. n \in Nat /\ EMax \in Nat /\ n <= EMax BY <1>0 DEF Linked, XdiAssumption
  <1>2. 0 \notin Slot BY DEF Slot
  <1> DEFINE Bad == {k \in 0..EMax : k >= n /\ w[k] # 0}
  <1>3. Bad = {}
    <2> SUFFICES ASSUME Bad # {} PROVE FALSE OBVIOUS
    <2>0. Bad \subseteq Nat OBVIOUS
    <2>1. PICK k \in Bad : \A m \in Bad : k <= m
      <3> HIDE DEF Bad
      <3> QED BY LeastNat, <2>0
    <2>2. k \in 0..EMax /\ k >= n /\ w[k] # 0 BY <2>1
    <2>3. w[k] = IF k = 0 THEN h ELSE IF w[k-1] = 0 THEN 0 ELSE nx[w[k-1]]
      BY <2>2 DEF Steps
    <2>4. k # 0 BY <2>2, <2>3, <1>1
    <2>5. k - 1 \in 0..EMax /\ ~(k <= k - 1) BY <2>2, <2>4, <1>1
    <2>6. w[k - 1] # 0 BY <2>2, <2>3, <2>4
    <2>7. ~(k - 1 >= n) BY <2>1, <2>5, <2>6
    <2>8. k = n /\ n > 0 BY <2>2, <2>4, <2>7, <1>1
    <2>9. n - 1 \in 0..(n - 1) BY <2>8, <1>1
    <2>10. w[n - 1] = s[n - 1] BY <2>9, StepsLinked
    <2>11. QED BY <2>2, <2>3, <2>4, <2>6, <2>8, <2>10
  <1>4. QED BY <1>3

-----------------------------------------------------------------------------
(* Steps that leave the histories alone *)

\* The step only moves messages and the DPC.
QuietStep ==
    UNCHANGED <<wait, fcPend, clFc, clSkip, ent, tbl, next, ref, head, tail, assign,
                IdTable, fcId, rmPending, noCancel, trapped, cur, cardIds, held>>

\* A quiet step keeps the invariant when it keeps the messages' order.
LEMMA Quiet ==
    ASSUME NEW g, Whole(g), TypeOK', QuietStep, Pipes(g)', Ctl'
    PROVE  Whole(g)'
  <1> USE DEF QuietStep
  <1>0. /\ IdTableSound /\ NoTrap /\ GhostType(g) /\ Forms(g)
        /\ \A e \in Entity : EntityAt(e, g.st[e]) /\ Msgs(g, e)
        /\ Queue(g) /\ Assigns(g) /\ Refs(g)
        /\ \A d \in Ids : IdAt(g, d)
        /\ \A c \in Chan, d \in Ids : <<c, d>> \in held => HoldAt(g, c, d)
        /\ held \subseteq Chan \X Ids
        /\ Pending(g) /\ Flows(g)
    BY Parts
  <1>1. IdTableSound' BY <1>0 DEF IdTableSound
  <1>2. NoTrap' BY <1>0 DEF NoTrap
  <1>3. \A e \in Entity : EntityAt(e, g.st[e])'
    BY <1>0 DEF EntityAt, HasSlot, NoSlot
  <1>4. Queue(g)' BY <1>0 DEF Queue
  <1>5. Assigns(g)' BY <1>0 DEF Assigns
  <1>6. Refs(g)' BY <1>0 DEF Refs
  <1>7. \A d \in Ids : IdAt(g, d)' BY <1>0 DEF IdAt, Unowned, Removing
  <1>8. \A c \in Chan, d \in Ids : <<c, d>> \in held' => HoldAt(g, c, d)'
    BY <1>0 DEF HoldAt, Unowned, Removing
  <1>9. \A e \in Entity : Msgs(g, e)'
    BY <1>0 DEF Msgs, SentAt, PlainAt, Removing
  <1>10. Pending(g)' BY <1>0 DEF Pending, Removing
  <1>11. Flows(g)' BY <1>0 DEF Flows, Flow
  <1>12. Inv(g)'
    BY <1>0, <1>3, <1>4, <1>5, <1>6, <1>7, <1>8, <1>9, <1>10, <1>11 DEF Inv
  <1>13. QED BY <1>1, <1>2, <1>12 DEF Whole

\* The messages stay where they are.
LEMMA PipesFrame ==
    ASSUME NEW g, Pipes(g), UNCHANGED <<rcBuf, outq, inbox, batch>>
    PROVE  Pipes(g)'
  BY DEF Pipes

\* The card hands its return codes over.
LEMMA PipesPost ==
    ASSUME TypeOK, NEW g, Pipes(g), rcBuf = <<>>, rcBuf' = outq, outq' = <<>>,
           UNCHANGED <<inbox, batch>>, GhostType(g)
    PROVE  Pipes(g)'
  <1>1. Len(rcBuf) = 0 /\ Len(outq) \in Nat /\ Len(outq') = 0 /\ g.got \in Nat
    BY GhostParts DEF TypeOK
  <1>2. Len(g.R) = g.got + Len(rcBuf') + Len(outq') BY <1>1 DEF Pipes
  <1>3. \A k \in 1..Len(rcBuf') : rcBuf'[k] = g.R[g.got + k]
    <2> TAKE k \in 1..Len(rcBuf')
    <2>1. k \in 1..Len(outq) OBVIOUS
    <2>2. outq[k] = g.R[g.got + Len(rcBuf) + k] BY <2>1 DEF Pipes
    <2>3. g.got + Len(rcBuf) + k = g.got + k BY <1>1, <2>1
    <2>4. QED BY <2>2, <2>3
  <1>4. \A k \in 1..Len(outq') : outq'[k] = g.R[g.got + Len(rcBuf') + k]
    BY <1>1
  <1>5. QED BY <1>2, <1>3, <1>4 DEF Pipes

\* pr_out passes its buffers to the card.
LEMMA PipesPass ==
    ASSUME TypeOK, NEW g, Pipes(g), inbox' = inbox \o batch, batch' = <<>>,
           UNCHANGED <<rcBuf, outq>>, GhostType(g)
    PROVE  Pipes(g)'
  <1>0. inbox \in Seq(REQ) /\ batch \in Seq(REQ) BY DEF TypeOK
  <1>1. /\ Len(inbox) \in Nat /\ Len(batch) \in Nat /\ Len(batch') = 0 /\ g.tk \in Nat
        /\ Len(inbox \o batch) = Len(inbox) + Len(batch)
        /\ \A k \in 1..Len(inbox) : (inbox \o batch)[k] = inbox[k]
        /\ \A k \in 1..Len(batch) : (inbox \o batch)[Len(inbox) + k] = batch[k]
    BY <1>0, GhostParts
  <1>2. Len(g.Q) = g.tk + Len(inbox') + Len(batch') BY <1>1 DEF Pipes
  <1>3. \A k \in 1..Len(inbox') : inbox'[k] = g.Q[g.tk + k]
    <2> TAKE k \in 1..Len(inbox')
    <2>1. k \in 1..(Len(inbox) + Len(batch)) BY <1>1
    <2>2. CASE k \in 1..Len(inbox)
      BY <2>2, <1>1 DEF Pipes
    <2>3. CASE k > Len(inbox)
      <3>1. PICK j : j = k - Len(inbox) OBVIOUS
      <3>2. j \in 1..Len(batch) /\ k = Len(inbox) + j BY <2>1, <2>3, <3>1, <1>1
      <3>3. inbox'[k] = batch[j] BY <3>2, <1>1
      <3>4. batch[j] = g.Q[g.tk + Len(inbox) + j] BY <3>2 DEF Pipes
      <3>5. g.tk + Len(inbox) + j = g.tk + k BY <3>2, <1>1
      <3>6. QED BY <3>3, <3>4, <3>5
    <2>4. QED BY <2>1, <2>2, <2>3, <1>1
  <1>4. \A k \in 1..Len(batch') : batch'[k] = g.Q[g.tk + Len(inbox') + k]
    BY <1>1
  <1>5. QED BY <1>2, <1>3, <1>4 DEF Pipes

\* An entity of an UREMOVE there is none: pr_out forgets nobody.
LEMMA NoneUnreturned ==
    ASSUME NEW g, Whole(g)
    PROVE  ~Unreturned(this)
  <1>1. \A e \in Entity : EntityAt(e, g.st[e]) BY Parts
  <1>2. QED BY <1>1 DEF Unreturned, EntityAt

\* The quiet steps of the DPC keep the invariant.
LEMMA DpcQuiet ==
    ASSUME XdiAssumption, NEW g, Whole(g), TypeOK',
           DpcStart \/ ClrIrq \/ OutLook \/ OutEnd \/ RcDone \/ CardPost
    PROVE  Whole(g)'
  <1> USE DEF clientVars, tblVars, queueVars, idVars, outVars, cardVars, ramVars
  <1>0. TypeOK /\ Ctl /\ Pipes(g) /\ GhostType(g) BY Parts
  <1>1. CASE DpcStart
    <2>1. QuietStep /\ UNCHANGED <<rcBuf, outq, inbox, batch>>
      BY <1>1 DEF DpcStart, QuietStep
    <2>2. Ctl' BY <1>0, <1>1 DEF DpcStart, Ctl
    <2>3. QED BY <2>1, <2>2, <1>0, PipesFrame, Quiet
  <1>2. CASE ClrIrq
    <2>1. QuietStep /\ UNCHANGED <<rcBuf, outq, inbox, batch>>
      BY <1>2 DEF ClrIrq, QuietStep
    <2>2. Ctl' BY <1>0, <1>2 DEF ClrIrq, Ctl
    <2>3. QED BY <2>1, <2>2, <1>0, PipesFrame, Quiet
  <1>3. CASE OutLook
    <2>1. QuietStep /\ UNCHANGED <<rcBuf, outq, inbox, batch>>
      BY <1>3 DEF OutLook, QuietStep
    <2>2. Ctl' BY <1>0, <1>3 DEF OutLook, Ctl, AfterOut
    <2>3. QED BY <2>1, <2>2, <1>0, PipesFrame, Quiet
  <1>4. CASE OutEnd
    <2>0. ~Unreturned(this) BY NoneUnreturned
    <2>1. QuietStep /\ inbox' = inbox \o batch /\ batch' = <<>> /\ UNCHANGED <<rcBuf, outq>>
      BY <1>4, <2>0 DEF OutEnd, QuietStep
    <2>2. Ctl'
      <3>1. /\ UNCHANGED <<irq, rcBuf, phase, cur, tbl, IdTable, ent>>
            /\ pc = "take" /\ pc' = AfterOut
        BY <1>4, <2>0 DEF OutEnd
      <3>2. QED BY <3>1, <1>0 DEF Ctl, AfterOut
    <2>3. QED BY <2>1, <2>2, <1>0, PipesPass, Quiet
  <1>5. CASE RcDone
    <2>1. QuietStep /\ UNCHANGED <<rcBuf, outq, inbox, batch>>
      BY <1>5 DEF RcDone, QuietStep
    <2>2. Ctl' BY <1>0, <1>5 DEF RcDone, Ctl
    <2>3. QED BY <2>1, <2>2, <1>0, PipesFrame, Quiet
  <1>6. CASE CardPost
    <2>0. rcBuf = <<>> BY <1>0, <1>6 DEF CardPost, Ctl
    <2>1. QuietStep /\ rcBuf' = outq /\ outq' = <<>> /\ UNCHANGED <<inbox, batch>>
      BY <1>6 DEF CardPost, CardFrame, QuietStep
    <2>2. Ctl' BY <1>0, <1>6 DEF CardPost, CardFrame, Ctl
    <2>3. QED BY <2>0, <2>1, <2>2, <1>0, PipesPost, Quiet
  <1>7. QED BY <1>1, <1>2, <1>3, <1>4, <1>5, <1>6

-----------------------------------------------------------------------------
(* The assign list *)

\* The assign list is linked from assign, the latest ASSIGN first.
LEMMA AssignLinked ==
    ASSUME NEW g, Whole(g), NEW n, n = Len(g.S) - g.done
    PROVE  Linked(next, assign, n, [k \in 0..(n - 1) |-> g.S[Len(g.S) - k]])
  <1>1. PICK L, z : L = Len(g.S) /\ z = g.done OBVIOUS
  <1>2. L \in Nat /\ z \in Nat /\ z <= L /\ n = L - z /\ n \in Nat
    BY <1>1, Parts, GhostParts
  <1>3. Assigns(g) /\ GhostType(g) BY Parts
  <1>4. \A k \in 0..(n - 1) : L - k \in (z + 1)..L BY <1>2
  <1>5. SLive(g) = (z + 1)..L BY <1>1 DEF SLive
  <1>6. PICK s : s = [k \in 0..(n - 1) |-> g.S[L - k]] OBVIOUS
  <1>7. \A k \in 0..(n - 1) : s[k] \in Slot
    <2>1. \A k \in SLive(g) : g.S[k] \in Slot BY <1>3, GhostParts DEF SLive
    <2>2. QED BY <2>1, <1>4, <1>5, <1>6
  <1>8. \A j, k \in 0..(n - 1) : s[j] = s[k] => j = k
    <2> TAKE j, k \in 0..(n - 1)
    <2> HAVE s[j] = s[k]
    <2>1. L - j \in SLive(g) /\ L - k \in SLive(g) /\ g.S[L - j] = g.S[L - k]
      BY <1>4, <1>5, <1>6
    <2>2. L - j = L - k BY <2>1, <1>3 DEF Assigns
    <2>3. QED BY <2>2, <1>2
  <1>9. n > 0 => assign = s[0]
    <2> HAVE n > 0
    <2>1. z # L /\ L - 0 = L /\ 0 \in 0..(n - 1) BY <1>2
    <2>2. assign = g.S[L] BY <2>1, <1>1, <1>3 DEF Assigns
    <2>3. QED BY <2>1, <2>2, <1>6
  <1>10. \A k \in 0..(n - 1) : k + 1 < n => next[s[k]] = s[k + 1]
    <2> TAKE k \in 0..(n - 1)
    <2> HAVE k + 1 < n
    <2>1. /\ k + 1 \in 0..(n - 1) /\ L - k \in (z + 1)..L /\ L - k - 1 \in (z + 1)..L
          /\ L - (k + 1) = L - k - 1
      BY <1>2
    <2>2. next[g.S[L - k]] = g.S[L - k - 1] BY <2>1, <1>3, <1>5 DEF Assigns
    <2>3. QED BY <2>1, <2>2, <1>6
  <1>11. Linked(next, assign, n, s) BY <1>2, <1>7, <1>8, <1>9, <1>10 DEF Linked
  <1>12. QED BY <1>1, <1>6, <1>11

\* get_assign() finds the slot of a pending ASSIGN from its reference.
LEMMA GetAssign ==
    ASSUME XdiAssumption, NEW g, Whole(g), NEW m \in SLive(g)
    PROVE  get_assign(ref[g.S[m]]) = g.S[m]
  <1>1. PICK L, z, n, q : L = Len(g.S) /\ z = g.done /\ n = L - z /\ q = L - m OBVIOUS
  <1>2. L \in Nat /\ z \in Nat /\ z <= L /\ n = L - z /\ n \in Nat
    BY <1>1, Parts, GhostParts
  <1>3. Assigns(g) /\ GhostType(g) BY Parts
  <1>4. m \in (z + 1)..L /\ SLive(g) = (z + 1)..L BY <1>1 DEF SLive
  <1>5. q \in 0..(n - 1) /\ L - q = m /\ m = L - q BY <1>1, <1>2, <1>4
  <1>6. PICK s : s = [k \in 0..(n - 1) |-> g.S[L - k]] OBVIOUS
  <1>7. Linked(next, assign, n, s) BY <1>1, <1>6, AssignLinked
  <1>8. PICK w : w = Walk(assign) OBVIOUS
  <1>9. Steps(next, assign, EMax, w) BY <1>8, WalkSteps
  <1>10. \A k \in 0..(n - 1) : k \in 0..EMax /\ w[k] = s[k] BY <1>7, <1>9, StepsLinked
  <1>11. \A k \in 0..(n - 1) : w[k] = g.S[L - k] BY <1>6, <1>10
  <1>12. PICK r : r = ref[g.S[m]] OBVIOUS
  <1> DEFINE Hit(k) == w[k] # 0 /\ ref[w[k]] = r
  <1>13. \A k \in SLive(g) : g.S[k] \in Slot BY <1>3, GhostParts DEF SLive
  <1>14. 0 \notin Slot BY DEF Slot
  <1>15. w[q] = g.S[m] BY <1>5, <1>11
  <1>16. q \in 0..EMax /\ Hit(q) BY <1>4, <1>5, <1>10, <1>12, <1>13, <1>14, <1>15
  <1>17. EMax \in Nat BY DEF XdiAssumption
  <1>18. \A k \in 0..EMax : Hit(k) /\ (\A j \in 0..(k - 1) : ~Hit(j)) => k = q
    <2> TAKE k \in 0..EMax
    <2> HAVE Hit(k) /\ \A j \in 0..(k - 1) : ~Hit(j)
    <2>1. q \notin 0..(k - 1) BY <1>16
    <2>2. k \in 0..(n - 1) BY <2>1, <1>2, <1>5, <1>17
    <2>3. L - k \in SLive(g) BY <2>2, <1>2, <1>4
    <2>4. ref[g.S[L - k]] = ref[g.S[m]] BY <2>2, <1>11, <1>12
    <2>5. L - k = m BY <2>3, <2>4, <1>3 DEF Assigns
    <2>6. QED BY <2>2, <2>5, <1>1, <1>2
  <1>19. \E k \in 0..EMax : Hit(k) /\ \A j \in 0..(k - 1) : ~Hit(j)
    <2> DEFINE H == {k \in 0..EMax : Hit(k)}
    <2>1. H \subseteq Nat /\ H # {} BY <1>16, <1>17
    <2>2. PICK k \in H : \A j \in H : k <= j
      <3> HIDE DEF H
      <3> QED BY <2>1, LeastNat
    <2>3. k \in 0..EMax /\ Hit(k) BY <2>2
    <2>4. \A j \in 0..(k - 1) : j \in 0..EMax /\ ~(k <= j) BY <2>3, <1>17
    <2>5. \A j \in 0..(k - 1) : ~Hit(j) BY <2>2, <2>4
    <2>6. QED BY <2>3, <2>5
  <1>20. (CHOOSE k \in 0..EMax : Hit(k) /\ \A j \in 0..(k - 1) : ~Hit(j)) = q
    BY <1>18, <1>19
  <1>21. get_assign(r) = w[CHOOSE k \in 0..EMax : Hit(k) /\ \A j \in 0..(k - 1) : ~Hit(j)]
    BY <1>8, <1>16 DEF get_assign
  <1>22. QED BY <1>12, <1>15, <1>20, <1>21

\* The answer to an ASSIGN is to the oldest one on the list.
LEMMA AnsweredIs ==
    ASSUME XdiAssumption, NEW g, Whole(g), rcBuf # <<>>, NEW r, r = Head(rcBuf),
           NEW p, p = g.got + 1
    PROVE  /\ r \in RC /\ r = g.R[p] /\ p \in RLive(g) /\ RcForm(r)
           /\ \A k \in RLive(g) : p <= k
           /\ (r.Reference # 0 =>
                 /\ g.done + 1 \in SLive(g) /\ g.done + 1 <= g.ans
                 /\ r.Reference = ref[g.S[g.done + 1]]
                 /\ get_assign(r.Reference) = g.S[g.done + 1]
                 /\ \A k \in RLive(g) : g.R[k].Reference = r.Reference => k = p)
  <1>1. TypeOK /\ Pipes(g) /\ GhostType(g) /\ Forms(g) /\ Refs(g) /\ Assigns(g) BY Parts
  <1>2. r \in RC BY <1>1, ReturnCode
  <1>3. rcBuf \in Seq(RC) /\ outq \in Seq(RC) BY <1>1 DEF TypeOK
  <1>4. 1 \in 1..Len(rcBuf) /\ r = rcBuf[1] /\ Len(rcBuf) \in Nat /\ Len(outq) \in Nat
        /\ Len(rcBuf) >= 1
    BY <1>3
  <1>5. r = g.R[p] BY <1>1, <1>4 DEF Pipes
  <1>6. Len(g.R) = g.got + Len(rcBuf) + Len(outq) /\ g.got \in Nat BY <1>1, GhostParts DEF Pipes
  <1>7. p \in RLive(g) /\ \A k \in RLive(g) : k \in Int /\ p \in Int /\ p <= k
    BY <1>4, <1>6 DEF RLive
  <1>8. RcForm(r) BY <1>1, <1>5, <1>7 DEF Forms
  <1>9. ASSUME r.Reference # 0
        PROVE  /\ g.done + 1 \in SLive(g) /\ g.done + 1 <= g.ans
               /\ r.Reference = ref[g.S[g.done + 1]]
               /\ get_assign(r.Reference) = g.S[g.done + 1]
               /\ \A k \in RLive(g) : g.R[k].Reference = r.Reference => k = p
    <2>1. PICK n \in (g.done + 1)..g.ans : g.R[p].Reference = ref[g.S[n]]
      BY <1>1, <1>5, <1>7, <1>9 DEF Refs
    <2>2. /\ g.done \in Nat /\ g.ans \in Nat /\ Len(g.S) \in Nat /\ g.ans <= Len(g.S)
          /\ n \in Nat /\ g.done + 1 <= n /\ n <= g.ans
      BY <2>1, <1>1, GhostParts
    <2>3. g.done + 1 \in (g.done + 1)..g.ans /\ g.done + 1 \in SLive(g) /\ n \in Int
          /\ g.done + 1 <= g.ans /\ g.done + 1 \in Int
      BY <2>2 DEF SLive
    <2>4. PICK k \in RLive(g) : g.R[k].Reference = ref[g.S[g.done + 1]]
      BY <2>3, <1>1 DEF Refs
    <2>o. \A p2, r2 \in RLive(g), m2, n2 \in (g.done + 1)..g.ans :
            g.R[p2].Reference = ref[g.S[m2]] /\ g.R[r2].Reference = ref[g.S[n2]]
              /\ p2 < r2 => m2 < n2
      BY <1>1 DEF Refs
    <2>5. k = p
      <3> SUFFICES ASSUME k # p PROVE FALSE OBVIOUS
      <3>1. p < k BY <1>7
      <3>2. n < g.done + 1
        <4>1. p \in RLive(g) /\ k \in RLive(g) /\ n \in (g.done + 1)..g.ans
              /\ g.done + 1 \in (g.done + 1)..g.ans
          BY <1>7, <2>1, <2>3, <2>4
        <4>2. QED BY <4>1, <3>1, <2>1, <2>4, <2>o, Zenon
      <3>3. QED BY <3>2, <2>2
    <2>6. r.Reference = ref[g.S[g.done + 1]] BY <2>4, <2>5, <1>5
    <2>7. get_assign(ref[g.S[g.done + 1]]) = g.S[g.done + 1]
      BY <2>3, GetAssign
    <2>8. ASSUME NEW j \in RLive(g), g.R[j].Reference = r.Reference, j # p PROVE FALSE
      <3>1. p < j BY <2>8, <1>7
      <3>2. g.done + 1 < g.done + 1
        <4>1. p \in RLive(g) /\ j \in RLive(g) /\ g.done + 1 \in (g.done + 1)..g.ans
              /\ g.R[p].Reference = ref[g.S[g.done + 1]]
              /\ g.R[j].Reference = ref[g.S[g.done + 1]]
          BY <1>5, <1>7, <2>3, <2>6, <2>8
        <4>2. QED BY <4>1, <3>1, <2>o, Zenon
      <3>3. QED BY <3>2, <2>2
    <2>9. QED BY <2>3, <2>6, <2>7, <2>8
  <1>10. QED BY <1>2, <1>5, <1>7, <1>8, <1>9

-----------------------------------------------------------------------------
(* Return codes that are not for any entity *)

\* A return code for an id nobody has is skipped.
SkipStep ==
    /\ pc = "rc" /\ rcBuf # <<>> /\ rcBuf' = Tail(rcBuf)
    /\ Head(rcBuf).Reference = 0 /\ Head(rcBuf).Rc # "ASSIGN_OK"
    /\ (Head(rcBuf).RcId # 0 => Unowned(Head(rcBuf).RcId))
    /\ QuietStep /\ UNCHANGED <<pc, phase, irq, outq, inbox, batch>>

\* A return code that nobody waits for is dropped.
LEMMA SkipKeeps ==
    ASSUME XdiAssumption, NEW g, Whole(g), TypeOK', SkipStep
    PROVE  \E h : Whole(h)'
  <1>1. /\ TypeOK /\ Ctl /\ IdTableSound /\ NoTrap
        /\ GhostType(g) /\ Pipes(g) /\ Forms(g)
        /\ Queue(g) /\ Assigns(g) /\ Refs(g)
        /\ Pending(g) /\ Flows(g) /\ held \subseteq Chan \X Ids
    BY Parts
  <1>2. PICK p, d : p = g.got + 1 /\ d = Head(rcBuf).RcId OBVIOUS
  <1>3. PICK st : st = g.st OBVIOUS
  <1>4. PICK h : Took(g, h, st) BY DEF Took
  <1>5. rcBuf # <<>> /\ rcBuf' = Tail(rcBuf) /\ UNCHANGED <<outq, inbox, batch>>
    BY DEF SkipStep
  <1>6. st \in [Entity -> Stage] BY <1>1, <1>3, GhostParts
  <1>7. /\ GhostType(h) /\ h.q = g.q /\ h.out = g.out /\ h.S = g.S /\ h.done = g.done
        /\ h.ans = g.ans /\ h.R = g.R /\ h.got = g.got + 1 /\ h.Q = g.Q
        /\ h.tk = g.tk /\ h.st = st
    BY <1>1, <1>4, <1>5, <1>6, TookParts
  <1>8. /\ Pipes(h)' /\ SameItems(g, h)
        /\ p \in RLive(g) /\ Head(rcBuf) = g.R[p]
        /\ RLive(h) = RLive(g) \ {p} /\ RqLive(h) = RqLive(g)
        /\ \A k \in RLive(g) : p <= k
    BY <1>1, <1>2, <1>5, <1>7, TakeRc
  <1>9. g.R[p].RcId = d /\ g.R[p].Rc # "ASSIGN_OK" /\ g.R[p].Reference = 0
        /\ (d # 0 => Unowned(d))
    BY <1>2, <1>8 DEF SkipStep
  <1>10. \A x : x # 0 /\ x # d => SameMsgs(g, h, x)
    BY <1>8, <1>9, TakeView
  <1>11. \A x : /\ Sent(h, x) = Sent(g, x) /\ News(h, x) = News(g, x)
    <2> TAKE x
    <2>1. Sent(h, x) = Sent(g, x) /\ News(h, x) = News(g, x) \ {p} BY <1>8, TakeView
    <2>2. p \notin News(g, x) BY <1>9 DEF News
    <2>3. QED BY <2>1, <2>2
  <1>12. QuietStep /\ UNCHANGED <<pc, phase, irq>> BY DEF SkipStep
  <1> USE DEF QuietStep
  <1>13. \A f \in Entity : ent[f].Id # 0 => ent[f].Id # d
    BY <1>9 DEF Unowned
  <1>14. Ctl' BY <1>1, <1>5, <1>12 DEF Ctl, SkipStep
  <1>15. IdTableSound' BY <1>1, <1>12 DEF IdTableSound
  <1>16. NoTrap' BY <1>1, <1>12 DEF NoTrap
  <1>17. Forms(h) BY <1>1, <1>8 DEF Forms, SameItems
  <1>18. \A e \in Entity : EntityAt(e, h.st[e])'
    <2> TAKE e \in Entity
    <2>1. EntityAt(e, g.st[e]) BY Parts
    <2>2. QED BY <2>1, <1>3, <1>7, <1>12 DEF EntityAt, HasSlot, NoSlot
  <1>19. Queue(h)' BY <1>1, <1>3, <1>7, <1>12 DEF Queue, QLive
  <1>20. Assigns(h)' BY <1>1, <1>3, <1>7, <1>12 DEF Assigns, SLive
  <1>21. Refs(h)'
    BY <1>1, <1>7, <1>8, <1>9, <1>12, RefsFrame
  <1>22. \A x \in Ids : IdAt(h, x)'
    <2> TAKE x \in Ids
    <2>1. IdAt(g, x) BY Parts
    <2>2. \A k \in Sent(h, x) : /\ x \in cardIds'
                                /\ (Unowned(x)' => h.Q[k].Req = "REMOVE")
                                /\ (h.Q[k].Req = "REMOVE" => \A j \in Sent(h, x) : j = k)
      BY <2>1, <1>7, <1>11, <1>12 DEF IdAt, Unowned
    <2>3. \A k \in News(h, x) :
               /\ x \in cardIds' /\ Sent(h, x) = {}
               /\ \A y \in held' : y[2] # x
               /\ \A j \in RLive(h) : j > k => h.R[j].RcId # x
      BY <2>1, <1>7, <1>8, <1>11, <1>12 DEF IdAt
    <2>4. \A f \in Entity :
              ent'[f].Id = x /\ (x \notin cardIds' \/ News(h, x) # {}) => Removing(h, f)'
      BY <2>1, <1>3, <1>7, <1>11, <1>12 DEF IdAt, Removing
    <2>5. QED BY <2>2, <2>3, <2>4 DEF IdAt
  <1>23. \A c \in Chan, x \in Ids : <<c, x>> \in held' => HoldAt(h, c, x)'
    <2> TAKE c \in Chan, x \in Ids
    <2> HAVE <<c, x>> \in held'
    <2>1. HoldAt(g, c, x) BY <1>12, Parts
    <2>2. QED BY <2>1, <1>3, <1>7, <1>8, <1>11, <1>12 DEF HoldAt, Unowned, Removing, SLive
  <1>24. held' \subseteq Chan \X Ids BY <1>1, <1>12
  <1>25. \A f \in Entity : Msgs(h, f)'
    <2> TAKE f \in Entity
    <2>1. Msgs(g, f) BY Parts
    <2>2. CASE ent[f].Id = 0 BY <2>2, <1>12 DEF Msgs
    <2>3. CASE ent[f].Id # 0
      <3>1. SameMsgs(g, h, ent[f].Id) BY <2>3, <1>10, <1>13
      <3>2. SameEnt(g, h, f) BY <1>3, <1>7, <1>12 DEF SameEnt
      <3>3. QED BY <2>1, <3>1, <3>2, <1>8, MsgsFrame
    <2>4. QED BY <2>2, <2>3
  <1>26. Pending(h)' BY <1>1, <1>3, <1>7, <1>12 DEF Pending, Removing
  <1>27. Flows(h)'
    <2>1. \A c \in Chan : Owner[c] \in Entity BY DEF XdiAssumption
    <2>2. \A c \in Chan : ent'[Owner[c]].Id # 0 => Flow(h, c)'
      <3> TAKE c \in Chan
      <3> HAVE ent'[Owner[c]].Id # 0
      <3>1. Flow(g, c) BY <1>1, <1>12 DEF Flows
      <3>2. SameMsgs(g, h, ent[Owner[c]].Id) BY <1>10, <1>12, <1>13, <2>1
      <3>3. SameLabs(g, h, c, ent[Owner[c]].Id) BY <1>8, <3>2, LabsFrame
      <3>4. QED BY <3>1, <3>3, <1>12, FlowFrame
    <2>3. QED BY <2>2, <1>1, <1>12 DEF Flows
  <1>28. Inv(h)'
    BY <1>7, <1>8, <1>17, <1>18, <1>19, <1>20, <1>21, <1>22, <1>23, <1>24, <1>25, <1>26,
       <1>27 DEF Inv
  <1>29. Whole(h)' BY <1>14, <1>15, <1>16, <1>28 DEF Whole
  <1>30. QED BY <1>29

\* An Id that IdTable does not know belongs to no entity.
LEMMA NoOwner ==
    ASSUME XdiAssumption, NEW g, Whole(g), pc # "post", NEW d \in Ids, IdTable[d] = 0
    PROVE  Unowned(d)
  <1>0. d # 0 BY DEF XdiAssumption
  <1>1. SUFFICES ASSUME NEW e \in Entity, ent[e].Id = d PROVE FALSE
    BY DEF Unowned
  <1>2. HasSlot(e) BY <1>0, <1>1, StageOf
  <1>3. ~cur.ok BY Parts DEF Ctl
  <1>4. IdTable[d] = ent[e].No BY <1>0, <1>1, <1>3, Parts DEF IdTableSound
  <1>5. QED BY <1>2, <1>4 DEF HasSlot, Slot

\* READY_INT, and return codes for an Id that is not known
LEMMA UnknownKeeps ==
    ASSUME XdiAssumption, NEW g, Whole(g), TypeOK', RcReadyInt \/ RcUnknown
    PROVE  \E h : Whole(h)'
  <1> USE DEF clientVars, tblVars, queueVars, idVars, outVars, cardVars, ramVars
  <1>1. rcBuf # <<>> BY DEF RcReadyInt, RcUnknown, IdUnknown, InRc
  <1>2. PICK r, p : r = Head(rcBuf) /\ p = g.got + 1 OBVIOUS
  <1>3. /\ r \in RC /\ RcForm(r)
        /\ (r.Reference # 0 =>
              /\ g.done + 1 \in SLive(g) /\ get_assign(r.Reference) = g.S[g.done + 1])
    BY <1>1, <1>2, AnsweredIs
  <1>4. CASE RcReadyInt
    <2>1. r.Rc = "READY_INT" BY <1>2, <1>4 DEF RcReadyInt
    <2>2. r.RcId = 0 /\ r.Reference = 0 BY <2>1, <1>3 DEF RcForm
    <2>3. SkipStep BY <1>2, <1>4, <2>1, <2>2 DEF RcReadyInt, RcFrame, InRc, SkipStep, QuietStep
    <2>4. QED BY <2>3, SkipKeeps
  <1>5. CASE RcUnknown
    <2>1. /\ InRc /\ r.Rc # "READY_INT"
          /\ (r.RcId # 0 => IdTable[r.RcId] = 0)
          /\ (r.Rc \in {"ASSIGN_OK", "ASSIGN_FAIL"} => get_assign(r.Reference) = 0)
      BY <1>2, <1>5 DEF RcUnknown, IdUnknown
    <2>2. r.Reference = 0
      <3> SUFFICES ASSUME r.Reference # 0 PROVE FALSE OBVIOUS
      <3>1. g.done + 1 \in SLive(g) /\ get_assign(r.Reference) = g.S[g.done + 1]
        BY <1>3
      <3>2. g.S[g.done + 1] \in Slot
        BY <3>1, Parts, GhostParts DEF SLive
      <3>3. get_assign(r.Reference) = 0 BY <2>1, <1>3 DEF RcForm
      <3>4. QED BY <3>1, <3>2, <3>3 DEF Slot
    <2>3. r.Rc # "ASSIGN_OK" BY <2>2, <1>3 DEF RcForm
    <2>4. r.RcId # 0 => Unowned(r.RcId)
      <3> HAVE r.RcId # 0
      <3>1. r.RcId \in Ids BY <1>3 DEF RC
      <3>2. pc # "post" BY <2>1 DEF InRc
      <3>3. QED BY <3>1, <3>2, <2>1, NoOwner
    <2>5. SkipStep
      BY <1>2, <1>5, <2>1, <2>2, <2>3, <2>4 DEF RcUnknown, RcFrame, InRc, SkipStep, QuietStep
    <2>6. QED BY <2>5, SkipKeeps
  <1>6. QED BY <1>4, <1>5

-----------------------------------------------------------------------------
(* The answer to an ASSIGN *)

\* isdn_rc took the answer to the oldest pending ASSIGN.
Answered1(g, h, st) ==
    h = Mk(g.q, g.out, g.S, g.done + 1, g.ans, g.R, g.got + 1, g.Q, g.tk, st)

\* What isdn_rc does for the answer r to the ASSIGN of e, in slot i.
AnswerStep(g, r, i, e) ==
    /\ pc = "rc" /\ rcBuf # <<>> /\ r = Head(rcBuf)
    /\ r.Rc \in {"ASSIGN_OK", "ASSIGN_FAIL"}
    /\ (r.RcId # 0 => IdTable[r.RcId] = 0)
    /\ g.done + 1 \in SLive(g) /\ g.done + 1 <= g.ans
    /\ i \in Slot /\ e \in Entity /\ tbl[i] = e /\ i = g.S[g.done + 1] /\ ent[e].No = i
    /\ g.st[e] = "asked" /\ ent[e].Id = 0
    /\ ent'[e].Id = r.RcId /\ ent'[e].No = i /\ ent'[e].Req = "ASSIGN"
    /\ ent'[e].XMOREC = 0 /\ ~ent'[e].XMOREP /\ ~ent'[e].XBUSY /\ ~wait'[e]
    /\ \A f \in Entity : f # e => ent'[f] = ent[f] /\ wait'[f] = wait[f]
    /\ cur' = [i |-> i, Id |-> r.RcId, ok |-> r.Rc = "ASSIGN_OK"]
    /\ rcBuf' = Tail(rcBuf) /\ pc' = "post"
    /\ UNCHANGED <<fcPend, clFc, clSkip, tbl, next, ref, head, tail, assign, IdTable,
                   fcId, rmPending, noCancel, trapped, phase, irq, outq, inbox, batch,
                   cardIds, held>>

\* An answer to an ASSIGN finds the slot with its reference, and the entity in
\* it waits for that answer.
LEMMA AnswerIs ==
    ASSUME XdiAssumption, NEW g, Whole(g), RcAssign
    PROVE  \E i \in Slot, e \in Entity : AnswerStep(g, Head(rcBuf), i, e)
  <1>1. PICK i \in Slot, e \in Entity : LET r == Head(rcBuf) IN
        /\ IdUnknown(r) /\ r.Rc \in {"ASSIGN_OK", "ASSIGN_FAIL"}
        /\ i = get_assign(r.Reference) /\ e = tbl[i]
        /\ ent' = [ent EXCEPT ![e] = Completed(WithId(@, r.RcId))]
        /\ ClientRc(e, ent'[e], r.Rc, r.RcCh)
        /\ cur' = [i |-> i, Id |-> r.RcId, ok |-> r.Rc = "ASSIGN_OK"]
    BY DEF RcAssign
  <1>2. PICK r, n : r = Head(rcBuf) /\ n = g.done + 1 OBVIOUS
  <1>3. rcBuf # <<>> /\ pc = "rc" BY <1>1 DEF IdUnknown, InRc
  <1>4. PICK p : p = g.got + 1 OBVIOUS
  <1>5. /\ r \in RC /\ RcForm(r)
        /\ (r.Reference # 0 =>
                 /\ n \in SLive(g) /\ n <= g.ans
                 /\ get_assign(r.Reference) = g.S[n])
    BY <1>2, <1>3, <1>4, AnsweredIs
  <1>6. r.Rc \in {"ASSIGN_OK", "ASSIGN_FAIL"} /\ r.RcCh = 0 /\ r.Reference # 0
    BY <1>1, <1>2, <1>5 DEF RcForm
  <1>7. n \in SLive(g) /\ n <= g.ans /\ i = g.S[n] BY <1>1, <1>2, <1>5, <1>6
  <1>8. g.st[e] = "asked" /\ ent[e].No = i
    <2>1. g.st[tbl[g.S[n]]] = "asked" /\ ent[tbl[g.S[n]]].No = g.S[n]
      BY <1>7, Parts DEF Assigns
    <2>2. QED BY <2>1, <1>1, <1>2, <1>7
  <1>9. EntityAt(e, "asked") /\ TypeOK /\ Flows(g) BY <1>8, Parts
  <1>10. /\ ent[e].Id = 0 /\ wait[e] /\ ent[e].Req = "ASSIGN"
         /\ ent[e].XMOREC = 0 /\ ~ent[e].XMOREP
    BY <1>9 DEF EntityAt
  <1>11. ent'[e] = Completed(WithId(ent[e], r.RcId)) /\ ent[e] \in ENTITY
         /\ ent \in [Entity -> ENTITY]
    BY <1>1, <1>2, <1>9 DEF TypeOK
  <1>12. /\ ent'[e].Id = r.RcId /\ ent'[e].No = i /\ ent'[e].Req = "ASSIGN"
         /\ ent'[e].XMOREC = 0 /\ ~ent'[e].XMOREP /\ ~ent'[e].XBUSY
    BY <1>8, <1>10, <1>11 DEF Completed, WithId, ENTITY
  <1>13. 0 \notin fcPend /\ 0 \notin clFc
         /\ \A c \in ChansOf(e) : c \notin fcPend /\ c \notin clFc
    BY <1>9, <1>10 DEF Flows, ChansOf
  <1>14. /\ fcPend' = fcPend /\ clFc' = clFc /\ clSkip' = clSkip
         /\ wait' = [wait EXCEPT ![e] = FALSE]
    <2>0. PICK x, rc : x = ent'[e] /\ rc = r.Rc OBVIOUS
    <2>1. ClientRc(e, x, rc, 0) BY <1>1, <1>2, <1>6, <2>0
    <2>2. x.Req # "REMOVE" BY <1>12, <2>0
    <2>3. rc # "OK_FC" BY <1>6, <2>0
    <2>4. ~Spares(e, x, 0) BY <1>13 DEF Spares
    <2>5. PICK G : G = IF x.Id = 0 THEN ChansOf(e) ELSE {} OBVIOUS
    <2>6. /\ clFc' = clFc \ G /\ fcPend' = (fcPend \ {0}) \ G /\ clSkip' = clSkip
          /\ wait' = [wait EXCEPT ![e] = FALSE]
      BY <2>1, <2>2, <2>3, <2>4, <2>5, <1>13 DEF ClientRc
    <2>7. \A c \in G : c \notin fcPend /\ c \notin clFc BY <2>5, <1>13
    <2>8. QED BY <2>6, <2>7, <1>13
  <1>15. \A f \in Entity : f # e => ent'[f] = ent[f] /\ wait'[f] = wait[f]
    BY <1>1, <1>9, <1>14 DEF TypeOK
  <1>16. ~wait'[e] BY <1>14, <1>9 DEF TypeOK
  <1>17. r.RcId # 0 => IdTable[r.RcId] = 0 BY <1>1, <1>2 DEF IdUnknown
  <1>18. UNCHANGED <<tbl, next, ref, head, tail, assign, IdTable,
                   fcId, rmPending, noCancel, trapped, phase, irq, outq, inbox, batch,
                   cardIds, held>> /\ rcBuf' = Tail(rcBuf) /\ pc' = "post"
    BY DEF RcAssign, tblVars, queueVars, idVars, outVars, cardVars, ramVars
  <1>19. AnswerStep(g, r, i, e)
    BY <1>1, <1>2, <1>3, <1>6, <1>7, <1>8, <1>10, <1>12, <1>14, <1>15, <1>16, <1>17, <1>18
    DEF AnswerStep
  <1>20. QED BY <1>1, <1>2, <1>19

\* The next slot on the assign list belongs to that entity only.
LEMMA OldestAsk ==
    ASSUME XdiAssumption, NEW g, Whole(g), NEW r, NEW i, NEW e, AnswerStep(g, r, i, e),
           NEW n, n = g.done + 1
    PROVE  /\ \A k \in SLive(g) : tbl[g.S[k]] = e => k = n
           /\ \A k \in SLive(g) : g.S[k] = i => k = n
           /\ \A k \in SLive(g) : ref[g.S[k]] = ref[g.S[n]] => k = n
           /\ n \in SLive(g) /\ g.S[n] = i
           /\ \A k \in QLive(g) : g.q[k] # i /\ tbl[g.q[k]] # e
           /\ \A x \in Ids, c \in Chan : <<c, x>> \in held /\ r.RcId # x => Owner[c] # e
  <1>1. /\ n \in SLive(g) /\ i = g.S[n] /\ tbl[i] = e /\ ent[e].No = i
        /\ n <= g.ans /\ g.st[e] = "asked" /\ e \in Entity /\ ent[e].Id = 0
    BY DEF AnswerStep
  <1>2. Assigns(g) /\ Refs(g) /\ Queue(g) /\ GhostType(g) BY Parts
  <1>3. \A k \in SLive(g) : ref[g.S[k]] = ref[g.S[n]] => k = n BY <1>1, <1>2 DEF Assigns
  <1>4. \A k \in SLive(g) : g.S[k] = i => k = n BY <1>1, <1>3
  <1>5. \A k \in SLive(g) : tbl[g.S[k]] = e => k = n
    <2>1. \A k \in SLive(g) : ent[tbl[g.S[k]]].No = g.S[k] BY <1>2 DEF Assigns
    <2>2. QED BY <2>1, <1>1, <1>4
  <1>6. \A k \in QLive(g) : g.q[k] # i /\ tbl[g.q[k]] # e
    <2>1. \A k \in QLive(g) : g.st[tbl[g.q[k]]] \in {"asks", "queued"} BY <1>2 DEF Queue
    <2>2. QED BY <2>1, <1>1
  <1>7. ASSUME NEW x \in Ids, NEW c \in Chan, <<c, x>> \in held, r.RcId # x, Owner[c] = e
        PROVE FALSE
    <2>1. HoldAt(g, c, x) BY <1>7, Parts
    <2>2. x # 0 BY DEF XdiAssumption
    <2>3. PICK q \in Sent(g, x) : \A k \in SLive(g) : tbl[g.S[k]] = e =>
                \E j \in RqLive(g) : j > q /\ g.Q[j].Reference = ref[g.S[k]]
      BY <2>1, <2>2, <1>1, <1>7 DEF HoldAt
    <2>4. PICK j \in RqLive(g) : g.Q[j].Reference = ref[g.S[n]] BY <2>3, <1>1
    <2>5. ref[g.S[n]] # 0 BY <1>1, <1>2 DEF Assigns
    <2>6. PICK m \in (g.ans + 1)..Len(g.S) : g.Q[j].Reference = ref[g.S[m]]
      BY <2>4, <2>5, <1>2 DEF Refs
    <2>7. g.ans \in Nat /\ g.done \in Nat /\ g.done <= g.ans /\ Len(g.S) \in Nat
      BY <1>2, GhostParts
    <2>8. m \in SLive(g) BY <2>7 DEF SLive
    <2>9. m = n BY <2>4, <2>6, <2>8, <1>3
    <2>10. QED BY <2>6, <2>7, <2>9, <1>1
  <1>8. QED BY <1>1, <1>3, <1>4, <1>5, <1>6, <1>7

\* An Id that the card has just handed out has no messages yet.
LEMMA NewId ==
    ASSUME NEW g, Whole(g), NEW d \in Ids, d # 0, NEW p \in News(g, d), p = g.got + 1
    PROVE  /\ d \in cardIds /\ Sent(g, d) = {} /\ \A x \in held : x[2] # d
           /\ Plain(g, d) = {} /\ Labels(g, d) \subseteq {p} /\ News(g, d) = {p}
  <1>1. IdAt(g, d) /\ GhostType(g) BY Parts
  <1>2. /\ d \in cardIds /\ Sent(g, d) = {} /\ \A x \in held : x[2] # d
        /\ \A j \in RLive(g) : j > p => g.R[j].RcId # d
    BY <1>1 DEF IdAt
  <1>3. \A k \in RLive(g) : k \in Int /\ p \in Int /\ p <= k BY <1>1, HeadFirst
  <1>4. \A k \in RLive(g) : g.R[k].RcId = d => k = p BY <1>2, <1>3
  <1>5. g.R[p].Rc = "ASSIGN_OK" BY DEF News
  <1>6. Plain(g, d) = {}
    <2> SUFFICES ASSUME NEW k \in Plain(g, d) PROVE FALSE OBVIOUS
    <2>1. k \in RLive(g) /\ RcKey(g.R[k]) = d BY DEF Plain
    <2>2. g.R[k].RcId = d /\ g.R[k].Rc # "ASSIGN_OK" BY <2>1 DEF RcKey
    <2>3. QED BY <2>1, <2>2, <1>4, <1>5
  <1>7. Labels(g, d) \subseteq {p} /\ News(g, d) = {p}
    BY <1>4 DEF Labels, News
  <1>8. QED BY <1>2, <1>6, <1>7

\* The pending ASSIGN is answered.
LEMMA AnswerRefs ==
    ASSUME XdiAssumption, NEW g, Whole(g), NEW r, NEW i, NEW e, AnswerStep(g, r, i, e),
           NEW st, NEW h, Answered1(g, h, st), NEW p, p = g.got + 1,
           RLive(h) = RLive(g) \ {p}, RqLive(h) = RqLive(g)
    PROVE  Refs(h)'
  <1>1. PICK n : n = g.done + 1 OBVIOUS
  <1>2. Assigns(g) /\ Refs(g) /\ GhostType(g) BY Parts
  <1>3. /\ h.S = g.S /\ h.done = n /\ h.ans = g.ans /\ h.R = g.R /\ h.Q = g.Q
    BY <1>1, MkParts DEF Answered1
  <1>4. /\ g.ans \in Nat /\ g.done \in Nat /\ g.done <= g.ans /\ Len(g.S) \in Nat
        /\ g.ans <= Len(g.S)
    BY <1>2, GhostParts
  <1>5. n \in SLive(g) /\ \A k \in SLive(g) : ref[g.S[k]] = ref[g.S[n]] => k = n
    BY <1>1, OldestAsk
  <1>6. /\ \A k \in (n + 1)..g.ans : k \in (g.done + 1)..g.ans /\ k # n /\ k \in SLive(g)
        /\ \A k \in (g.done + 1)..g.ans : k = n \/ k \in (n + 1)..g.ans
    BY <1>1, <1>4 DEF SLive
  <1>7. /\ g.R[p].Reference = ref[g.S[n]]
        /\ \A k \in RLive(g) : g.R[k].Reference = g.R[p].Reference => k = p
    <2>1. rcBuf # <<>> /\ r = Head(rcBuf) /\ r.Rc \in {"ASSIGN_OK", "ASSIGN_FAIL"}
      BY DEF AnswerStep
    <2>2. /\ r = g.R[p] /\ RcForm(r)
          /\ (r.Reference # 0 =>
                 /\ r.Reference = ref[g.S[g.done + 1]]
                 /\ \A k \in RLive(g) : g.R[k].Reference = r.Reference => k = p)
      BY <2>1, AnsweredIs
    <2>3. r.Reference # 0 BY <2>1, <2>2 DEF RcForm
    <2>4. QED BY <2>2, <2>3, <1>1
  <1>8. UNCHANGED ref BY DEF AnswerStep
  <1>9. \A m \in (n+1)..g.ans : \E q \in RLive(h) : g.R[q].Reference = ref[g.S[m]]
    <2> TAKE m \in (n+1)..g.ans
    <2>1. PICK q \in RLive(g) : g.R[q].Reference = ref[g.S[m]] BY <1>2, <1>6 DEF Refs
    <2>2. q # p BY <2>1, <1>5, <1>6, <1>7
    <2>3. QED BY <2>1, <2>2
  <1>10. \A q \in RLive(h) : g.R[q].Reference # 0 =>
            \E m \in (n+1)..g.ans : g.R[q].Reference = ref[g.S[m]]
    <2> TAKE q \in RLive(h)
    <2> HAVE g.R[q].Reference # 0
    <2>1. q \in RLive(g) /\ q # p OBVIOUS
    <2>2. PICK m \in (g.done+1)..g.ans : g.R[q].Reference = ref[g.S[m]]
      BY <2>1, <1>2 DEF Refs
    <2>3. m # n BY <2>1, <2>2, <1>7
    <2>4. QED BY <2>2, <2>3, <1>6
  <1>11. \A q, k \in RLive(h), l, m \in (n+1)..g.ans :
          g.R[q].Reference = ref[g.S[l]] /\ g.R[k].Reference = ref[g.S[m]] /\ q < k => l < m
    <2>1. \A q, k \in RLive(g), l, m \in (g.done+1)..g.ans :
          g.R[q].Reference = ref[g.S[l]] /\ g.R[k].Reference = ref[g.S[m]] /\ q < k => l < m
      BY <1>2 DEF Refs
    <2>2. QED BY <2>1, <1>6
  <1>12. /\ \A m \in (g.ans+1)..Len(g.S) : \E q \in RqLive(g) : g.Q[q].Reference = ref[g.S[m]]
         /\ \A q \in RqLive(g) : g.Q[q].Reference # 0 =>
              \E m \in (g.ans+1)..Len(g.S) : g.Q[q].Reference = ref[g.S[m]]
         /\ \A q, k \in RqLive(g), l, m \in (g.ans+1)..Len(g.S) :
              g.Q[q].Reference = ref[g.S[l]] /\ g.Q[k].Reference = ref[g.S[m]] /\ q < k => l < m
    BY <1>2 DEF Refs
  <1>13. QED BY <1>3, <1>8, <1>9, <1>10, <1>11, <1>12 DEF Refs

\* The answer takes its slot out of the assign list and no other.
LEMMA AnswerAssigns ==
    ASSUME XdiAssumption, NEW g, Whole(g), NEW r, NEW i, NEW e, AnswerStep(g, r, i, e),
           NEW s, s \in {"idle", "none"}, NEW st, st = [g.st EXCEPT ![e] = s],
           NEW h, Answered1(g, h, st)
    PROVE  Assigns(h)'
  <1>1. PICK n : n = g.done + 1 OBVIOUS
  <1>2. Assigns(g) /\ GhostType(g) /\ TypeOK BY Parts
  <1>3. h.S = g.S /\ h.done = n /\ h.st = st BY <1>1, MkParts DEF Answered1
  <1>4. g.done \in Nat /\ Len(g.S) \in Nat /\ g.st \in [Entity -> Stage] BY <1>2, GhostParts
  <1>5. /\ n \in SLive(g) /\ g.S[n] = i
        /\ \A k \in SLive(g) : (tbl[g.S[k]] = e => k = n) /\ (g.S[k] = i => k = n)
    BY <1>1, OldestAsk
  <1>6. SLive(h) = SLive(g) \ {n} BY <1>1, <1>3, <1>4 DEF SLive
  <1>7. h.done # Len(h.S) => g.done # Len(g.S) BY <1>1, <1>3, <1>4, <1>5 DEF SLive
  <1>8. /\ UNCHANGED <<assign, next, ref, tbl>> /\ e \in Entity /\ tbl[i] = e
        /\ cur'.i = i /\ \A f \in Entity : f # e => ent'[f] = ent[f]
    BY DEF AnswerStep
  <1>9. \A k \in SLive(g) : g.S[k] \in Slot BY <1>2, GhostParts DEF SLive
  <1>10. \A k \in SLive(g) : tbl[g.S[k]] \in Entity BY <1>2, <1>9 DEF TypeOK, Assigns
  <1>11. \A k \in SLive(h) :
           /\ tbl[g.S[k]] # Null /\ ent'[tbl[g.S[k]]].No = g.S[k] /\ ref[g.S[k]] # 0
           /\ st[tbl[g.S[k]]] = "asked" /\ cur'.i # g.S[k]
    <2> TAKE k \in SLive(h)
    <2>1. k \in SLive(g) /\ k # n BY <1>6
    <2>2. tbl[g.S[k]] # e /\ g.S[k] # i /\ tbl[g.S[k]] \in Entity BY <2>1, <1>5, <1>10
    <2>3. /\ tbl[g.S[k]] # Null /\ ent[tbl[g.S[k]]].No = g.S[k] /\ ref[g.S[k]] # 0
          /\ g.st[tbl[g.S[k]]] = "asked"
      BY <2>1, <1>2 DEF Assigns
    <2>4. QED BY <2>2, <2>3, <1>4, <1>8
  <1>12. \A f \in Entity : st[f] = "asked" => \E k \in SLive(h) : g.S[k] = ent'[f].No
    <2> TAKE f \in Entity
    <2> HAVE st[f] = "asked"
    <2>1. f # e /\ g.st[f] = "asked" BY <1>4, <1>8
    <2>2. PICK k \in SLive(g) : g.S[k] = ent[f].No BY <2>1, <1>2 DEF Assigns
    <2>3. EntityAt(f, "asked") BY <2>1, Parts
    <2>4. tbl[ent[f].No] = f BY <2>3 DEF EntityAt, HasSlot
    <2>5. k # n BY <2>1, <2>2, <2>4, <1>5, <1>8
    <2>6. QED BY <2>1, <2>2, <2>5, <1>6, <1>8
  <1>13. h.done # Len(h.S) => assign' = h.S[Len(h.S)]
    BY <1>2, <1>3, <1>7, <1>8 DEF Assigns
  <1>14. \A k \in SLive(h) : k - 1 \in SLive(h) => next'[h.S[k]] = h.S[k-1]
    BY <1>2, <1>3, <1>6, <1>8 DEF Assigns
  <1>15. \A j, k \in SLive(h) : ref'[h.S[j]] = ref'[h.S[k]] => j = k
    BY <1>2, <1>3, <1>6, <1>8 DEF Assigns
  <1>16. QED BY <1>3, <1>8, <1>11, <1>12, <1>13, <1>14, <1>15 DEF Assigns

\* isdn_rc() on the answer to an ASSIGN keeps the invariant.
LEMMA AnswerKeeps ==
    ASSUME XdiAssumption, NEW g, Whole(g), TypeOK', NEW r, NEW i, NEW e,
           AnswerStep(g, r, i, e)
    PROVE  \E h : Whole(h)'
  <1>1. /\ TypeOK /\ Ctl /\ IdTableSound /\ NoTrap
        /\ GhostType(g) /\ Pipes(g) /\ Forms(g)
        /\ Queue(g) /\ Assigns(g) /\ Refs(g)
        /\ Pending(g) /\ Flows(g) /\ held \subseteq Chan \X Ids
    BY Parts
  <1>2. PICK p, d, n, s : /\ p = g.got + 1 /\ d = r.RcId /\ n = g.done + 1
                          /\ s = IF r.Rc = "ASSIGN_OK" THEN "idle" ELSE "none"
    OBVIOUS
  <1>3. /\ pc = "rc" /\ rcBuf # <<>> /\ r = Head(rcBuf)
        /\ r.Rc \in {"ASSIGN_OK", "ASSIGN_FAIL"}
        /\ (d # 0 => IdTable[d] = 0)
        /\ n \in SLive(g) /\ n <= g.ans
        /\ i \in Slot /\ e \in Entity /\ tbl[i] = e /\ i = g.S[n] /\ ent[e].No = i
        /\ g.st[e] = "asked" /\ ent[e].Id = 0
        /\ cur' = [i |-> i, Id |-> d, ok |-> r.Rc = "ASSIGN_OK"]
        /\ rcBuf' = Tail(rcBuf) /\ pc' = "post"
    BY <1>2 DEF AnswerStep
  <1>4. /\ ent'[e].Id = d /\ ent'[e].No = i /\ ent'[e].Req = "ASSIGN"
        /\ ent'[e].XMOREC = 0 /\ ~ent'[e].XMOREP /\ ~ent'[e].XBUSY /\ ~wait'[e]
        /\ \A f \in Entity : f # e => ent'[f] = ent[f] /\ wait'[f] = wait[f]
    BY <1>2 DEF AnswerStep
  <1>5. UNCHANGED <<fcPend, clFc, clSkip, tbl, next, ref, head, tail, assign, IdTable,
                   fcId, rmPending, noCancel, trapped, phase, irq, outq, inbox, batch,
                   cardIds, held>>
    BY DEF AnswerStep
  <1>6. /\ r \in RC /\ RcForm(r) /\ r = g.R[p] /\ p \in RLive(g)
    BY <1>2, <1>3, AnsweredIs
  <1>7. /\ r.RcId = d /\ (r.Rc = "ASSIGN_OK" => d # 0 /\ d \in Ids)
        /\ (r.Rc = "ASSIGN_FAIL" => d = 0) /\ (d # 0 => r.Rc = "ASSIGN_OK" /\ d \in Ids)
        /\ r.Ext = "none"
    BY <1>2, <1>3, <1>6 DEF RcForm, RC
  <1>8. PICK st : st = [g.st EXCEPT ![e] = s] OBVIOUS
  <1>9. PICK h : Answered1(g, h, st) BY DEF Answered1
  <1>10. s \in {"idle", "none"} /\ st \in [Entity -> Stage]
         /\ st[e] = s /\ \A f \in Entity : f # e => st[f] = g.st[f]
    BY <1>1, <1>2, <1>3, <1>8, GhostParts DEF Stage
  <1>11. /\ h.q = g.q /\ h.out = g.out /\ h.S = g.S /\ h.done = n
         /\ h.ans = g.ans /\ h.R = g.R /\ h.got = g.got + 1 /\ h.Q = g.Q
         /\ h.tk = g.tk /\ h.st = st
    BY <1>2, <1>9, MkParts DEF Answered1
  <1>12. /\ Pipes(h)' /\ SameItems(g, h)
         /\ RLive(h) = RLive(g) \ {p} /\ RqLive(h) = RqLive(g)
         /\ \A k \in RLive(g) : p <= k
         /\ h.got \in Nat /\ h.got <= Len(h.R)
    BY <1>1, <1>2, <1>3, <1>5, <1>11, TakeRc
  <1>13. GhostType(h)
    <2>1. /\ h.q \in Seq(Slot) /\ h.out \in Nat /\ h.S \in Seq(Slot) /\ h.done \in Nat
          /\ h.ans \in Nat /\ h.R \in Seq(RC) /\ h.got \in Nat /\ h.Q \in Seq(REQ)
          /\ h.tk \in Nat /\ h.st \in [Entity -> Stage] /\ g.got + 1 \in Nat /\ n \in Nat
      BY <1>1, <1>2, <1>10, <1>11, <1>12, GhostParts
    <2>2. h \in Ghost BY <2>1, <1>2, <1>9, <1>11, MkParts DEF Answered1
    <2>3. QED BY <2>2, <1>1, <1>3, <1>11, <1>12, GhostParts DEF GhostType
  <1>14. \A x : x # 0 /\ x # d => SameMsgs(g, h, x)
    <2> TAKE x
    <2>1. x # 0 /\ g.R[p].RcId # x => SameMsgs(g, h, x) BY <1>6, <1>12, TakeView
    <2>2. QED BY <2>1, <1>6, <1>7
  <1>15. d # 0 => /\ d \in cardIds /\ Sent(g, d) = {} /\ \A x \in held : x[2] # d
                  /\ Sent(h, d) = {} /\ Plain(h, d) = {} /\ Labels(h, d) = {}
                  /\ News(h, d) = {} /\ Unowned(d)
    <2> HAVE d # 0
    <2>1. p \in News(g, d) /\ d \in Ids BY <1>6, <1>7 DEF News
    <2>2. /\ d \in cardIds /\ Sent(g, d) = {} /\ \A x \in held : x[2] # d
          /\ Plain(g, d) = {} /\ Labels(g, d) \subseteq {p} /\ News(g, d) = {p}
      BY <2>1, <1>2, NewId
    <2>3. /\ Plain(h, d) = Plain(g, d) \ {p} /\ Labels(h, d) = Labels(g, d) \ {p}
          /\ News(h, d) = News(g, d) \ {p} /\ Sent(h, d) = Sent(g, d)
      BY <1>6, <1>12, TakeView
    <2>4. Unowned(d) BY <2>1, <1>3, NoOwner
    <2>5. QED BY <2>2, <2>3, <2>4
  <1>16. Sent(h, 0) = Sent(g, 0) /\ \A x \in Ids : Sent(h, x) = Sent(g, x)
    BY <1>6, <1>12, TakeView
  <1>17. /\ \A k \in SLive(g) : tbl[g.S[k]] = e => k = n
         /\ \A k \in QLive(g) : g.q[k] # i /\ tbl[g.q[k]] # e
         /\ \A x \in Ids, c \in Chan : <<c, x>> \in held /\ r.RcId # x => Owner[c] # e
    BY <1>2, OldestAsk
  <1>18. \A f \in Entity : f # e => SameEnt(g, h, f)
    BY <1>4, <1>10, <1>11 DEF SameEnt
  <1>19. \A f \in Entity : f # e => (d # 0 => ent[f].Id # d)
    BY <1>15 DEF Unowned
  <1>20. \A f \in Entity : Removing(h, f)' <=> Removing(g, f)
    BY <1>3, <1>4, <1>10, <1>11, <1>18 DEF Removing, SameEnt
  <1>21. cur.i = 0 /\ ~cur.ok BY <1>1, <1>3 DEF Ctl
  <1>22. 0 \notin Ids /\ Null \notin Entity /\ 0 \notin Slot BY DEF XdiAssumption, Slot
  <1>23. \A f \in Entity : ent'[f].No = ent[f].No BY <1>3, <1>4
  <1>24. Ctl'
    <2>1. irq BY <1>1, <1>3 DEF Ctl
    <2>2. cur'.i = i /\ cur'.Id = d /\ (cur'.ok <=> r.Rc = "ASSIGN_OK") BY <1>3
    <2>3. cur'.ok => d \in Ids /\ IdTable'[d] = 0 BY <2>2, <1>3, <1>5, <1>7
    <2>4. ~cur'.ok => d = 0 BY <2>2, <1>3, <1>7
    <2>5. tbl'[i] = e BY <1>3, <1>5
    <2>6. QED BY <2>1, <2>2, <2>3, <2>4, <2>5, <1>3, <1>4, <1>5, <1>22 DEF Ctl
  <1>25. IdTableSound'
    <2>1. \A x \in Ids : IdTable'[x] # 0 => /\ tbl'[IdTable'[x]] # Null
                /\ ent'[tbl'[IdTable'[x]]].Id = x /\ ent'[tbl'[IdTable'[x]]].No = IdTable'[x]
      <3> TAKE x \in Ids
      <3> HAVE IdTable'[x] # 0
      <3>1. /\ tbl[IdTable[x]] # Null /\ ent[tbl[IdTable[x]]].Id = x
            /\ ent[tbl[IdTable[x]]].No = IdTable[x]
        BY <1>1, <1>5 DEF IdTableSound
      <3>2. EMax \in Nat /\ IdTable[x] \in 0..EMax BY <1>1 DEF TypeOK, XdiAssumption
      <3>3. IdTable[x] \in Slot BY <3>2, <1>5 DEF Slot
      <3>4. tbl[IdTable[x]] \in Entity BY <3>1, <3>3, <1>1 DEF TypeOK
      <3>5. tbl[IdTable[x]] # e BY <3>1, <1>3, <1>22
      <3>6. ent'[tbl[IdTable[x]]] = ent[tbl[IdTable[x]]] BY <3>4, <3>5, <1>4
      <3>7. QED BY <3>1, <3>6, <1>5
    <2>2. \A f \in Entity :
            ent'[f].Id # 0 => \/ IdTable'[ent'[f].Id] = ent'[f].No
                              \/ cur' = [i |-> ent'[f].No, Id |-> ent'[f].Id, ok |-> TRUE]
      <3> TAKE f \in Entity
      <3> HAVE ent'[f].Id # 0
      <3>1. CASE f = e
        <4>1. d # 0 BY <3>1, <1>4
        <4>2. QED BY <4>1, <3>1, <1>3, <1>4, <1>7
      <3>2. CASE f # e
        <4>1. ent[f].Id # 0 /\ ent'[f] = ent[f] BY <3>2, <1>4
        <4>2. IdTable[ent[f].Id] = ent[f].No BY <4>1, <1>1, <1>21 DEF IdTableSound
        <4>3. QED BY <4>1, <4>2, <1>5
      <3>3. QED BY <3>1, <3>2
    <2>3. \A j \in Slot : tbl'[j] # Null => ent'[tbl'[j]].No = j \/ cur'.i = j
      <3> TAKE j \in Slot
      <3> HAVE tbl'[j] # Null
      <3>1. tbl[j] \in Entity BY <1>1, <1>5 DEF TypeOK
      <3>2. ent[tbl[j]].No = j BY <3>1, <1>1, <1>5, <1>21, <1>22 DEF IdTableSound
      <3>3. ent'[tbl[j]].No = j BY <3>1, <3>2, <1>23
      <3>4. QED BY <3>3, <1>5
    <2>4. QED BY <2>1, <2>2, <2>3 DEF IdTableSound
  <1>26. NoTrap' BY <1>1, <1>5 DEF NoTrap
  <1>27. Forms(h) BY <1>1, <1>12 DEF Forms, SameItems
  <1>28. \A f \in Entity : EntityAt(f, h.st[f])'
    <2> TAKE f \in Entity
    <2>1. CASE f # e
      <3>1. EntityAt(f, g.st[f]) BY Parts
      <3>2. ent'[f] = ent[f] /\ wait'[f] = wait[f] /\ h.st[f] = g.st[f] BY <2>1, <1>18 DEF SameEnt
      <3>3. HasSlot(f) => HasSlot(f)' BY <3>2, <1>5 DEF HasSlot
      <3>4. NoSlot(f) => NoSlot(f)' BY <1>5, <1>21, <1>22 DEF NoSlot
      <3>5. EntityAt(f, g.st[f])' BY <3>1, <3>2, <3>3, <3>4, EntityFrame
      <3>6. QED BY <3>2, <3>5
    <2>2. CASE f = e
      <3>1. h.st[f] = s BY <2>2, <1>10, <1>11
      <3>2. CASE r.Rc = "ASSIGN_OK"
        <4>1. s = "idle" /\ d # 0 BY <3>2, <1>2, <1>7
        <4>2. HasSlot(e)' BY <1>3, <1>4, <1>5 DEF HasSlot
        <4>3. EntityAt(e, "idle")' BY <4>1, <4>2, <1>4 DEF EntityAt
        <4>4. QED BY <4>1, <4>3, <3>1, <2>2
      <3>3. CASE r.Rc = "ASSIGN_FAIL"
        <4>1. s = "none" /\ d = 0 BY <3>3, <1>2, <1>7
        <4>2. \A j \in Slot : tbl[j] = e => j = i BY <1>3, <1>21, <1>22, OneSlot
        <4>3. NoSlot(e)' BY <4>2, <1>3, <1>5 DEF NoSlot
        <4>4. EntityAt(e, "none")' BY <4>1, <4>3, <1>4 DEF EntityAt
        <4>5. QED BY <4>1, <4>4, <3>1, <2>2
      <3>4. QED BY <3>2, <3>3, <1>3
    <2>3. QED BY <2>1, <2>2
  <1>29. Queue(h)'
    <2>1. \A k \in QLive(g) : cur'.i # g.q[k] BY <1>3, <1>17
    <2>2. \A f \in Entity : h.st[f] \in {"asks", "queued"} <=> g.st[f] \in {"asks", "queued"}
      BY <1>3, <1>10, <1>11
    <2>3. QED BY <2>1, <2>2, <1>1, <1>5, <1>11, <1>23, QueueFrame
  <1>30. Assigns(h)' BY <1>8, <1>9, <1>10, AnswerAssigns
  <1>31. Refs(h)' BY <1>2, <1>9, <1>12, AnswerRefs
  <1>32. \A x \in Ids : IdAt(h, x)'
    <2> TAKE x \in Ids
    <2>0. x # 0 BY <1>22
    <2>1. CASE x = d
      BY <2>0, <2>1, <1>5, <1>15 DEF IdAt
    <2>2. CASE x # d
      <3>1. IdAt(g, x) BY Parts
      <3>2. SameMsgs(g, h, x) BY <2>0, <2>2, <1>14
      <3>3. \A f \in Entity : ent'[f].Id = x <=> ent[f].Id = x
        BY <2>0, <2>2, <1>3, <1>4
      <3>4. Unowned(x)' <=> Unowned(x) BY <3>3 DEF Unowned
      <3>5. \A f \in Entity : ent'[f].Id = x =>
               ent[f].Id = x /\ (Removing(g, f) => Removing(h, f)')
        BY <3>3, <1>20
      <3>6. \A j \in RLive(h) : j \in RLive(g) \/ h.R[j].RcId # x BY <1>12
      <3>7. QED BY <3>1, <3>2, <3>4, <3>5, <3>6, <1>5, <1>12, IdFrame
    <2>3. QED BY <2>1, <2>2
  <1>33. \A c \in Chan, x \in Ids : <<c, x>> \in held' => HoldAt(h, c, x)'
    <2> TAKE c \in Chan, x \in Ids
    <2> HAVE <<c, x>> \in held'
    <2>0. <<c, x>> \in held BY <1>5
    <2>1. HoldAt(g, c, x) BY <2>0, Parts
    <2>2. x # d
      <3>1. d # 0 => <<c, x>>[2] # d BY <2>0, <1>15
      <3>2. QED BY <3>1, <1>22
    <2>3. PICK o : o = Owner[c] OBVIOUS
    <2>4. o \in Entity /\ o # e
      BY <2>0, <2>2, <2>3, <1>7, <1>17 DEF XdiAssumption
    <2>5. ent'[o] = ent[o] /\ (Removing(h, o)' <=> Removing(g, o)) BY <2>4, <1>4, <1>20
    <2>6. Unowned(x) => Unowned(x)'
      <3>1. \A f \in Entity : ent[f].Id # x => ent'[f].Id # x BY <2>2, <1>4
      <3>2. QED BY <3>1 DEF Unowned
    <2>7. Sent(h, x) = Sent(g, x) BY <1>16
    <2>8. x \in cardIds BY <2>1 DEF HoldAt
    <2>9. CASE ent[o].Id = x /\ (Removing(g, o) => Sent(g, x) # {})
      BY <2>3, <2>5, <2>7, <2>8, <2>9, <1>5 DEF HoldAt
    <2>10. CASE Unowned(x) /\ ent[o].Id = 0 /\ ent[o].Id # x
      <3>1. PICK q \in Sent(g, x) : \A k \in SLive(g) : tbl[g.S[k]] = o =>
                \E j \in RqLive(g) : j > q /\ g.Q[j].Reference = ref[g.S[k]]
        BY <2>1, <2>3, <2>10 DEF HoldAt
      <3>2. \A k \in SLive(h) : k \in SLive(g)
        BY <1>1, <1>2, <1>11, GhostParts DEF SLive
      <3>3. \A k \in SLive(h) : tbl'[h.S[k]] = o =>
                \E j \in RqLive(h) : j > q /\ h.Q[j].Reference = ref'[h.S[k]]
        BY <3>1, <3>2, <1>5, <1>11, <1>12
      <3>4. QED BY <2>3, <2>5, <2>6, <2>7, <2>8, <2>10, <3>1, <3>3, <1>5 DEF HoldAt
    <2>11. QED BY <2>1, <2>3, <2>9, <2>10, <1>22 DEF HoldAt
  <1>34. held' \subseteq Chan \X Ids BY <1>1, <1>5
  <1>35. \A f \in Entity : Msgs(h, f)'
    <2> TAKE f \in Entity
    <2>1. CASE f = e
      <3>1. CASE d = 0 BY <2>1, <3>1, <1>4 DEF Msgs
      <3>2. CASE d # 0
        <4>1. Sent(h, d) = {} /\ Plain(h, d) = {} /\ Labels(h, d) = {} BY <3>2, <1>15
        <4>2. ent'[e].XMOREC = Cardinality(Plain(h, d)) + Cardinality(Sent(h, d))
          BY <4>1, <1>4, FS_EmptySet
        <4>3. QED BY <4>1, <4>2, <2>1, <1>4 DEF Msgs
      <3>3. QED BY <3>1, <3>2
    <2>2. CASE f # e
      <3>1. Msgs(g, f) /\ ent'[f] = ent[f] BY <2>2, <1>4, Parts
      <3>2. CASE ent[f].Id = 0 BY <3>1, <3>2 DEF Msgs
      <3>3. CASE ent[f].Id # 0
        <4>1. SameMsgs(g, h, ent[f].Id) BY <2>2, <3>3, <1>14, <1>19
        <4>2. QED BY <2>2, <3>1, <4>1, <1>12, <1>18, MsgsFrame
      <3>4. QED BY <3>2, <3>3
    <2>3. QED BY <2>1, <2>2
  <1>36. Pending(h)'
    <2>1. \A j \in Slot : tbl[j] # Null => tbl[j] \in Entity BY <1>1 DEF TypeOK
    <2>2. QED BY <2>1, <1>1, <1>5, <1>20, <1>23 DEF Pending
  <1>37. Flows(h)'
    <2>1. \A c \in Chan : Owner[c] \in Entity BY DEF XdiAssumption
    <2>2. \A c \in Chan : Owner[c] = e => c \notin fcPend /\ c \notin clFc /\ fcId[c] = 0
      BY <1>1, <1>3 DEF Flows
    <2>3. \A c \in Chan : ent'[Owner[c]].Id # 0 => Flow(h, c)'
      <3> TAKE c \in Chan
      <3> HAVE ent'[Owner[c]].Id # 0
      <3>1. CASE Owner[c] = e
        <4>1. d # 0 /\ ent'[e].Id = d BY <3>1, <1>4
        <4>2. Plain(h, d) = {} /\ Lab(h, c, d) = {} /\ <<c, d>> \notin held'
          <5>1. <<c, d>> \in held => <<c, d>>[2] # d BY <4>1, <1>15
          <5>2. QED BY <4>1, <5>1, <1>5, <1>15 DEF Lab
        <4>3. ~wait'[e] /\ c \notin clFc' /\ fcId'[c] # d BY <3>1, <4>1, <2>2, <1>4, <1>5
        <4>4. QED BY <3>1, <4>1, <4>2, <4>3, FlowIdle
      <3>2. CASE Owner[c] # e
        <4>1. SameEnt(g, h, Owner[c]) BY <3>2, <2>1, <1>18
        <4>2. ent[Owner[c]].Id # 0 BY <4>1 DEF SameEnt
        <4>3. Flow(g, c) BY <4>2, <1>1 DEF Flows
        <4>4. SameMsgs(g, h, ent[Owner[c]].Id) BY <3>2, <4>2, <2>1, <1>14, <1>19
        <4>5. SameLabs(g, h, c, ent[Owner[c]].Id) BY <4>4, <1>12, LabsFrame
        <4>6. QED BY <4>1, <4>3, <4>5, <1>5, FlowFrame DEF SameEnt
      <3>3. QED BY <3>1, <3>2
    <2>4. clFc' \subseteq fcPend' /\ 0 \notin fcPend' /\ fcId'[0] = 0
      BY <1>1, <1>5 DEF Flows
    <2>5. \A c \in Chan :
         /\ (c \in fcPend' => ent'[Owner[c]].Id # 0)
         /\ (c \in clFc' => fcId'[c] = ent'[Owner[c]].Id)
         /\ (fcId'[c] # 0 => fcId'[c] = ent'[Owner[c]].Id)
      <3> TAKE c \in Chan
      <3>1. CASE Owner[c] = e BY <3>1, <2>2, <1>5
      <3>2. CASE Owner[c] # e
        <4>1. ent'[Owner[c]] = ent[Owner[c]] BY <3>2, <2>1, <1>4
        <4>2. QED BY <4>1, <1>1, <1>5 DEF Flows
      <3>3. QED BY <3>1, <3>2
    <2>6. QED BY <2>3, <2>4, <2>5 DEF Flows
  <1>38. Inv(h)'
    BY <1>12, <1>13, <1>27, <1>28, <1>29, <1>30, <1>31, <1>32, <1>33, <1>34, <1>35, <1>36,
       <1>37 DEF Inv
  <1>39. Whole(h)' BY <1>24, <1>25, <1>26, <1>38 DEF Whole
  <1>40. QED BY <1>39

-----------------------------------------------------------------------------
(* After the callback of an ASSIGN *)

\* What changes of tbl: nothing, or the slot of a refused ASSIGN is free.
PostStep ==
    /\ pc = "post" /\ pc' = "rc" /\ cur' = [i |-> 0, Id |-> 0, ok |-> FALSE]
    /\ \/ cur.ok /\ tbl' = tbl /\ IdTable' = [IdTable EXCEPT ![cur.Id] = cur.i]
       \/ ~cur.ok /\ tbl' = [tbl EXCEPT ![cur.i] = Null] /\ IdTable' = IdTable
    /\ UNCHANGED <<wait, fcPend, clFc, clSkip, ent, next, ref, head, tail, assign,
                   fcId, rmPending, noCancel, trapped, cardIds, held>>
    /\ UNCHANGED <<phase, irq, rcBuf, outq, inbox, batch>>

\* After the callback of an ASSIGN the tables agree again.
LEMMA PostTables ==
    ASSUME XdiAssumption, NEW g, Whole(g), TypeOK', PostStep
    PROVE  /\ Ctl' /\ IdTableSound'
           /\ \A e \in Entity : EntityAt(e, g.st[e])'
  <1>1. /\ TypeOK /\ Ctl /\ IdTableSound /\ Queue(g) /\ Assigns(g)
    BY Parts
  <1>2. PICK i, e : i = cur.i /\ e = tbl[i] OBVIOUS
  <1>3. /\ i \in Slot /\ e # Null /\ irq
        /\ (cur.ok => cur.Id \in Ids /\ IdTable[cur.Id] = 0 /\ ent[e].Id = cur.Id /\ ent[e].No = i)
        /\ (~cur.ok => ent[e].Id = 0)
    BY <1>1, <1>2 DEF PostStep, Ctl
  <1>4. e \in Entity BY <1>1, <1>2, <1>3 DEF TypeOK
  <1>5. 0 \notin Ids /\ Null \notin Entity /\ 0 \notin Slot BY DEF XdiAssumption, Slot
  <1>6. cur'.i = 0 /\ ~cur'.ok /\ pc' = "rc" BY DEF PostStep
  <1>7. UNCHANGED <<ent, wait, irq, phase, rcBuf>> BY DEF PostStep
  <1>8. Ctl' BY <1>1, <1>3, <1>6, <1>7 DEF Ctl
  <1>9. \A x \in Ids : IdTable[x] # 0 => IdTable[x] \in Slot
    <2>1. EMax \in Nat /\ \A x \in Ids : IdTable[x] \in 0..EMax
      BY <1>1 DEF TypeOK, XdiAssumption
    <2>2. QED BY <2>1 DEF Slot
  <1>10. CASE cur.ok
    <2>1. tbl' = tbl /\ IdTable' = [IdTable EXCEPT ![cur.Id] = i] BY <1>2, <1>10 DEF PostStep
    <2>2. IdTable'[cur.Id] = i /\ \A x \in Ids : x # cur.Id => IdTable'[x] = IdTable[x]
      BY <2>1, <1>1, <1>3, <1>10 DEF TypeOK
    <2>3. \A x \in Ids : IdTable'[x] # 0 => /\ tbl'[IdTable'[x]] # Null
                /\ ent'[tbl'[IdTable'[x]]].Id = x /\ ent'[tbl'[IdTable'[x]]].No = IdTable'[x]
      <3> TAKE x \in Ids
      <3>1. CASE x = cur.Id BY <3>1, <2>1, <2>2, <1>2, <1>3, <1>7, <1>10
      <3>2. CASE x # cur.Id BY <3>2, <2>1, <2>2, <1>1, <1>7 DEF IdTableSound
      <3>3. QED BY <3>1, <3>2
    <2>4. \A f \in Entity : ent[f].Id # 0 => IdTable'[ent[f].Id] = ent[f].No
      <3> TAKE f \in Entity
      <3> HAVE ent[f].Id # 0
      <3>1. ent[f].Id \in Ids BY <1>1, EntityTypes
      <3>2. CASE ent[f].Id = cur.Id
        <4>1. f = e BY <3>2, <1>3, <1>4, <1>10, UniqueId
        <4>2. QED BY <4>1, <2>2, <1>3, <1>10
      <3>3. CASE ent[f].Id # cur.Id
        <4>1. \/ IdTable[ent[f].Id] = ent[f].No
              \/ cur = [i |-> ent[f].No, Id |-> ent[f].Id, ok |-> TRUE]
          BY <1>1 DEF IdTableSound
        <4>2. IdTable[ent[f].Id] = ent[f].No BY <4>1, <3>3
        <4>3. QED BY <4>2, <3>1, <3>3, <2>2
      <3>4. QED BY <3>2, <3>3
    <2>5. \A j \in Slot : tbl[j] # Null => ent[tbl[j]].No = j
      BY <1>1, <1>2, <1>3, <1>10 DEF IdTableSound
    <2>6. IdTableSound' BY <2>1, <2>3, <2>4, <2>5, <1>7 DEF IdTableSound
    <2>7. \A f \in Entity : EntityAt(f, g.st[f])'
      <3> TAKE f \in Entity
      <3>1. EntityAt(f, g.st[f]) BY Parts
      <3>2. CASE g.st[f] \in {"none", "refused"}
        <4>1. ent[f].Id = 0 /\ NoSlot(f) BY <3>1, <3>2 DEF EntityAt
        <4>2. f # e BY <4>1, <1>3, <1>5, <1>10
        <4>3. NoSlot(f)' BY <4>1, <4>2, <2>1, <1>2 DEF NoSlot
        <4>4. QED BY <3>1, <3>2, <4>3, <2>1, <1>7 DEF EntityAt
      <3>3. CASE g.st[f] \notin {"none", "refused"}
        <4>1. HasSlot(f) <=> HasSlot(f)' BY <2>1, <1>7 DEF HasSlot
        <4>2. QED BY <3>1, <3>3, <4>1, <1>7 DEF EntityAt
      <3>4. QED BY <3>2, <3>3
    <2>8. QED BY <2>6, <2>7, <1>8
  <1>11. CASE ~cur.ok
    <2>1. tbl' = [tbl EXCEPT ![i] = Null] /\ IdTable' = IdTable BY <1>2, <1>11 DEF PostStep
    <2>2. tbl'[i] = Null /\ \A j \in Slot : j # i => tbl'[j] = tbl[j]
      BY <2>1, <1>1, <1>3 DEF TypeOK
    <2>3. \A x \in Ids : IdTable[x] # 0 => /\ tbl'[IdTable[x]] # Null
                /\ ent[tbl'[IdTable[x]]].Id = x /\ ent[tbl'[IdTable[x]]].No = IdTable[x]
      <3> TAKE x \in Ids
      <3> HAVE IdTable[x] # 0
      <3>1. /\ tbl[IdTable[x]] # Null /\ ent[tbl[IdTable[x]]].Id = x
            /\ ent[tbl[IdTable[x]]].No = IdTable[x]
        BY <1>1 DEF IdTableSound
      <3>2. IdTable[x] # i BY <3>1, <1>2, <1>3, <1>5, <1>11
      <3>3. QED BY <3>1, <3>2, <2>2, <1>9
    <2>4. \A f \in Entity : ent[f].Id # 0 => IdTable[ent[f].Id] = ent[f].No
      BY <1>1, <1>11 DEF IdTableSound
    <2>5. \A j \in Slot : tbl'[j] # Null => ent[tbl'[j]].No = j
      BY <1>1, <1>2, <2>2 DEF IdTableSound
    <2>6. IdTableSound' BY <2>1, <2>3, <2>4, <2>5, <1>7 DEF IdTableSound
    <2>7. \A f \in Entity : EntityAt(f, g.st[f])'
      <3> TAKE f \in Entity
      <3>1. EntityAt(f, g.st[f]) BY Parts
      <3>2. CASE g.st[f] \in {"none", "refused"}
        <4>1. NoSlot(f) BY <3>1, <3>2 DEF EntityAt
        <4>2. NoSlot(f)' BY <4>1, <2>2, <1>2, <1>4, <1>5 DEF NoSlot
        <4>3. QED BY <3>1, <3>2, <4>2, <1>7 DEF EntityAt
      <3>3. CASE g.st[f] \notin {"none", "refused"}
        <4>1. HasSlot(f) => HasSlot(f)'
          <5> HAVE HasSlot(f)
          <5>1. ent[f].No # i
            <6> SUFFICES ASSUME ent[f].No = i PROVE FALSE OBVIOUS
            <6>1. f = e BY <1>2 DEF HasSlot
            <6>2. g.st[e] \in {"asks", "asked"}
              BY <6>1, <3>3, <1>3, <1>4, <1>11, StageOf, Parts DEF Stage
            <6>3. CASE g.st[e] = "asks"
              <7>1. PICK k \in QLive(g) : g.q[k] = i BY <6>1, <6>3, <1>1, <1>4 DEF Queue
              <7>2. QED BY <7>1, <1>1, <1>2, <1>11 DEF Queue
            <6>4. CASE g.st[e] = "asked"
              <7>1. PICK k \in SLive(g) : g.S[k] = i BY <6>1, <6>4, <1>1, <1>4 DEF Assigns
              <7>2. QED BY <7>1, <1>1, <1>2 DEF Assigns
            <6>5. QED BY <6>2, <6>3, <6>4
          <5>2. QED BY <5>1, <2>2, <1>7 DEF HasSlot
        <4>2. QED BY <3>1, <3>3, <4>1, <1>7 DEF EntityAt
      <3>4. QED BY <3>2, <3>3
    <2>8. QED BY <2>6, <2>7, <1>8
  <1>12. QED BY <1>10, <1>11

\* The callback of an ASSIGN, and freeing the slot of a refused one, keep the
\* invariant.
LEMMA PostKeeps ==
    ASSUME XdiAssumption, NEW g, Whole(g), TypeOK', RcAssignPost
    PROVE  Whole(g)'
  <1>1. /\ TypeOK /\ Ctl /\ NoTrap /\ GhostType(g) /\ Pipes(g) /\ Forms(g)
        /\ \A e \in Entity : Msgs(g, e)
        /\ Queue(g) /\ Assigns(g) /\ Refs(g)
        /\ \A d \in Ids : IdAt(g, d)
        /\ \A c \in Chan, d \in Ids : <<c, d>> \in held => HoldAt(g, c, d)
        /\ held \subseteq Chan \X Ids
        /\ Pending(g) /\ Flows(g)
    BY Parts
  <1>2. PostStep
    BY DEF RcAssignPost, PostStep, clientVars, queueVars, outVars, ramVars, cardVars,
           free_entity
  <1>3. /\ Ctl' /\ IdTableSound' /\ \A e \in Entity : EntityAt(e, g.st[e])'
    BY <1>2, PostTables
  <1>4. PICK i : i = cur.i OBVIOUS
  <1>5. /\ cur'.i = 0 /\ pc = "post" /\ i \in Slot /\ (~cur.ok => ent[tbl[i]].Id = 0)
        /\ (cur.ok => tbl' = tbl) /\ 0 \notin Slot
    BY <1>1, <1>2, <1>4 DEF PostStep, Ctl, Slot
  <1>6. UNCHANGED <<wait, fcPend, clFc, clSkip, ent, next, ref, head, tail, assign,
                   fcId, rmPending, noCancel, trapped, cardIds, held>>
    BY <1>2 DEF PostStep
  <1>7. \A j \in Slot : tbl'[j] = tbl[j] \/ (~cur.ok /\ j = i /\ tbl'[j] = Null)
    BY <1>1, <1>2, <1>4 DEF PostStep, TypeOK
  <1>8. /\ \A k \in QLive(g) : g.q[k] \in Slot
        /\ \A k \in SLive(g) : g.S[k] \in Slot
    BY <1>1, GhostParts DEF QLive, SLive
  <1>9. Pipes(g)' BY <1>1, <1>2, PipesFrame DEF PostStep
  <1>10. NoTrap' BY <1>1, <1>6 DEF NoTrap
  <1>11. Queue(g)'
    <2>1. \A k \in QLive(g) : tbl'[g.q[k]] = tbl[g.q[k]]
      BY <1>1, <1>4, <1>7, <1>8 DEF Queue
    <2>2. \A k \in QLive(g) : cur'.i # g.q[k] BY <1>5, <1>8
    <2>3. QED BY <2>1, <2>2, <1>1, <1>6, QueueFrame
  <1>12. Assigns(g)'
    <2>1. \A k \in SLive(g) : tbl'[g.S[k]] = tbl[g.S[k]]
      BY <1>1, <1>4, <1>7, <1>8 DEF Assigns
    <2>2. \A k \in SLive(g) : cur'.i # g.S[k] BY <1>5, <1>8
    <2>3. QED BY <2>1, <2>2, <1>1, <1>6, AssignsFrame
  <1>13. Refs(g)' BY <1>1, <1>6 DEF Refs
  <1>14. \A d \in Ids : IdAt(g, d)' BY <1>1, <1>6 DEF IdAt, Unowned, Removing
  <1>15. \A c \in Chan, d \in Ids : <<c, d>> \in held' => HoldAt(g, c, d)'
    <2> TAKE c \in Chan, d \in Ids
    <2> HAVE <<c, d>> \in held'
    <2>1. HoldAt(g, c, d) BY <1>1, <1>6
    <2>2. Owner[c] # Null BY DEF XdiAssumption
    <2>3. \A k \in SLive(g) : tbl'[g.S[k]] = Owner[c] => tbl[g.S[k]] = Owner[c]
      BY <2>2, <1>7, <1>8
    <2>4. QED BY <2>1, <2>3, <1>6 DEF HoldAt, Unowned, Removing
  <1>16. \A e \in Entity : Msgs(g, e)'
    <2>1. ent' = ent BY <1>6
    <2>2. \A e \in Entity : Msgs(g, e) BY <1>1
    <2>3. QED BY <2>1, <2>2 DEF Msgs, SentAt, PlainAt, Removing
  <1>17. Pending(g)'
    <2>1. \A j \in Slot : tbl[j] # Null /\ Removing(g, tbl[j]) => ent[tbl[j]].Id # 0
      <3> TAKE j \in Slot
      <3> HAVE tbl[j] # Null /\ Removing(g, tbl[j])
      <3>1. tbl[j] \in Entity BY <1>1 DEF TypeOK
      <3>2. QED BY <3>1, StageOf DEF Removing
    <2>2. \A j \in Slot : j = i /\ ~cur.ok => j \notin rmPending
      BY <2>1, <1>1, <1>5 DEF Pending
    <2>3. \A j \in Slot : j \in rmPending <=>
             (tbl'[j] # Null /\ ent[tbl'[j]].No = j /\ Removing(g, tbl'[j]))
      <3> TAKE j \in Slot
      <3>1. CASE tbl'[j] = tbl[j] BY <3>1, <1>1 DEF Pending
      <3>2. CASE ~cur.ok /\ j = i /\ tbl'[j] = Null BY <3>2, <2>2
      <3>3. QED BY <3>1, <3>2, <1>7
    <2>4. QED BY <2>3, <1>6 DEF Pending, Removing
  <1>18. Flows(g)' BY <1>1, <1>6 DEF Flows, Flow
  <1>19. Inv(g)'
    BY <1>1, <1>3, <1>6, <1>9, <1>11, <1>12, <1>13, <1>14, <1>15, <1>16, <1>17, <1>18 DEF Inv
  <1>20. QED BY <1>3, <1>10, <1>19 DEF Whole

-----------------------------------------------------------------------------
(* The links of the request queue *)

\* The slots q[out+1], ... are linked from h to t.
Links(q, out, h, t, nx) ==
    /\ h = (IF out = Len(q) THEN 0 ELSE q[out + 1])
    /\ (out # Len(q) => t = q[Len(q)])
    /\ \A k \in (out + 1)..Len(q) : nx[q[k]] = (IF k = Len(q) THEN 0 ELSE q[k + 1])
    /\ \A j, k \in (out + 1)..Len(q) : q[j] = q[k] => j = k

\* The request queue is linked.
LEMMA QueueLinks ==
    ASSUME NEW g, Queue(g)
    PROVE  Links(g.q, g.out, head, tail, next)
  BY DEF Queue, Links, QLive

\* req_queue() links slot i behind the last one.
LEMMA LinksAppend ==
    ASSUME NEW q \in Seq(Slot), NEW out \in Nat, out <= Len(q), NEW h, NEW t,
           NEW nx, nx \in [Slot -> 0..EMax], Links(q, out, h, t, nx), NEW i \in Slot,
           \A k \in (out + 1)..Len(q) : q[k] # i
    PROVE  /\ Links(Append(q, i), out, IF h = 0 THEN i ELSE h, i, Append_next(nx, h, t, i))
           /\ Len(Append(q, i)) = Len(q) + 1 /\ Append(q, i) \in Seq(Slot)
           /\ Append(q, i)[Len(q) + 1] = i
           /\ \A k \in 1..Len(q) : Append(q, i)[k] = q[k]
           /\ \A x \in Slot : x # i /\ (h = 0 \/ x # t) => Append_next(nx, h, t, i)[x] = nx[x]
  <1>1. PICK L : L = Len(q) OBVIOUS
  <1>2. L \in Nat /\ out <= L BY <1>1
  <1>3. PICK u : u = Append(q, i) OBVIOUS
  <1>4. /\ Len(u) = L + 1 /\ u \in Seq(Slot) /\ u[L + 1] = i
        /\ \A k \in 1..L : u[k] = q[k]
    BY <1>1, <1>3
  <1>5. \A k \in 1..L : q[k] \in Slot BY <1>1
  <1>6. PICK ny : ny = Append_next(nx, h, t, i) OBVIOUS
  <1>7. \A x \in Slot : x # i /\ (h = 0 \/ x # t) => ny[x] = nx[x]
    BY <1>6 DEF Append_next
  <1>8. 0 \notin Slot BY DEF Slot
  <1>9. /\ h = (IF out = L THEN 0 ELSE q[out + 1])
        /\ (out # L => t = q[L])
        /\ \A k \in (out + 1)..L : nx[q[k]] = (IF k = L THEN 0 ELSE q[k + 1])
        /\ \A j, k \in (out + 1)..L : q[j] = q[k] => j = k
    BY <1>1 DEF Links
  <1>10. h = 0 <=> out = L
    <2>1. out # L => out + 1 \in 1..L BY <1>2
    <2>2. out # L => q[out + 1] # 0 BY <2>1, <1>5, <1>8
    <2>3. QED BY <2>2, <1>9
  <1>11. out # L => t \in Slot /\ t # i /\ L \in (out + 1)..L
    <2> HAVE out # L
    <2>1. L \in 1..L /\ L \in (out + 1)..L BY <1>2
    <2>2. t = q[L] BY <1>9
    <2>3. QED BY <2>1, <2>2, <1>1, <1>5
  <1>12. ny[i] = 0
    <2>1. CASE h = 0 BY <2>1, <1>6 DEF Append_next
    <2>2. CASE h # 0 BY <2>2, <1>6, <1>10, <1>11 DEF Append_next
    <2>3. QED BY <2>1, <2>2
  <1>13. h # 0 => ny[t] = i BY <1>6, <1>10, <1>11 DEF Append_next
  <1>14. \A k \in (out + 1)..(L + 1) : k = L + 1 \/ (k \in (out + 1)..L /\ k \in 1..L)
    BY <1>2
  <1>15. (IF h = 0 THEN i ELSE h) = u[out + 1]
    <2>1. CASE out = L BY <2>1, <1>4, <1>10
    <2>2. CASE out # L
      <3>1. out + 1 \in 1..L BY <2>2, <1>2
      <3>2. QED BY <3>1, <2>2, <1>4, <1>9, <1>10
    <2>3. QED BY <2>1, <2>2
  <1>16. \A k \in (out + 1)..(L + 1) : ny[u[k]] = (IF k = L + 1 THEN 0 ELSE u[k + 1])
    <2> TAKE k \in (out + 1)..(L + 1)
    <2>1. CASE k = L + 1 BY <2>1, <1>4, <1>12
    <2>2. CASE k = L /\ k \in (out + 1)..L
      <3>1. out # L /\ k # L + 1 /\ L \in 1..L BY <2>2, <1>2
      <3>2. u[k] = t /\ u[k + 1] = i BY <3>1, <2>2, <1>4, <1>9
      <3>3. QED BY <3>1, <3>2, <1>10, <1>13
    <2>3. CASE k # L /\ k \in (out + 1)..L
      <3>1. k \in 1..L /\ k + 1 \in 1..L /\ k # L + 1 /\ out # L /\ L \in (out + 1)..L
        BY <2>3, <1>2
      <3>2. u[k] = q[k] /\ u[k + 1] = q[k + 1] /\ q[k] \in Slot BY <3>1, <1>4, <1>5
      <3>3. q[k] # i BY <2>3, <1>1
      <3>4. q[k] # t BY <2>3, <3>1, <1>9
      <3>5. ny[q[k]] = nx[q[k]] BY <3>2, <3>3, <3>4, <1>7
      <3>6. nx[q[k]] = q[k + 1] BY <2>3, <1>9
      <3>7. QED BY <3>1, <3>2, <3>5, <3>6
    <2>4. QED BY <2>1, <2>2, <2>3, <1>14
  <1>17. \A j, k \in (out + 1)..(L + 1) : u[j] = u[k] => j = k
    <2> TAKE j, k \in (out + 1)..(L + 1)
    <2> HAVE u[j] = u[k]
    <2>1. \A l \in (out + 1)..L : u[l] = q[l] /\ q[l] # i
      BY <1>1, <1>2, <1>4
    <2>2. QED BY <2>1, <1>4, <1>9, <1>14
  <1>18. out # L + 1 BY <1>2
  <1>19. Links(u, out, IF h = 0 THEN i ELSE h, i, ny)
    BY <1>4, <1>15, <1>16, <1>17, <1>18 DEF Links
  <1>20. QED BY <1>1, <1>3, <1>4, <1>6, <1>7, <1>19

\* next_req(): the head leaves the queue.
LEMMA LinksTake ==
    ASSUME NEW q \in Seq(Slot), NEW out \in Nat, out <= Len(q), NEW h, NEW t,
           NEW nx, Links(q, out, h, t, nx), h # 0
    PROVE  /\ Links(q, out + 1, nx[h], t, nx) /\ out + 1 <= Len(q)
           /\ h = q[out + 1] /\ out + 1 \in (out + 1)..Len(q)
           /\ \A k \in (out + 2)..Len(q) : q[k] # h
           /\ (nx[h] = 0 <=> out + 1 = Len(q))
  <1>1. PICK L : L = Len(q) OBVIOUS
  <1>2. L \in Nat /\ out <= L BY <1>1
  <1>3. /\ h = (IF out = L THEN 0 ELSE q[out + 1])
        /\ (out # L => t = q[L])
        /\ \A k \in (out + 1)..L : nx[q[k]] = (IF k = L THEN 0 ELSE q[k + 1])
        /\ \A j, k \in (out + 1)..L : q[j] = q[k] => j = k
    BY <1>1 DEF Links
  <1>4. out # L /\ h = q[out + 1] BY <1>3
  <1>5. out + 1 \in (out + 1)..L /\ out + 1 <= L BY <1>2, <1>4
  <1>6. nx[h] = (IF out + 1 = L THEN 0 ELSE q[out + 1 + 1]) BY <1>3, <1>4, <1>5
  <1>7. \A k \in (out + 1 + 1)..L : k \in (out + 1)..L BY <1>2
  <1>8. Links(q, out + 1, nx[h], t, nx) BY <1>1, <1>3, <1>4, <1>6, <1>7 DEF Links
  <1>9. \A k \in (out + 2)..L : q[k] # h
    <2> TAKE k \in (out + 2)..L
    <2>1. k \in (out + 1)..L /\ k # out + 1 BY <1>2
    <2>2. QED BY <2>1, <1>3, <1>4, <1>5
  <1>10. nx[h] = 0 <=> out + 1 = L
    <2>1. ASSUME out + 1 # L PROVE q[out + 1 + 1] # 0
      <3>1. out + 1 + 1 \in 1..Len(q) BY <2>1, <1>1, <1>2, <1>5
      <3>2. q[out + 1 + 1] \in Slot BY <3>1
      <3>3. QED BY <3>2 DEF Slot
    <2>2. QED BY <2>1, <1>6
  <1>11. QED BY <1>1, <1>4, <1>5, <1>8, <1>9, <1>10

-----------------------------------------------------------------------------
(* request() *)

\* Entity e, which has no request, is given one: its stage becomes s.
AskStep(g, h, e, s) ==
    /\ e \in Entity /\ s \in Stage /\ g.st \in [Entity -> Stage]
    /\ h.S = g.S /\ h.done = g.done /\ h.ans = g.ans /\ h.R = g.R /\ h.got = g.got
    /\ h.Q = g.Q /\ h.tk = g.tk /\ h.st = [g.st EXCEPT ![e] = s]
    /\ \A f \in Entity : f # e => ent'[f] = ent[f] /\ wait'[f] = wait[f]
    /\ ent'[e].Id = ent[e].Id /\ wait'[e]
    /\ \/ ent[e].Id = 0 /\ g.st[e] = "none" /\ s \in {"refused", "asks"}
       \/ /\ ent[e].Id # 0 /\ g.st[e] = "idle" /\ s = "queued"
          /\ ent'[e].No = ent[e].No /\ ent'[e].XMOREC = ent[e].XMOREC
    /\ UNCHANGED <<fcPend, clFc, assign, ref, IdTable, fcId, rmPending, noCancel, trapped,
                   pc, phase, irq, rcBuf, outq, inbox, batch, cur, cardIds, held>>
    /\ clSkip \subseteq clSkip'
    /\ (ent'[e].ReqCh \in clFc => ent'[e].ReqCh \in clSkip')
    /\ (ent'[e].Req = "DATA" => ent'[e].ReqCh \notin fcPend)
    /\ \A j \in Slot : tbl'[j] = tbl[j] \/ (tbl[j] = Null /\ tbl'[j] = e)

\* What a call of request() leaves as it is
LEMMA AskKeeps ==
    ASSUME XdiAssumption, NEW g, Whole(g), NEW h, NEW e, NEW s, AskStep(g, h, e, s)
    PROVE  /\ Pipes(h)' /\ Forms(h) /\ NoTrap' /\ Refs(h)'
           /\ \A d \in Ids : IdAt(h, d)'
           /\ \A c \in Chan, d \in Ids : <<c, d>> \in held' => HoldAt(h, c, d)'
           /\ held' \subseteq Chan \X Ids
           /\ \A f \in Entity : Msgs(h, f)'
           /\ Pending(h)' /\ Flows(h)'
           /\ \A f \in Entity : f # e => h.st[f] = g.st[f]
           /\ h.st[e] = s
  <1>1. /\ TypeOK /\ Ctl /\ IdTableSound /\ NoTrap
        /\ GhostType(g) /\ Pipes(g) /\ Forms(g)
        /\ Queue(g) /\ Assigns(g) /\ Refs(g)
        /\ Pending(g) /\ Flows(g) /\ held \subseteq Chan \X Ids
    BY Parts
  <1>2. /\ e \in Entity /\ h.S = g.S /\ h.done = g.done /\ h.ans = g.ans /\ h.R = g.R
        /\ h.got = g.got /\ h.Q = g.Q /\ h.tk = g.tk
        /\ ent'[e].Id = ent[e].Id /\ wait'[e]
        /\ \A f \in Entity : f # e => ent'[f] = ent[f] /\ wait'[f] = wait[f]
    BY DEF AskStep
  <1>3. UNCHANGED <<fcPend, clFc, assign, ref, IdTable, fcId, rmPending, noCancel, trapped,
                   pc, phase, irq, rcBuf, outq, inbox, batch, cur, cardIds, held>>
    BY DEF AskStep
  <1>4. h.st[e] = s /\ \A f \in Entity : f # e => h.st[f] = g.st[f] BY DEF AskStep
  <1>5. g.st[e] \in {"none", "idle"} /\ s \in {"refused", "asks", "queued"} BY DEF AskStep
  <1>6. \A f \in Entity : ent'[f].Id = ent[f].Id BY <1>2
  <1>7. \A f \in Entity : Removing(h, f)' <=> Removing(g, f) BY <1>2, <1>4, <1>5 DEF Removing
  <1>8. \A d : Unowned(d)' <=> Unowned(d) BY <1>6 DEF Unowned
  <1>9. RLive(h) = RLive(g) /\ RqLive(h) = RqLive(g) /\ SLive(h) = SLive(g)
    BY <1>2 DEF RLive, RqLive, SLive
  <1>10. SameItems(g, h) /\ \A d : SameMsgs(g, h, d)
    BY <1>2, <1>9 DEF SameItems, SameMsgs, Plain, Labels, News, Sent
  <1>11. Pipes(h)' BY <1>1, <1>2, <1>3 DEF Pipes
  <1>12. Forms(h) BY <1>1, <1>2, <1>9 DEF Forms
  <1>13. NoTrap' BY <1>1, <1>3 DEF NoTrap
  <1>14. Refs(h)' BY <1>1, <1>2, <1>3, <1>9 DEF Refs
  <1>15. \A d \in Ids : IdAt(h, d)'
    <2> TAKE d \in Ids
    <2>1. IdAt(g, d) BY Parts
    <2>2. QED BY <2>1, <1>3, <1>6, <1>7, <1>8, <1>9, <1>10, IdFrame
  <1>16. \A c \in Chan, d \in Ids : <<c, d>> \in held' => HoldAt(h, c, d)'
    <2> TAKE c \in Chan, d \in Ids
    <2> HAVE <<c, d>> \in held'
    <2>1. HoldAt(g, c, d) BY <1>3, Parts
    <2>2. \A k \in SLive(g) : g.S[k] \in Slot /\ tbl[g.S[k]] # Null /\ ref[g.S[k]] # 0
      BY <1>1, GhostParts DEF SLive, Assigns
    <2>3. \A k \in SLive(g) : tbl'[g.S[k]] = tbl[g.S[k]] BY <2>2 DEF AskStep
    <2>4. Owner[c] \in Entity BY DEF XdiAssumption
    <2>5. d \in cardIds BY <2>1 DEF HoldAt
    <2>6. \A k \in Sent(g, d) : k \in Sent(h, d) BY <1>10 DEF SameMsgs
    <2>7. QED BY <2>1, <2>2, <2>3, <2>4, <2>5, <2>6, <1>1, <1>2, <1>3, <1>6, <1>7, <1>8,
                 <1>9, <1>10, HoldFrame
  <1>17. held' \subseteq Chan \X Ids BY <1>1, <1>3
  <1>18. ent[e].Id # 0 => /\ g.st[e] = "idle" /\ s = "queued"
                          /\ ent'[e].No = ent[e].No /\ ent'[e].XMOREC = ent[e].XMOREC
                          /\ Plain(h, ent[e].Id) = {} /\ Sent(h, ent[e].Id) = {}
                          /\ Plain(g, ent[e].Id) = {} /\ Sent(g, ent[e].Id) = {}
    <2> HAVE ent[e].Id # 0
    <2>1. /\ g.st[e] = "idle" /\ s = "queued"
          /\ ent'[e].No = ent[e].No /\ ent'[e].XMOREC = ent[e].XMOREC
      BY DEF AskStep
    <2>2. Plain(g, ent[e].Id) = {} /\ Sent(g, ent[e].Id) = {} BY <2>1, <1>2, HasRequest
    <2>3. QED BY <2>1, <2>2, <1>10 DEF SameMsgs
  <1>19. \A f \in Entity : Msgs(h, f)'
    <2> TAKE f \in Entity
    <2>1. Msgs(g, f) BY Parts
    <2>2. CASE f # e
      BY <2>1, <2>2, <1>2, <1>4, <1>10, MsgsFrame DEF SameEnt
    <2>3. CASE f = e
      <3>1. CASE ent[e].Id = 0 BY <2>3, <3>1, <1>2 DEF Msgs
      <3>2. CASE ent[e].Id # 0
        <4>1. PICK d : d = ent[e].Id OBVIOUS
        <4>2. /\ Plain(h, d) = {} /\ Sent(h, d) = {} /\ Plain(g, d) = {} /\ Sent(g, d) = {}
              /\ ent'[e].XMOREC = ent[e].XMOREC
          BY <4>1, <3>2, <1>18
        <4>3. \A k \in Labels(h, d) : Owner[h.R[k].RcCh] = e
          BY <4>1, <3>2, <2>1, <2>3, <1>2, <1>10 DEF Msgs, SameMsgs
        <4>4. ent'[e].XMOREC = Cardinality(Plain(h, d)) + Cardinality(Sent(h, d))
          BY <4>1, <4>2, <3>2, <2>1, <2>3 DEF Msgs
        <4>5. QED BY <4>1, <4>2, <4>3, <4>4, <2>3, <1>2 DEF Msgs
      <3>3. QED BY <3>1, <3>2
    <2>4. QED BY <2>2, <2>3
  <1>20. Pending(h)'
    <2>0. PICK Rem : Rem = {f \in Entity : Removing(g, f)} OBVIOUS
    <2>1. \A f \in Entity : (Removing(g, f) <=> f \in Rem) /\ (Removing(h, f)' <=> f \in Rem)
      BY <2>0, <1>7
    <2>2. e \notin Rem BY <2>1, <1>5, <1>2 DEF Removing
    <2>3. \A j \in Slot : j \in rmPending <=>
            (tbl[j] # Null /\ ent[tbl[j]].No = j /\ tbl[j] \in Rem)
      BY <2>1, <1>1 DEF Pending, TypeOK
    <2>4. Null \notin Rem BY <2>0 DEF XdiAssumption
    <2>5. \A j \in Slot : tbl'[j] # Null => tbl'[j] \in Entity
      <3>1. tbl \in [Slot -> Entity \cup {Null}] BY <1>1 DEF TypeOK
      <3>2. \A j \in Slot : tbl'[j] = tbl[j] \/ (tbl[j] = Null /\ tbl'[j] = e) BY DEF AskStep
      <3>3. QED BY <3>1, <3>2, <1>2
    <2>6. \A j \in Slot : j \in rmPending <=>
            (tbl'[j] # Null /\ ent'[tbl'[j]].No = j /\ tbl'[j] \in Rem)
      <3> TAKE j \in Slot
      <3>1. CASE tbl'[j] = tbl[j]
        <4>1. CASE tbl[j] \in Rem
          <5>1. tbl[j] \in Entity /\ tbl[j] # e BY <4>1, <2>0, <2>2
          <5>2. QED BY <5>1, <3>1, <2>3, <1>2
        <4>2. QED BY <4>1, <3>1, <2>3
      <3>2. CASE tbl[j] = Null /\ tbl'[j] = e BY <3>2, <2>2, <2>3
      <3>3. QED BY <3>1, <3>2 DEF AskStep
    <2>7. \A j \in Slot : (tbl[j] # Null => (tbl[j] \in Rem <=> Removing(h, tbl[j])))'
      <3>1. \A f \in Entity : f \in Rem <=> h.st[f] = "sent" /\ ent'[f].Req = "REMOVE"
        BY <2>1 DEF Removing
      <3>2. QED BY <2>5, <3>1 DEF Removing
    <2>8. QED BY <2>6, <2>7, <1>3 DEF Pending
  <1>21. Flows(h)'
    <2>1. \A c \in Chan : Owner[c] \in Entity BY DEF XdiAssumption
    <2>2. clSkip \subseteq clSkip'
          /\ (ent'[e].ReqCh \in clFc => ent'[e].ReqCh \in clSkip')
          /\ (ent'[e].Req = "DATA" => ent'[e].ReqCh \notin fcPend)
      BY DEF AskStep
    <2>3. \A c \in Chan : ent'[Owner[c]].Id # 0 => Flow(h, c)'
      <3> TAKE c \in Chan
      <3> HAVE ent'[Owner[c]].Id # 0
      <3>1. PICK o, d : o = Owner[c] /\ d = ent[o].Id OBVIOUS
      <3>2. o \in Entity /\ d # 0 /\ ent'[o].Id = d BY <3>1, <2>1, <1>6
      <3>3. Flow(g, c) BY <3>1, <3>2, <1>1 DEF Flows
      <3>4. SameLabs(g, h, c, d) BY <1>10, LabsFrame
      <3>5. CASE o = e
        <4>1. /\ LabelsFollow(Lab(g, c, d), Says(g, c, d, "OK_FC"), c \in clFc)
              /\ (<<c, d>> \in held => HeldFor(Lab(g, c, d), Says(g, c, d, "OK_FC"), c \in clFc))
              /\ (c \in clFc => \/ <<c, d>> \in held \/ Lab(g, c, d) # {}
                                \/ Says(g, c, d, "ERR") # {}
                                \/ wait[o] /\ ent[o].Req = "REMOVE")
              /\ (fcId[c] = d /\ ent[o].No \notin noCancel => c \in clFc)
          BY <3>1, <3>3, FlowParts
        <4>2. /\ \A rc \in RcCode : Says(h, c, d, rc) = {} /\ Says(g, c, d, rc) = {}
              /\ g.st[e] = "idle" /\ ent'[e].No = ent[e].No
          BY <3>1, <3>2, <3>5, <1>18 DEF Says
        <4>3. ~wait[e] /\ {"OK", "OK_FC", "ERR"} \subseteq RcCode
          BY <4>2, <1>2, Parts DEF EntityAt, RcCode
        <4>4. Lab(h, c, d) = Lab(g, c, d) BY <3>4 DEF SameLabs
        <4>5. /\ LabelsFollow(Lab(h, c, d), Says(h, c, d, "OK_FC"), c \in clFc')
              /\ (<<c, d>> \in held' => HeldFor(Lab(h, c, d), Says(h, c, d, "OK_FC"), c \in clFc'))
          BY <4>1, <4>2, <4>3, <4>4, <1>3
        <4>6. /\ (c \in clFc' => <<c, d>> \in held' \/ Lab(h, c, d) # {})
              /\ (fcId'[c] = d /\ ent'[e].No \notin noCancel' => c \in clFc')
              /\ Says(h, c, d, "ERR") = {} /\ Says(h, c, d, "OK") = {}
              /\ Says(h, c, d, "OK_FC") = {}
          BY <4>1, <4>2, <4>3, <4>4, <3>5, <1>3
        <4>7. /\ (wait'[e] /\ ent'[e].ReqCh = c /\ ent'[e].Req = "DATA" => c \notin fcPend')
              /\ (wait'[e] /\ ent'[e].ReqCh = c /\ c \in clFc' => c \in clSkip')
          BY <2>2, <1>3
        <4>8. e = Owner[c] /\ d = ent'[e].Id BY <3>1, <3>2, <3>5
        <4>9. QED BY <4>5, <4>6, <4>7, <4>8, FlowBuild
      <3>6. CASE o # e
        <4>1. ent'[o] = ent[o] /\ wait'[o] = wait[o] BY <3>2, <3>6, <1>2
        <4>2. QED BY <3>1, <3>3, <3>4, <4>1, <2>2, <1>3, FlowFrame
      <3>7. QED BY <3>5, <3>6
    <2>4. QED BY <2>1, <2>3, <1>1, <1>3, <1>6 DEF Flows
  <1>22. QED BY <1>4, <1>11, <1>12, <1>13, <1>14, <1>15, <1>16, <1>17, <1>19, <1>20, <1>21

\* request() refuses: there is no slot left.
RefuseStep(g, h, e) ==
    /\ h = Mk(g.q, g.out, g.S, g.done, g.ans, g.R, g.got, g.Q, g.tk,
              [g.st EXCEPT ![e] = "refused"])
    /\ AskStep(g, h, e, "refused") /\ ent[e].Id = 0
    /\ UNCHANGED <<tbl, next, head, tail>>
    /\ ent'[e].No = ent[e].No /\ EntityAt(e, "refused")'

\* A request that req() refuses because no slot is free keeps the invariant.
LEMMA RefuseKeeps ==
    ASSUME XdiAssumption, NEW g, Whole(g), TypeOK', NEW h, NEW e, RefuseStep(g, h, e)
    PROVE  Whole(h)'
  <1>1. /\ TypeOK /\ Ctl /\ IdTableSound /\ GhostType(g) /\ Queue(g) /\ Assigns(g)
    BY Parts
  <1>2. /\ Pipes(h)' /\ Forms(h) /\ NoTrap' /\ Refs(h)'
        /\ \A d \in Ids : IdAt(h, d)'
        /\ \A c \in Chan, d \in Ids : <<c, d>> \in held' => HoldAt(h, c, d)'
        /\ held' \subseteq Chan \X Ids
        /\ \A f \in Entity : Msgs(h, f)'
        /\ Pending(h)' /\ Flows(h)'
        /\ \A f \in Entity : f # e => h.st[f] = g.st[f]
        /\ h.st[e] = "refused"
    <2>1. AskStep(g, h, e, "refused") BY DEF RefuseStep
    <2>2. QED BY <2>1, AskKeeps
  <1>3. /\ h.S = g.S /\ h.done = g.done /\ e \in Entity /\ wait'[e] /\ ent'[e].Id = ent[e].Id
        /\ \A f \in Entity : f # e => ent'[f] = ent[f] /\ wait'[f] = wait[f]
        /\ g.st[e] = "none"
    BY DEF RefuseStep, AskStep
  <1>4. UNCHANGED <<tbl, next, head, tail, assign, ref, cur, irq, rcBuf, pc, phase, IdTable>>
    BY DEF RefuseStep, AskStep
  <1>5. /\ h.q = g.q /\ h.out = g.out /\ h.S = g.S /\ h.done = g.done /\ h.ans = g.ans
        /\ h.R = g.R /\ h.got = g.got /\ h.Q = g.Q /\ h.tk = g.tk
        /\ h \in Ghost
    <2>1. PICK st : st = [g.st EXCEPT ![e] = "refused"] OBVIOUS
    <2>2. st \in [Entity -> Stage]
      BY <2>1, <1>1, GhostParts DEF Stage
    <2>3. h = Mk(g.q, g.out, g.S, g.done, g.ans, g.R, g.got, g.Q, g.tk, st)
      BY <2>1 DEF RefuseStep
    <2>4. /\ g.q \in Seq(Slot) /\ g.out \in Nat /\ g.S \in Seq(Slot) /\ g.done \in Nat
          /\ g.ans \in Nat /\ g.R \in Seq(RC) /\ g.got \in Nat /\ g.Q \in Seq(REQ)
          /\ g.tk \in Nat
      BY <1>1, GhostParts
    <2>5. /\ h.q = g.q /\ h.out = g.out /\ h.S = g.S /\ h.done = g.done /\ h.ans = g.ans
          /\ h.R = g.R /\ h.got = g.got /\ h.Q = g.Q /\ h.tk = g.tk
      BY <2>3 DEF Mk
    <2>6. h \in Ghost BY <2>2, <2>3, <2>4 DEF Mk, Ghost
    <2>7. QED BY <2>5, <2>6
  <1>6. GhostType(h) BY <1>1, <1>5, GhostParts DEF GhostType
  <1>7. \A f \in Entity : ent'[f].Id = ent[f].Id /\ ent'[f].No = ent[f].No
    BY <1>3 DEF RefuseStep
  <1>8. \A j \in Slot : tbl[j] # Null => tbl[j] \in Entity BY <1>1 DEF TypeOK
  <1>9. Ctl' BY <1>1, <1>4, <1>7, <1>8 DEF Ctl
  <1>10. IdTableSound'
    <2>1. \A x \in Ids : IdTable[x] # 0 => tbl[IdTable[x]] \in Entity
      <3>0. EMax \in Nat /\ \A x \in Ids : IdTable[x] \in 0..EMax
        BY <1>1 DEF TypeOK, XdiAssumption
      <3>1. \A x \in Ids : IdTable[x] # 0 => IdTable[x] \in Slot BY <3>0 DEF Slot
      <3>2. QED BY <3>1, <1>1, <1>8 DEF IdTableSound
    <2>2. QED BY <1>1, <1>4, <1>7, <1>8, <2>1 DEF IdTableSound
  <1>11. \A f \in Entity : EntityAt(f, h.st[f])'
    <2> TAKE f \in Entity
    <2>1. CASE f = e BY <2>1, <1>2 DEF RefuseStep
    <2>2. CASE f # e
      <3>1. EntityAt(f, g.st[f]) BY Parts
      <3>2. ent'[f] = ent[f] /\ wait'[f] = wait[f] BY <2>2, <1>3
      <3>3. (HasSlot(f) => HasSlot(f)') /\ (NoSlot(f) => NoSlot(f)')
        BY <3>2, <1>4 DEF HasSlot, NoSlot
      <3>4. EntityAt(f, g.st[f])' BY <3>1, <3>2, <3>3, EntityFrame
      <3>5. QED BY <3>4, <2>2, <1>2
    <2>3. QED BY <2>1, <2>2
  <1>12. \A f \in Entity : /\ h.st[f] \in {"asks", "queued"} <=> g.st[f] \in {"asks", "queued"}
                           /\ h.st[f] = "asked" <=> g.st[f] = "asked"
    BY <1>2, <1>3
  <1>13. Queue(h)'
    <2>1. \A k \in QLive(g) : cur'.i # g.q[k] \/ cur'.ok BY <1>1, <1>4 DEF Queue
    <2>2. QED BY <2>1, <1>1, <1>4, <1>5, <1>7, <1>12, QueueFrame
  <1>14. Assigns(h)'
    <2>1. \A k \in SLive(g) : cur'.i # g.S[k] BY <1>1, <1>4 DEF Assigns
    <2>2. QED BY <2>1, <1>1, <1>4, <1>5, <1>7, <1>12, AssignsFrame
  <1>15. Inv(h)' BY <1>2, <1>6, <1>11, <1>13, <1>14 DEF Inv
  <1>16. QED BY <1>2, <1>9, <1>10, <1>15 DEF Whole

\* request() links the entity into the queue, in a free slot or in its own.
PutStep(g, h, e, i, s) ==
    /\ h = Mk(Append(g.q, i), g.out, g.S, g.done, g.ans, g.R, g.got, g.Q, g.tk,
              [g.st EXCEPT ![e] = s])
    /\ AskStep(g, h, e, s) /\ i \in Slot
    /\ \/ s = "asks" /\ g.st[e] = "none" /\ tbl[i] = Null /\ tbl' = [tbl EXCEPT ![i] = e]
       \/ s = "queued" /\ g.st[e] = "idle" /\ tbl[i] = e /\ ent[e].No = i /\ tbl' = tbl
    /\ next' = Append_next(next, head, tail, i)
    /\ head' = (IF head = 0 THEN i ELSE head) /\ tail' = i
    /\ ent'[e].No = i /\ EntityAt(e, s)'

\* req_queue() keeps the request queue and leaves the assign list alone.
LEMMA PutQueue ==
    ASSUME XdiAssumption, NEW g, Whole(g), TypeOK', NEW h, NEW e, NEW i, NEW s,
           PutStep(g, h, e, i, s)
    PROVE  Queue(h)' /\ Assigns(h)' /\ GhostType(h)
  <1>1. TypeOK /\ Ctl /\ GhostType(g) /\ Queue(g) /\ Assigns(g) BY Parts
  <1>2. PICK L, out : L = Len(g.q) /\ out = g.out OBVIOUS
  <1>3. /\ g.q \in Seq(Slot) /\ out \in Nat /\ L \in Nat /\ out <= L
        /\ QLive(g) = (out + 1)..L
    BY <1>1, <1>2, GhostParts DEF QLive
  <1>4. AskStep(g, h, e, s) /\ i \in Slot /\ tail' = i
        /\ next' = Append_next(next, head, tail, i)
        /\ head' = (IF head = 0 THEN i ELSE head) /\ ent'[e].No = i
    BY DEF PutStep
  <1>5. \/ s = "asks" /\ g.st[e] = "none" /\ tbl[i] = Null /\ tbl' = [tbl EXCEPT ![i] = e]
        \/ s = "queued" /\ g.st[e] = "idle" /\ tbl[i] = e /\ ent[e].No = i /\ tbl' = tbl
    BY DEF PutStep
  <1>6. /\ e \in Entity /\ h.st = [g.st EXCEPT ![e] = s] /\ g.st \in [Entity -> Stage]
        /\ \A f \in Entity : f # e => ent'[f] = ent[f]
        /\ UNCHANGED <<assign, ref, cur, pc>>
    BY <1>4 DEF AskStep
  <1>7. /\ h.q = Append(g.q, i) /\ h.out = out /\ h.S = g.S /\ h.done = g.done /\ h.ans = g.ans
        /\ h.R = g.R /\ h.got = g.got /\ h.Q = g.Q /\ h.tk = g.tk
    <2>1. PICK st : st = [g.st EXCEPT ![e] = s] OBVIOUS
    <2>2. PICK u : u = Append(g.q, i) OBVIOUS
    <2>4. h = Mk(u, g.out, g.S, g.done, g.ans, g.R, g.got, g.Q, g.tk, st)
      BY <2>1, <2>2 DEF PutStep
    <2>5. /\ h.q = u /\ h.out = g.out /\ h.S = g.S /\ h.done = g.done /\ h.ans = g.ans
          /\ h.R = g.R /\ h.got = g.got /\ h.Q = g.Q /\ h.tk = g.tk
      BY <2>4, MkParts
    <2>6. QED BY <2>2, <2>5, <1>2
  <1>8. \A k \in QLive(g) : /\ k \in 1..L /\ g.q[k] \in Slot /\ tbl[g.q[k]] \in Entity
                            /\ g.st[tbl[g.q[k]]] \in {"asks", "queued"}
                            /\ ent[tbl[g.q[k]]].No = g.q[k]
                            /\ (cur.i # g.q[k] \/ cur.ok)
    <2>1. \A k \in QLive(g) : k \in 1..L BY <1>3
    <2>2. \A k \in QLive(g) : g.q[k] \in Slot BY <2>1, <1>2, <1>3
    <2>3. \A k \in QLive(g) : /\ tbl[g.q[k]] # Null
                              /\ g.st[tbl[g.q[k]]] \in {"asks", "queued"}
                              /\ ent[tbl[g.q[k]]].No = g.q[k]
                              /\ (cur.i # g.q[k] \/ cur.ok)
      BY <1>1 DEF Queue
    <2>4. \A j \in Slot : tbl[j] # Null => tbl[j] \in Entity BY <1>1 DEF TypeOK
    <2>5. QED BY <2>1, <2>2, <2>3, <2>4
  <1>9. \A k \in QLive(g) : tbl[g.q[k]] # e /\ g.q[k] # i BY <1>5, <1>8 DEF XdiAssumption
  <1>10. /\ Links(h.q, out, head', tail', next')
         /\ Len(h.q) = L + 1 /\ h.q \in Seq(Slot) /\ h.q[L + 1] = i
         /\ \A k \in 1..L : h.q[k] = g.q[k]
         /\ \A x \in Slot : x # i /\ (head = 0 \/ x # tail) => next'[x] = next[x]
    <2>1. Links(g.q, out, head, tail, next) BY <1>1, <1>2, QueueLinks
    <2>2. \A k \in (out + 1)..Len(g.q) : g.q[k] # i BY <1>2, <1>3, <1>9
    <2>3. next \in [Slot -> 0..EMax] /\ out <= Len(g.q) BY <1>1, <1>2, <1>3 DEF TypeOK
    <2>4. PICK q : q = g.q OBVIOUS
    <2>5. /\ q \in Seq(Slot) /\ out \in Nat /\ out <= Len(q) /\ Links(q, out, head, tail, next)
          /\ i \in Slot /\ \A k \in (out + 1)..Len(q) : q[k] # i
      BY <2>1, <2>2, <2>3, <2>4, <1>3, <1>4
    <2>6. /\ Links(Append(q, i), out, IF head = 0 THEN i ELSE head, i,
                   Append_next(next, head, tail, i))
          /\ Len(Append(q, i)) = Len(q) + 1 /\ Append(q, i) \in Seq(Slot)
          /\ Append(q, i)[Len(q) + 1] = i
          /\ \A k \in 1..Len(q) : Append(q, i)[k] = q[k]
          /\ \A x \in Slot : x # i /\ (head = 0 \/ x # tail) =>
                Append_next(next, head, tail, i)[x] = next[x]
      <3>1. PICK nn, hh, tt : nn = next /\ hh = head /\ tt = tail OBVIOUS
      <3>2. nn \in [Slot -> 0..EMax] /\ Links(q, out, hh, tt, nn) BY <2>3, <2>5, <3>1
      <3>3. /\ Links(Append(q, i), out, IF hh = 0 THEN i ELSE hh, i,
                     Append_next(nn, hh, tt, i))
            /\ Len(Append(q, i)) = Len(q) + 1 /\ Append(q, i) \in Seq(Slot)
            /\ Append(q, i)[Len(q) + 1] = i
            /\ \A k \in 1..Len(q) : Append(q, i)[k] = q[k]
            /\ \A x \in Slot : x # i /\ (hh = 0 \/ x # tt) =>
                  Append_next(nn, hh, tt, i)[x] = nn[x]
        BY <2>5, <3>2, LinksAppend
      <3>4. QED BY <3>1, <3>3
    <2>7. PICK u : u = Append(q, i) OBVIOUS
    <2>8. h.q = u /\ Len(q) = L BY <2>4, <2>7, <1>2, <1>7
    <2>9. PICK nx, hd : /\ nx = Append_next(next, head, tail, i)
                        /\ hd = (IF head = 0 THEN i ELSE head)
      OBVIOUS
    <2>10. next' = nx /\ head' = hd /\ tail' = i BY <2>9, <1>4
    <2>11. Links(u, out, hd, i, nx) BY <2>6, <2>7, <2>9
    <2>12. Links(h.q, out, head', tail', next') BY <2>8, <2>10, <2>11
    <2>13. Len(h.q) = L + 1 /\ h.q \in Seq(Slot) /\ h.q[L + 1] = i
      BY <2>6, <2>7, <2>8
    <2>14. \A k \in 1..L : h.q[k] = g.q[k] BY <2>4, <2>6, <2>7, <2>8
    <2>15. \A x \in Slot : x # i /\ (head = 0 \/ x # tail) => next'[x] = next[x]
      BY <2>6, <2>9, <2>10
    <2>16. QED BY <2>12, <2>13, <2>14, <2>15
  <1>11. /\ QLive(h) = (out + 1)..(L + 1)
         /\ \A k \in (out + 1)..(L + 1) : k = L + 1 \/ k \in QLive(g)
         /\ L + 1 \in QLive(h) /\ \A k \in QLive(g) : k \in QLive(h)
    <2>1. Len(h.q) = L + 1 /\ h.out = out BY <1>7, <1>10
    <2>2. QLive(h) = (out + 1)..(L + 1) BY <2>1 DEF QLive
    <2>3. /\ \A k \in (out + 1)..(L + 1) : k = L + 1 \/ k \in (out + 1)..L
          /\ L + 1 \in (out + 1)..(L + 1)
          /\ \A k \in (out + 1)..L : k \in (out + 1)..(L + 1)
      <3>1. L \in Nat /\ out \in Nat /\ out <= L BY <1>3
      <3>2. QED BY <3>1
    <2>4. QED BY <2>2, <2>3, <1>3
  <1>12. tbl'[i] = e /\ \A j \in Slot : j # i => tbl'[j] = tbl[j]
    BY <1>1, <1>4, <1>5 DEF TypeOK
  <1>13. s \in {"asks", "queued"} /\ h.st[e] = s /\ \A f \in Entity : f # e => h.st[f] = g.st[f]
    BY <1>5, <1>6
  <1>14. cur.i # i \/ cur.ok
    <2>1. CASE pc # "post" BY <2>1, <1>1, <1>4 DEF Ctl, Slot
    <2>2. CASE pc = "post" /\ ~cur.ok
      <3>1. tbl[cur.i] # Null /\ ent[tbl[cur.i]].Id = 0 BY <2>2, <1>1 DEF Ctl
      <3>2. g.st[e] = "idle" => ent[e].Id # 0 BY <1>6, StageOf
      <3>3. QED BY <3>1, <3>2, <1>5
    <2>3. QED BY <2>1, <2>2
  <1>15. \A k \in QLive(h) : 
          /\ tbl'[h.q[k]] # Null /\ ent'[tbl'[h.q[k]]].No = h.q[k]
          /\ h.st[tbl'[h.q[k]]] \in {"asks", "queued"}
          /\ cur'.i # h.q[k] \/ cur'.ok
    <2> TAKE k \in QLive(h)
    <2>1. CASE k = L + 1
      <3>1. h.q[k] = i /\ e # Null BY <2>1, <1>10, <1>6 DEF XdiAssumption
      <3>2. QED BY <3>1, <1>4, <1>6, <1>12, <1>13, <1>14
    <2>2. CASE k \in QLive(g)
      <3>1. h.q[k] = g.q[k] /\ tbl'[g.q[k]] = tbl[g.q[k]] BY <2>2, <1>8, <1>9, <1>10, <1>12
      <3>2. tbl[g.q[k]] \in Entity /\ tbl[g.q[k]] # e /\ Null \notin Entity
        BY <2>2, <1>8, <1>9 DEF XdiAssumption
      <3>3. ent'[tbl[g.q[k]]] = ent[tbl[g.q[k]]] /\ h.st[tbl[g.q[k]]] = g.st[tbl[g.q[k]]]
        BY <3>2, <1>6, <1>13
      <3>4. QED BY <2>2, <3>1, <3>2, <3>3, <1>6, <1>8
    <2>3. QED BY <2>1, <2>2, <1>11
  <1>16. \A f \in Entity : h.st[f] \in {"asks", "queued"} =>
            \E k \in QLive(h) : h.q[k] = ent'[f].No
    <2> TAKE f \in Entity
    <2> HAVE h.st[f] \in {"asks", "queued"}
    <2>1. CASE f = e
      <3>1. L + 1 \in QLive(h) /\ h.q[L + 1] = i /\ ent'[f].No = i BY <2>1, <1>4, <1>10, <1>11
      <3>2. QED BY <3>1
    <2>2. CASE f # e
      <3>1. g.st[f] \in {"asks", "queued"} BY <2>2, <1>13
      <3>2. PICK k \in QLive(g) : g.q[k] = ent[f].No BY <3>1, <1>1 DEF Queue
      <3>3. k \in QLive(h) /\ h.q[k] = g.q[k] /\ ent'[f] = ent[f]
        <4>1. k \in QLive(h) BY <3>2, <1>11
        <4>2. k \in 1..L BY <3>2, <1>8
        <4>3. h.q[k] = g.q[k] BY <4>2, <1>10
        <4>4. QED BY <4>1, <4>3, <2>2, <1>6
      <3>4. QED BY <3>2, <3>3
    <2>3. QED BY <2>1, <2>2
  <1>17. Queue(h)'
    <2>1. /\ head' = (IF out = Len(h.q) THEN 0 ELSE h.q[out + 1])
          /\ \A k \in (out + 1)..Len(h.q) : next'[h.q[k]] = (IF k = Len(h.q) THEN 0 ELSE h.q[k + 1])
          /\ \A j, k \in (out + 1)..Len(h.q) : h.q[j] = h.q[k] => j = k
      BY <1>10 DEF Links
    <2>2. out # Len(h.q) BY <1>3, <1>10
    <2>3. tail' = h.q[Len(h.q)] BY <1>4, <1>10
    <2>4. QED BY <2>1, <2>2, <2>3, <1>7, <1>15, <1>16 DEF Queue, QLive
  <1>18. \A k \in SLive(g) : /\ g.S[k] \in Slot /\ tbl[g.S[k]] \in Entity
                             /\ g.st[tbl[g.S[k]]] = "asked" /\ cur.i # g.S[k]
    <2>1. \A k \in SLive(g) : g.S[k] \in Slot BY <1>1, GhostParts DEF SLive
    <2>2. \A k \in SLive(g) : /\ tbl[g.S[k]] # Null /\ g.st[tbl[g.S[k]]] = "asked"
                              /\ cur.i # g.S[k]
      BY <1>1 DEF Assigns
    <2>3. \A j \in Slot : tbl[j] # Null => tbl[j] \in Entity BY <1>1 DEF TypeOK
    <2>4. QED BY <2>1, <2>2, <2>3
  <1>19. \A k \in SLive(g) : g.S[k] # i BY <1>5, <1>18 DEF XdiAssumption
  <1>20. \A k \in SLive(g) : head = 0 \/ g.S[k] # tail
    <2>1. head # 0 => L \in QLive(g) /\ tail = g.q[L]
      BY <1>1, <1>2, <1>3 DEF Queue
    <2>2. head # 0 => g.st[tbl[tail]] \in {"asks", "queued"} BY <2>1, <1>8
    <2>3. QED BY <2>2, <1>18
  <1>21. Assigns(h)'
    <2>1. \A k \in SLive(g) : next'[g.S[k]] = next[g.S[k]] BY <1>10, <1>18, <1>19, <1>20
    <2>2. \A k \in SLive(g) : tbl'[g.S[k]] = tbl[g.S[k]] BY <1>12, <1>18, <1>19
    <2>3. \A f \in Entity : g.st[f] = "asked" => ent'[f].No = ent[f].No BY <1>5, <1>6
    <2>4. \A f \in Entity : h.st[f] = "asked" <=> g.st[f] = "asked" BY <1>5, <1>13
    <2>5. \A k \in SLive(g) : cur'.i # g.S[k] BY <1>6, <1>18
    <2>6. QED BY <2>1, <2>2, <2>3, <2>4, <2>5, <1>1, <1>6, <1>7, AssignsFrame
  <1>22. GhostType(h)
    <2>1. h.st \in [Entity -> Stage] BY <1>6, <1>13 DEF Stage
    <2>2. h \in Ghost
      <3>1. /\ h.q \in Seq(Slot) /\ g.out \in Nat /\ g.S \in Seq(Slot) /\ g.done \in Nat
            /\ g.ans \in Nat /\ g.R \in Seq(RC) /\ g.got \in Nat /\ g.Q \in Seq(REQ)
            /\ g.tk \in Nat
        BY <1>1, <1>10, GhostParts
      <3>2. h = Mk(h.q, g.out, g.S, g.done, g.ans, g.R, g.got, g.Q, g.tk, h.st)
        BY <1>6, <1>7 DEF PutStep
      <3>3. QED BY <2>1, <3>1, <3>2, MkParts
    <2>3. h.out <= Len(h.q) BY <1>3, <1>7, <1>10
    <2>4. QED BY <2>2, <2>3, <1>1, <1>7, GhostParts DEF GhostType
  <1>23. QED BY <1>17, <1>21, <1>22

\* A request that req() queues keeps the invariant.
LEMMA PutKeeps ==
    ASSUME XdiAssumption, NEW g, Whole(g), TypeOK', NEW h, NEW e, NEW i, NEW s,
           PutStep(g, h, e, i, s)
    PROVE  Whole(h)'
  <1>1. /\ TypeOK /\ Ctl /\ IdTableSound /\ GhostType(g) BY Parts
  <1>2. /\ Pipes(h)' /\ Forms(h) /\ NoTrap' /\ Refs(h)'
        /\ \A d \in Ids : IdAt(h, d)'
        /\ \A c \in Chan, d \in Ids : <<c, d>> \in held' => HoldAt(h, c, d)'
        /\ held' \subseteq Chan \X Ids
        /\ \A f \in Entity : Msgs(h, f)'
        /\ Pending(h)' /\ Flows(h)'
        /\ \A f \in Entity : f # e => h.st[f] = g.st[f]
        /\ h.st[e] = s
    <2>1. AskStep(g, h, e, s) BY DEF PutStep
    <2>2. QED BY <2>1, AskKeeps
  <1>3. Queue(h)' /\ Assigns(h)' /\ GhostType(h) BY PutQueue
  <1>4. \/ s = "asks" /\ g.st[e] = "none" /\ tbl[i] = Null /\ tbl' = [tbl EXCEPT ![i] = e]
        \/ s = "queued" /\ g.st[e] = "idle" /\ tbl[i] = e /\ ent[e].No = i /\ tbl' = tbl
    BY DEF PutStep
  <1>5. /\ i \in Slot /\ e \in Entity /\ ent'[e].No = i /\ ent'[e].Id = ent[e].Id
        /\ \A f \in Entity : f # e => ent'[f] = ent[f] /\ wait'[f] = wait[f]
        /\ UNCHANGED <<cur, irq, rcBuf, pc, phase, IdTable>> /\ EntityAt(e, s)'
    BY DEF PutStep, AskStep
  <1>6. tbl'[i] = e /\ \A j \in Slot : j # i => tbl'[j] = tbl[j]
    BY <1>1, <1>4, <1>5 DEF TypeOK
  <1>7. \A f \in Entity : ent'[f].Id = ent[f].Id BY <1>5
  <1>8. ent[e].Id = 0 <=> s = "asks" BY <1>4, <1>5, StageOf
  <1>9. \A f \in Entity : HasSlot(f) /\ f # e => ent[f].No # i
    BY <1>4, <1>5 DEF HasSlot, XdiAssumption
  <1>10. 0 \notin Ids /\ Null \notin Entity /\ 0 \notin Slot BY DEF XdiAssumption, Slot
  <1>11. \A j \in Slot : tbl[j] # Null => tbl[j] \in Entity BY <1>1 DEF TypeOK
  <1>12. Ctl'
    <2>1. pc = "post" => /\ cur.i \in Slot /\ tbl[cur.i] \in Entity
                         /\ tbl'[cur.i] = tbl[cur.i]
      BY <1>1, <1>4, <1>6, <1>11 DEF Ctl
    <2>2. pc = "post" /\ cur.ok => ent'[tbl[cur.i]].No = cur.i
      <3> HAVE pc = "post" /\ cur.ok
      <3>1. ent[tbl[cur.i]].No = cur.i /\ ent[tbl[cur.i]].Id = cur.Id /\ cur.Id \in Ids
        BY <1>1 DEF Ctl
      <3>2. CASE tbl[cur.i] = e
        <4>1. s = "queued" BY <3>1, <3>2, <1>4, <1>8, <1>10
        <4>2. QED BY <4>1, <3>1, <3>2, <1>4, <1>5
      <3>3. CASE tbl[cur.i] # e BY <3>1, <3>3, <2>1, <1>5
      <3>4. QED BY <3>2, <3>3
    <2>3. pc = "post" => ent'[tbl[cur.i]].Id = ent[tbl[cur.i]].Id BY <2>1, <1>7
    <2>4. QED BY <2>1, <2>2, <2>3, <1>1, <1>5, <1>10 DEF Ctl
  <1>13. IdTableSound'
    <2>1. \A x \in Ids : IdTable[x] # 0 => /\ tbl'[IdTable[x]] # Null
                /\ ent'[tbl'[IdTable[x]]].Id = x /\ ent'[tbl'[IdTable[x]]].No = IdTable[x]
      <3> TAKE x \in Ids
      <3> HAVE IdTable[x] # 0
      <3>1. /\ tbl[IdTable[x]] # Null /\ ent[tbl[IdTable[x]]].Id = x
            /\ ent[tbl[IdTable[x]]].No = IdTable[x]
        BY <1>1 DEF IdTableSound
      <3>2. EMax \in Nat /\ IdTable[x] \in 0..EMax BY <1>1 DEF TypeOK, XdiAssumption
      <3>3. IdTable[x] \in Slot BY <3>2 DEF Slot
      <3>4. tbl[IdTable[x]] \in Entity BY <3>1, <3>3, <1>11
      <3>5. tbl'[IdTable[x]] = tbl[IdTable[x]]
        <4>1. CASE s = "asks" BY <4>1, <3>1, <3>3, <1>4, <1>6
        <4>2. CASE s = "queued" BY <4>2, <1>4
        <4>3. QED BY <4>1, <4>2, <1>4
      <3>6. CASE tbl[IdTable[x]] = e
        <4>1. s = "queued" BY <3>1, <3>6, <1>4, <1>8, <1>10
        <4>2. QED BY <4>1, <3>1, <3>5, <3>6, <1>4, <1>5
      <3>7. CASE tbl[IdTable[x]] # e BY <3>1, <3>4, <3>5, <3>7, <1>5
      <3>8. QED BY <3>6, <3>7
    <2>2. \A f \in Entity :
            ent'[f].Id # 0 => \/ IdTable[ent'[f].Id] = ent'[f].No
                              \/ cur = [i |-> ent'[f].No, Id |-> ent'[f].Id, ok |-> TRUE]
      <3> TAKE f \in Entity
      <3> HAVE ent'[f].Id # 0
      <3>1. ent'[f].No = ent[f].No BY <1>4, <1>5, <1>8
      <3>2. QED BY <3>1, <1>1, <1>7 DEF IdTableSound
    <2>3. \A j \in Slot : tbl'[j] # Null => ent'[tbl'[j]].No = j \/ cur.i = j
      <3> TAKE j \in Slot
      <3> HAVE tbl'[j] # Null
      <3>1. CASE j = i BY <3>1, <1>5, <1>6
      <3>2. CASE j # i
        <4>1. tbl'[j] = tbl[j] /\ tbl[j] \in Entity /\ (ent[tbl[j]].No = j \/ cur.i = j)
          BY <3>2, <1>1, <1>6, <1>11 DEF IdTableSound
        <4>2. CASE tbl[j] = e
          <5>1. CASE s = "queued" BY <5>1, <4>1, <4>2, <3>2, <1>4
          <5>2. CASE s = "asks"
            <6>1. EntityAt(e, "none") BY <5>2, <1>4, <1>5, Parts
            <6>2. cur.i = j BY <6>1, <4>2 DEF EntityAt, NoSlot
            <6>3. QED BY <6>2
          <5>3. QED BY <5>1, <5>2, <1>4
        <4>3. CASE tbl[j] # e BY <4>1, <4>3, <1>5
        <4>4. QED BY <4>2, <4>3
      <3>3. QED BY <3>1, <3>2
    <2>4. QED BY <2>1, <2>2, <2>3, <1>5 DEF IdTableSound
  <1>14. \A f \in Entity : EntityAt(f, h.st[f])'
    <2> TAKE f \in Entity
    <2>1. CASE f = e BY <2>1, <1>2, <1>5
    <2>2. CASE f # e
      <3>1. EntityAt(f, g.st[f]) BY Parts
      <3>2. ent'[f] = ent[f] /\ wait'[f] = wait[f] BY <2>2, <1>5
      <3>3. HasSlot(f) => HasSlot(f)' BY <2>2, <3>2, <1>6, <1>9 DEF HasSlot
      <3>4. NoSlot(f) => NoSlot(f)' BY <2>2, <1>5, <1>6 DEF NoSlot
      <3>5. EntityAt(f, g.st[f])' BY <3>1, <3>2, <3>3, <3>4, EntityFrame
      <3>6. QED BY <3>5, <2>2, <1>2
    <2>3. QED BY <2>1, <2>2
  <1>15. Inv(h)' BY <1>2, <1>3, <1>14 DEF Inv
  <1>16. QED BY <1>2, <1>12, <1>13, <1>15 DEF Whole

\* What request() leaves in the fields of the entity that it refuses
LEMMA AskedFields ==
    ASSUME NEW x \in ENTITY, NEW r, NEW c, NEW n, NEW y, y = Asked(x, r, c, n)
    PROVE  y.Req = r /\ y.ReqCh = c /\ y.Id = x.Id /\ y.No = x.No
  BY DEF ENTITY, Asked

\* What every call of request() does
LEMMA RequestIs ==
    ASSUME XdiAssumption, NoUremove, NEW g, Whole(g), NEW e \in Entity,
           NEW r \in Reqs \cup {"ASSIGN"}, NEW c \in ChanNo, NEW n \in 1..MaxFrag,
           Request(e, r, c, n)
    PROVE  /\ wait'[e] /\ \A f \in Entity : f # e => wait'[f] = wait[f]
           /\ (ent[e].Id = 0 => g.st[e] = "none" /\ r = "ASSIGN" /\ c = 0)
           /\ (ent[e].Id # 0 => /\ g.st[e] = "idle" /\ r \in {"DATA", "CTRL", "REMOVE"}
                                /\ (r = "REMOVE" => c = 0) /\ c \in ChansOf(e) \cup {0}
                                /\ (r # "DATA" => n = 1)
                                /\ ~ent[e].XBUSY /\ ent[e].XMOREC = 0 /\ ~ent[e].XMOREP
                                /\ HasSlot(e))
           /\ clSkip \subseteq clSkip' /\ (c \in clFc => c \in clSkip')
           /\ (r = "DATA" => c \notin fcPend)
           /\ UNCHANGED <<fcPend, clFc, IdTable, fcId, rmPending, noCancel,
                   pc, phase, irq, rcBuf, outq, inbox, batch, cur, cardIds, held>>
  <1>1. ClientMay(e, r, c, n) /\ wait' = [wait EXCEPT ![e] = TRUE] /\ DIRequest(c)
    BY DEF Request
  <1>2. wait \in [Entity -> BOOLEAN] BY Parts DEF TypeOK
  <1>3. ~wait[e] BY <1>1 DEF ClientMay
  <1>4. EntityAt(e, g.st[e]) BY Parts
  <1>5. ent[e].Id = 0 => r = "ASSIGN" /\ c = 0 BY <1>1 DEF ClientMay
  <1>6. ent[e].Id # 0 => /\ r \in {"DATA", "CTRL", "REMOVE"}
                         /\ (r = "REMOVE" => c = 0) /\ c \in ChansOf(e) \cup {0}
                         /\ (r # "DATA" => n = 1)
    <2> HAVE ent[e].Id # 0
    <2>1. r \in Reqs /\ r # "ASSIGN" BY <1>1 DEF ClientMay, XdiAssumption
    <2>2. r \in {"DATA", "CTRL", "REMOVE"} BY <2>1 DEF XdiAssumption, NoUremove
    <2>3. r # "DATA" => ~(n > 1) BY <1>1 DEF ClientMay
    <2>4. r # "DATA" => n = 1 BY <2>3, XdiAssumption DEF XdiAssumption
    <2>5. (r = "REMOVE" => c = 0) /\ c \in ChansOf(e) \cup {0}
      BY <1>1, <2>1, <2>2 DEF ClientMay
    <2>6. QED BY <2>2, <2>4, <2>5
  <1>7. r = "DATA" => c \notin fcPend BY <1>1, <1>5 DEF ClientMay
  <1>8. clSkip \subseteq clSkip' /\ (c \in clFc => c \in clSkip') BY <1>1 DEF DIRequest
  <1>9. UNCHANGED <<fcPend, clFc, IdTable, fcId, rmPending, noCancel,
                   pc, phase, irq, rcBuf, outq, inbox, batch, cur, cardIds, held>>
    BY DEF Request, idVars, outVars, ramVars, cardVars
  <1>10. ent[e].Id = 0 => g.st[e] = "none" BY <1>3, StageOf
  <1>11. ent[e].Id # 0 => g.st[e] = "idle" /\ HasSlot(e) BY <1>3, StageOf
  <1>12. ent[e].Id # 0 => ~ent[e].XBUSY /\ ent[e].XMOREC = 0 /\ ~ent[e].XMOREP
    BY <1>4, <1>11 DEF EntityAt
  <1>13. wait'[e] /\ \A f \in Entity : f # e => wait'[f] = wait[f] BY <1>1, <1>2
  <1>14. QED BY <1>5, <1>6, <1>7, <1>8, <1>9, <1>10, <1>11, <1>12, <1>13

\* request() that refuses
LEMMA RefusedKeeps ==
    ASSUME XdiAssumption, NoUremove, NEW g, Whole(g), TypeOK', NEW e \in Entity,
           NEW r \in Reqs \cup {"ASSIGN"}, NEW c \in ChanNo, NEW n \in 1..MaxFrag,
           Request(e, r, c, n), Refuse(e, r, c, n, FALSE), ent[e].Id = 0
    PROVE  \E h : Whole(h)'
  <1>1. TypeOK BY Parts
  <1>2. /\ wait'[e] /\ \A f \in Entity : f # e => wait'[f] = wait[f]
        /\ g.st[e] = "none" /\ r = "ASSIGN" /\ c = 0
        /\ clSkip \subseteq clSkip' /\ (c \in clFc => c \in clSkip')
        /\ UNCHANGED <<fcPend, clFc, IdTable, fcId, rmPending, noCancel,
                   pc, phase, irq, rcBuf, outq, inbox, batch, cur, cardIds, held>>
    BY RequestIs
  <1>3. /\ ent' = [ent EXCEPT ![e] = Asked(ent[e], r, c, n)]
        /\ trapped' = trapped
        /\ UNCHANGED <<tbl, next, ref, head, tail, assign>>
    <2>1. trapped' = (trapped \/ FALSE) /\ ent' = [ent EXCEPT ![e] = Asked(@, r, c, n)]
          /\ UNCHANGED <<tblVars, queueVars>>
      BY DEF Refuse
    <2>2. trapped \in BOOLEAN BY <1>1 DEF TypeOK
    <2>3. QED BY <2>1, <2>2 DEF tblVars, queueVars
  <1>4. ent \in [Entity -> ENTITY] BY <1>1 DEF TypeOK
  <1>5. /\ ent'[e] = Asked(ent[e], r, c, n)
        /\ \A f \in Entity : f # e => ent'[f] = ent[f]
    BY <1>3, <1>4
  <1>7. /\ ent'[e].Id = 0 /\ ent'[e].No = ent[e].No /\ ent'[e].Req = "ASSIGN"
        /\ ent'[e].ReqCh = c
    <2>1. PICK x : x = ent[e] OBVIOUS
    <2>o. PICK y : y = Asked(x, r, c, n) OBVIOUS
    <2>2. y.Req = r /\ y.ReqCh = c /\ y.Id = x.Id /\ y.No = x.No
      <3>1. x \in ENTITY BY <2>1, <1>1, EntityTypes
      <3>2. QED BY <2>o, <3>1, AskedFields
    <2>3. ent[e].Id = 0 OBVIOUS
    <2>4. QED BY <2>1, <2>o, <2>2, <2>3, <1>2, <1>5
  <1>8. PICK h : h = Mk(g.q, g.out, g.S, g.done, g.ans, g.R, g.got, g.Q, g.tk,
              [g.st EXCEPT ![e] = "refused"])
    OBVIOUS
  <1>9. AskStep(g, h, e, "refused")
    <2>1. g.st \in [Entity -> Stage] /\ "refused" \in Stage BY Parts, GhostParts DEF Stage
    <2>2. /\ h.S = g.S /\ h.done = g.done /\ h.ans = g.ans /\ h.R = g.R /\ h.got = g.got
          /\ h.Q = g.Q /\ h.tk = g.tk /\ h.st = [g.st EXCEPT ![e] = "refused"]
      <3>1. PICK st : st = [g.st EXCEPT ![e] = "refused"] OBVIOUS
      <3>2. h = Mk(g.q, g.out, g.S, g.done, g.ans, g.R, g.got, g.Q, g.tk, st) BY <1>8, <3>1
      <3>3. /\ h.S = g.S /\ h.done = g.done /\ h.ans = g.ans /\ h.R = g.R /\ h.got = g.got
            /\ h.Q = g.Q /\ h.tk = g.tk /\ h.st = st
        BY <3>2, MkParts
      <3>4. QED BY <3>1, <3>3
    <2>3. QED BY <2>1, <2>2, <1>2, <1>3, <1>5, <1>7 DEF AskStep
  <1>10. EntityAt(e, "refused")'
    <2>1. EntityAt(e, "none") BY <1>2, Parts
    <2>2. NoSlot(e)' BY <2>1, <1>2, <1>3 DEF EntityAt, NoSlot
    <2>3. QED BY <2>2, <1>2, <1>7 DEF EntityAt
  <1>11. RefuseStep(g, h, e) BY <1>3, <1>7, <1>8, <1>9, <1>10 DEF RefuseStep
  <1>12. QED BY <1>11, RefuseKeeps

\* request() that links the entity into the queue
LEMMA EnqueueKeeps ==
    ASSUME XdiAssumption, NoUremove, NEW g, Whole(g), TypeOK', NEW e \in Entity,
           NEW r \in Reqs \cup {"ASSIGN"}, NEW c \in ChanNo, NEW n \in 1..MaxFrag,
           Request(e, r, c, n), NEW i \in Slot, Enqueue(e, r, c, n, i),
           IF ent[e].Id = 0 THEN tbl[i] = Null ELSE ent[e].No = i
    PROVE  \E h : Whole(h)'
  <1>1. TypeOK BY Parts
  <1>2. /\ wait'[e] /\ \A f \in Entity : f # e => wait'[f] = wait[f]
        /\ (ent[e].Id = 0 => g.st[e] = "none" /\ r = "ASSIGN" /\ c = 0)
        /\ (ent[e].Id # 0 => /\ g.st[e] = "idle" /\ r \in {"DATA", "CTRL", "REMOVE"}
                             /\ (r = "REMOVE" => c = 0) /\ c \in ChansOf(e) \cup {0}
                             /\ (r # "DATA" => n = 1)
                             /\ ~ent[e].XBUSY /\ ent[e].XMOREC = 0 /\ ~ent[e].XMOREP
                             /\ HasSlot(e))
        /\ clSkip \subseteq clSkip' /\ (c \in clFc => c \in clSkip')
        /\ (r = "DATA" => c \notin fcPend)
        /\ UNCHANGED <<fcPend, clFc, IdTable, fcId, rmPending, noCancel,
                   pc, phase, irq, rcBuf, outq, inbox, batch, cur, cardIds, held>>
    BY RequestIs
  <1>3. /\ ent' = [ent EXCEPT ![e] = Queued(ent[e], r, c, n, i)]
        /\ UNCHANGED <<assign, ref, trapped>>
        /\ next' = Append_next(next, head, tail, i)
        /\ head' = (IF head = 0 THEN i ELSE head) /\ tail' = i
        /\ (ent[e].Id = 0 => tbl' = [tbl EXCEPT ![i] = e])
        /\ (ent[e].Id # 0 => tbl' = tbl)
    BY DEF Enqueue
  <1>4. ent \in [Entity -> ENTITY] BY <1>1 DEF TypeOK
  <1>5. /\ ent'[e] = Queued(ent[e], r, c, n, i)
        /\ \A f \in Entity : f # e => ent'[f] = ent[f]
    BY <1>3, <1>4
  <1>6. PICK s : s = IF ent[e].Id = 0 THEN "asks" ELSE "queued" OBVIOUS
  <1>7. /\ ent'[e].No = i /\ ent'[e].Req = r /\ ent'[e].ReqCh = c /\ ent'[e].XNum = n
        /\ ent'[e].Id = ent[e].Id /\ ent'[e].XBUSY /\ ~ent'[e].XMOREF
        /\ ent'[e].XMOREC = 0 /\ ~ent'[e].XMOREP
        /\ (ent[e].Id # 0 => ent'[e].XMOREC = ent[e].XMOREC)
    <2>1. PICK x : x = ent[e] OBVIOUS
    <2>2. PICK y : y = Queued(x, r, c, n, i) OBVIOUS
    <2>3. /\ y.No = i /\ y.Req = r /\ y.ReqCh = c /\ y.XNum = n /\ y.Id = x.Id
          /\ y.XBUSY = TRUE /\ y.XMOREF = FALSE
          /\ (x.Id = 0 => y.XMOREC = 0 /\ y.XMOREP = FALSE)
          /\ (x.Id # 0 => y.XMOREC = x.XMOREC /\ y.XMOREP = x.XMOREP)
      <3>1. x \in ENTITY BY <2>1, <1>1, EntityTypes
      <3>2. QED BY <2>2, <3>1 DEF ENTITY, Queued
    <2>4. ent'[e] = y BY <2>1, <2>2, <1>5
    <2>5. x.XMOREP \in BOOLEAN BY <2>1, <1>1, EntityTypes
    <2>6. y.XMOREC = 0 /\ y.XMOREP = FALSE BY <2>1, <2>3, <2>5, <1>2
    <2>7. QED BY <2>1, <2>3, <2>4, <2>6
  <1>8. ent[e].Id # 0 => tbl[i] = e BY <1>2 DEF HasSlot
  <1>9. PICK h : h = Mk(Append(g.q, i), g.out, g.S, g.done, g.ans, g.R, g.got, g.Q, g.tk,
              [g.st EXCEPT ![e] = s])
    OBVIOUS
  <1>10. tbl'[i] = e /\ \A j \in Slot : tbl'[j] = tbl[j] \/ (tbl[j] = Null /\ tbl'[j] = e)
    BY <1>1, <1>3, <1>8 DEF TypeOK
  <1>11. AskStep(g, h, e, s)
    <2>1. g.st \in [Entity -> Stage] /\ s \in Stage BY <1>6, Parts, GhostParts DEF Stage
    <2>2. /\ h.S = g.S /\ h.done = g.done /\ h.ans = g.ans /\ h.R = g.R /\ h.got = g.got
          /\ h.Q = g.Q /\ h.tk = g.tk /\ h.st = [g.st EXCEPT ![e] = s]
      <3>1. PICK st : st = [g.st EXCEPT ![e] = s] OBVIOUS
      <3>2. PICK u : u = Append(g.q, i) OBVIOUS
      <3>3. h = Mk(u, g.out, g.S, g.done, g.ans, g.R, g.got, g.Q, g.tk, st)
        BY <1>9, <3>1, <3>2
      <3>4. /\ h.S = g.S /\ h.done = g.done /\ h.ans = g.ans /\ h.R = g.R /\ h.got = g.got
            /\ h.Q = g.Q /\ h.tk = g.tk /\ h.st = st
        BY <3>3, MkParts
      <3>5. QED BY <3>1, <3>4
    <2>3. \/ ent[e].Id = 0 /\ g.st[e] = "none" /\ s \in {"refused", "asks"}
          \/ /\ ent[e].Id # 0 /\ g.st[e] = "idle" /\ s = "queued"
             /\ ent'[e].No = ent[e].No /\ ent'[e].XMOREC = ent[e].XMOREC
      BY <1>2, <1>6, <1>7
    <2>4. QED BY <2>1, <2>2, <2>3, <1>2, <1>3, <1>5, <1>7, <1>10 DEF AskStep
  <1>12. EntityAt(e, s)'
    <2>1. HasSlot(e)' BY <1>7, <1>10 DEF HasSlot
    <2>2. CASE ent[e].Id = 0 BY <2>1, <2>2, <1>2, <1>6, <1>7 DEF EntityAt
    <2>3. CASE ent[e].Id # 0
      <3>1. MaxFrag \in Nat /\ n \in 1..MaxFrag BY DEF XdiAssumption
      <3>2. n >= 1 /\ 0 + n <= MaxFrag BY <3>1
      <3>3. QED BY <2>1, <2>3, <3>2, <1>2, <1>6, <1>7 DEF EntityAt
    <2>4. QED BY <2>2, <2>3
  <1>13. \/ s = "asks" /\ g.st[e] = "none" /\ tbl[i] = Null /\ tbl' = [tbl EXCEPT ![i] = e]
         \/ s = "queued" /\ g.st[e] = "idle" /\ tbl[i] = e /\ ent[e].No = i /\ tbl' = tbl
    BY <1>2, <1>3, <1>6, <1>8
  <1>14. PutStep(g, h, e, i, s) BY <1>3, <1>7, <1>9, <1>11, <1>12, <1>13 DEF PutStep
  <1>15. QED BY <1>14, PutKeeps

\* request(), by a client that may call it
LEMMA RequestKeeps ==
    ASSUME XdiAssumption, NoUremove, NEW g, Whole(g), TypeOK', ClientNext
    PROVE  \E h : Whole(h)'
  <1>1. PICK e \in Entity, r \in Reqs \cup {"ASSIGN"}, c \in ChanNo, n \in 1..MaxFrag :
          Request(e, r, c, n)
    BY DEF ClientNext
  <1>2. ent[e].Id # 0 => HasSlot(e) /\ ~ent[e].XBUSY BY <1>1, RequestIs
  <1>3. CASE ent[e].Id = 0 /\ Refuse(e, r, c, n, FALSE) BY <1>1, <1>3, RefusedKeeps
  <1>4. CASE ent[e].Id = 0 /\ \E i \in Slot : FirstFree(i) /\ Enqueue(e, r, c, n, i)
    <2>1. PICK i \in Slot : FirstFree(i) /\ Enqueue(e, r, c, n, i) BY <1>4
    <2>2. tbl[i] = Null BY <2>1 DEF FirstFree
    <2>3. QED BY <2>1, <2>2, <1>1, <1>4, EnqueueKeeps
  <1>5. CASE ent[e].Id # 0 /\ Enqueue(e, r, c, n, ent[e].No)
    <2>1. PICK i : i = ent[e].No OBVIOUS
    <2>2. i \in Slot /\ Enqueue(e, r, c, n, i) BY <2>1, <1>2, <1>5 DEF HasSlot
    <2>3. QED BY <2>1, <2>2, <1>1, <1>5, EnqueueKeeps
  <1>6. QED BY <1>1, <1>2, <1>3, <1>4, <1>5 DEF Request

-----------------------------------------------------------------------------
(* pr_out *)

\* A buffer is filled with request m of entity e, which is at the head of the
\* queue and has an Id; s is "sent" when m is the last one.
SendStep(g, h, e, s, m) ==
    /\ e \in Entity /\ m \in REQ /\ s \in {"queued", "sent"}
    /\ g.st[e] = "queued" /\ ent[e].Id # 0
    /\ m.ReqId = ent[e].Id /\ m.ReqCh = ent[e].ReqCh /\ m.Reference = 0
    /\ (m.NLType <=> e \in NL)
    /\ (s = "sent" => m.Req = ent[e].Req)
    /\ (s = "queued" => m.Req = "MDATA" /\ ent[e].Req = "DATA")
    /\ g.st \in [Entity -> Stage]
    /\ h.S = g.S /\ h.done = g.done /\ h.ans = g.ans /\ h.R = g.R /\ h.got = g.got
    /\ h.Q = Append(g.Q, m) /\ h.tk = g.tk /\ h.st = [g.st EXCEPT ![e] = s]
    /\ \A f \in Entity : f # e => ent'[f] = ent[f]
    /\ ent'[e].Id = ent[e].Id /\ ent'[e].No = ent[e].No /\ ent'[e].Req = ent[e].Req
    /\ ent'[e].ReqCh = ent[e].ReqCh /\ ent'[e].XMOREC = ent[e].XMOREC + 1
    /\ UNCHANGED <<wait, fcPend, clFc, clSkip, tbl, IdTable, fcId, noCancel,
                   trapped, pc, phase, irq, rcBuf, outq, inbox, cur, cardIds, held>>
    /\ UNCHANGED <<ref, assign>>
    /\ batch' = Append(batch, m)
    /\ rmPending' = (IF s = "sent" /\ ent[e].Req = "REMOVE"
                     THEN rmPending \cup {ent[e].No} ELSE rmPending)
    /\ EntityAt(e, s)'

\* Position n of the requests is new, and it is message m for Id d.
Adds(g, h, d, m, n) ==
    /\ RqLive(h) = RqLive(g) \cup {n} /\ n \notin RqLive(g) /\ h.Q[n] = m
    /\ \A k \in RqLive(g) : k < n
    /\ \A x : x # d => SameMsgs(g, h, x)
    /\ Plain(h, d) = Plain(g, d) /\ Labels(h, d) = Labels(g, d) /\ News(h, d) = News(g, d)
    /\ Sent(h, d) = Sent(g, d) \cup {n}

\* What the message adds
LEMMA SendViews ==
    ASSUME XdiAssumption, NEW g, Whole(g), NEW h, NEW e, NEW s, NEW m,
           SendStep(g, h, e, s, m)
    PROVE  /\ Pipes(h)' /\ SameItems(g, h) /\ Forms(h)
           /\ h.Q \in Seq(REQ) /\ h.tk <= Len(h.Q)
           /\ RLive(h) = RLive(g) /\ SLive(h) = SLive(g)
           /\ \E n : Adds(g, h, ent[e].Id, m, n)
  <1>1. TypeOK /\ GhostType(g) /\ Pipes(g) /\ Forms(g) BY Parts
  <1>2. /\ m \in REQ /\ h.R = g.R /\ h.got = g.got /\ h.Q = Append(g.Q, m) /\ h.tk = g.tk
        /\ h.S = g.S /\ h.done = g.done
        /\ batch' = Append(batch, m) /\ UNCHANGED <<rcBuf, inbox, outq>>
        /\ m.ReqId = ent[e].Id
    BY DEF SendStep
  <1>3. PICK n : n = Len(g.Q) + 1 OBVIOUS
  <1>4. /\ Pipes(h)' /\ SameItems(g, h)
        /\ RqLive(h) = RqLive(g) \cup {n} /\ RLive(h) = RLive(g)
        /\ h.Q[n] = m /\ \A k \in RqLive(g) : k < n
        /\ n \notin RqLive(g) /\ h.Q \in Seq(REQ) /\ h.tk <= Len(h.Q)
    <2>1. /\ Pipes(h)' /\ SameItems(g, h)
          /\ RqLive(h) = RqLive(g) \cup {Len(g.Q) + 1} /\ RLive(h) = RLive(g)
          /\ h.Q[Len(g.Q) + 1] = m
          /\ \A k \in RqLive(g) : k < Len(g.Q) + 1
          /\ Len(g.Q) + 1 \notin RqLive(g)
          /\ h.Q \in Seq(REQ) /\ h.tk <= Len(h.Q)
      BY <1>1, <1>2, PutRq
    <2>2. QED BY <2>1, <1>3
  <1>5. SLive(h) = SLive(g) BY <1>2 DEF SLive
  <1>6. \A d : /\ Plain(h, d) = Plain(g, d) /\ Labels(h, d) = Labels(g, d)
               /\ News(h, d) = News(g, d)
               /\ Sent(h, d) = (IF h.Q[n].ReqId = d THEN Sent(g, d) \cup {n} ELSE Sent(g, d))
               /\ (h.Q[n].ReqId # d => SameMsgs(g, h, d))
    <2> TAKE d
    <2>1. QED BY <1>4, FillView
  <1>7. RqForm(m)
    <2>1. /\ m.Reference = 0 /\ m.ReqId # 0 /\ ent[e].Id = m.ReqId
          /\ m.Req \in {"MDATA", ent[e].Req} /\ m.ReqCh = ent[e].ReqCh
          /\ (m.Req = "MDATA" \/ m.Req = ent[e].Req)
      BY DEF SendStep
    <2>2. /\ ent[e].Req \in {"DATA", "CTRL", "REMOVE"}
          /\ (ent[e].Req = "REMOVE" => ent[e].ReqCh = 0)
      BY Parts DEF SendStep, EntityAt
    <2>3. QED BY <2>1, <2>2 DEF RqForm
  <1>8. Forms(h) BY <1>1, <1>4, <1>7 DEF Forms, SameItems
  <1>9. Adds(g, h, ent[e].Id, m, n) BY <1>2, <1>4, <1>6 DEF Adds
  <1>10. QED BY <1>4, <1>5, <1>8, <1>9

\* The messages of the entities
LEMMA SendMsgs ==
    ASSUME XdiAssumption, NEW g, Whole(g), NEW h, NEW e, NEW s, NEW m,
           SendStep(g, h, e, s, m)
    PROVE  \A f \in Entity : Msgs(h, f)'
  <1>p. PICK n : Adds(g, h, ent[e].Id, m, n) BY SendViews
  <1>1. /\ RqLive(h) = RqLive(g) \cup {n} /\ n \notin RqLive(g) /\ h.Q[n] = m
        /\ \A k \in RqLive(g) : k < n
        /\ \A d : d # ent[e].Id => SameMsgs(g, h, d)
        /\ Plain(h, ent[e].Id) = Plain(g, ent[e].Id)
        /\ Labels(h, ent[e].Id) = Labels(g, ent[e].Id)
        /\ News(h, ent[e].Id) = News(g, ent[e].Id)
        /\ Sent(h, ent[e].Id) = Sent(g, ent[e].Id) \cup {n}
    BY <1>p DEF Adds
  <1>2. SameItems(g, h) /\ GhostType(g) BY SendViews, Parts
  <1>3. PICK d : d = ent[e].Id OBVIOUS
  <1>4. /\ e \in Entity /\ s \in {"queued", "sent"} /\ g.st[e] = "queued" /\ d # 0
        /\ m.ReqCh = ent[e].ReqCh
        /\ (m.NLType <=> e \in NL)
        /\ (s = "sent" => m.Req = ent[e].Req)
        /\ (s = "queued" => m.Req = "MDATA" /\ ent[e].Req = "DATA")
        /\ \A f \in Entity : f # e => ent'[f] = ent[f] /\ wait'[f] = wait[f]
        /\ ent'[e].Id = d /\ ent'[e].Req = ent[e].Req
        /\ ent'[e].ReqCh = ent[e].ReqCh /\ ent'[e].XMOREC = ent[e].XMOREC + 1
    BY <1>3 DEF SendStep
  <1>5. h.st[e] = s /\ \A f \in Entity : f # e => h.st[f] = g.st[f] BY DEF SendStep
  <1>6. /\ ent[e].Req \in {"DATA", "CTRL", "REMOVE"}
        /\ (ent[e].Req # "DATA" => ent[e].XMOREC = 0)
    BY <1>4, Parts DEF EntityAt
  <1>7. /\ \A k \in Sent(g, d) : SentAt(g, e, k) /\ g.Q[k] = h.Q[k] /\ k < n
        /\ \A k \in Plain(g, d) : PlainAt(g, e, k) /\ g.R[k] = h.R[k]
        /\ \A k \in Labels(g, d) : Owner[g.R[k].RcCh] = e /\ g.R[k] = h.R[k]
        /\ ent[e].XMOREC = Cardinality(Plain(g, d)) + Cardinality(Sent(g, d))
    <2>1. Msgs(g, e) BY <1>4, Parts
    <2>2. /\ \A k \in Sent(g, d) : SentAt(g, e, k)
          /\ \A k \in Plain(g, d) : PlainAt(g, e, k)
          /\ \A k \in Labels(g, d) : Owner[g.R[k].RcCh] = e
          /\ ent[e].XMOREC = Cardinality(Plain(g, d)) + Cardinality(Sent(g, d))
      BY <2>1, <1>3, <1>4 DEF Msgs
    <2>3. /\ \A k \in Sent(g, d) : g.Q[k] = h.Q[k] /\ k < n
          /\ \A k \in Plain(g, d) : g.R[k] = h.R[k]
          /\ \A k \in Labels(g, d) : g.R[k] = h.R[k]
      BY <1>1, <1>2 DEF SameItems, Sent, Plain, Labels
    <2>4. QED BY <2>2, <2>3
  <1>8. /\ Plain(h, d) = Plain(g, d) /\ Labels(h, d) = Labels(g, d)
        /\ Sent(h, d) = Sent(g, d) \cup {n} /\ n \notin Sent(g, d)
    BY <1>1, <1>3 DEF Sent
  <1>9. \A k \in Sent(h, d) : SentAt(h, e, k)'
    <2> TAKE k \in Sent(h, d)
    <2>1. \A j \in Sent(h, d) : j = n \/ j < n BY <1>7, <1>8
    <2>2. n \in RqLive(h) /\ n \in Int BY <1>1, GhostParts, SendViews DEF RqLive
    <2>3. CASE k = n
      <3>1. m.Req # "MDATA" => m.Req = ent'[e].Req /\ h.st[e] = "sent" BY <1>4, <1>5
      <3>2. m.Req = "MDATA" => ent'[e].Req = "DATA" BY <1>4, <1>6
      <3>3. \A j \in Sent(h, d) : j <= n
        <4>1. \A j \in Sent(h, d) : j \in Int BY <2>2, <1>8, <1>2, GhostParts DEF Sent, RqLive
        <4>2. QED BY <4>1, <2>1, <2>2
      <3>4. QED BY <2>3, <3>1, <3>2, <3>3, <1>1, <1>4, <1>5 DEF SentAt
    <2>4. CASE k \in Sent(g, d)
      <3>1. SentAt(g, e, k) /\ h.Q[k] = g.Q[k] BY <2>4, <1>7
      <3>2. QED BY <3>1, <1>4, <1>5 DEF SentAt
    <2>5. QED BY <2>3, <2>4, <1>8
  <1>10. \A k \in Plain(h, d) : PlainAt(h, e, k)'
    <2> TAKE k \in Plain(h, d)
    <2>1. k \in Plain(g, d) /\ PlainAt(g, e, k) /\ h.R[k] = g.R[k] BY <1>7, <1>8
    <2>2. ent[e].Req = "DATA"
      <3>1. ent[e].XMOREC # 0 BY <2>1, <1>3, <1>4, HasRequest
      <3>2. QED BY <3>1, <1>6
    <2>3. h.R[k].Rc = "OK" /\ h.R[k].RcCh = ent'[e].ReqCh /\ h.R[k].Ext # "REMOVE_COMPLETE"
      BY <2>1, <1>4 DEF PlainAt, Removing
    <2>4. ~Removing(h, e)' BY <2>2, <1>4 DEF Removing
    <2>5. QED BY <2>3, <2>4, <1>4, <1>5 DEF PlainAt
  <1>11. ent'[e].XMOREC = Cardinality(Plain(h, d)) + Cardinality(Sent(h, d))
    <2>1. /\ IsFiniteSet(Sent(g, d)) /\ Cardinality(Plain(g, d)) \in Nat
          /\ Cardinality(Sent(g, d)) \in Nat
      BY <1>2, FiniteMsgs
    <2>2. Cardinality(Sent(h, d)) = Cardinality(Sent(g, d)) + 1 BY <2>1, <1>8, CardAdd
    <2>3. QED BY <2>1, <2>2, <1>4, <1>7, <1>8
  <1>12. \A f \in Entity : Msgs(h, f)'
    <2> TAKE f \in Entity
    <2>1. CASE f = e
      <3>1. \A k \in Labels(h, d) : Owner[h.R[k].RcCh] = e BY <1>7, <1>8
      <3>2. QED BY <2>1, <3>1, <1>4, <1>9, <1>10, <1>11 DEF Msgs
    <2>2. CASE f # e
      <3>1. CASE ent[f].Id = 0 BY <2>2, <3>1, <1>4 DEF Msgs
      <3>2. CASE ent[f].Id # 0
        <4>1. ent[f].Id # ent[e].Id BY <2>2, <3>2, <1>4, UniqueId
        <4>2. SameMsgs(g, h, ent[f].Id) BY <4>1, <1>1
        <4>3. SameEnt(g, h, f) BY <2>2, <1>4, <1>5 DEF SameEnt
        <4>4. Msgs(g, f) BY Parts
        <4>5. QED BY <4>2, <4>3, <4>4, <1>2, MsgsFrame
      <3>3. QED BY <3>1, <3>2
    <2>3. QED BY <2>1, <2>2
  <1>13. QED BY <1>12

\* The Ids and the held channels
LEMMA SendIds ==
    ASSUME XdiAssumption, NEW g, Whole(g), NEW h, NEW e, NEW s, NEW m,
           SendStep(g, h, e, s, m)
    PROVE  /\ Refs(h)' /\ \A d \in Ids : IdAt(h, d)'
           /\ \A c \in Chan, d \in Ids : <<c, d>> \in held' => HoldAt(h, c, d)'
  <1>p. PICK n : Adds(g, h, ent[e].Id, m, n) BY SendViews
  <1>1. /\ RqLive(h) = RqLive(g) \cup {n} /\ n \notin RqLive(g) /\ h.Q[n] = m
        /\ \A k \in RqLive(g) : k < n
        /\ \A d : d # ent[e].Id => SameMsgs(g, h, d)
        /\ Plain(h, ent[e].Id) = Plain(g, ent[e].Id)
        /\ Labels(h, ent[e].Id) = Labels(g, ent[e].Id)
        /\ News(h, ent[e].Id) = News(g, ent[e].Id)
        /\ Sent(h, ent[e].Id) = Sent(g, ent[e].Id) \cup {n}
    BY <1>p DEF Adds
  <1>2. SameItems(g, h) /\ RLive(h) = RLive(g) /\ SLive(h) = SLive(g)
    <2>1. SendStep(g, h, e, s, m) OBVIOUS
    <2>2. SameItems(g, h) BY SendViews
    <2>3. RLive(h) = RLive(g) /\ SLive(h) = SLive(g) BY <2>1 DEF SendStep, RLive, SLive
    <2>4. QED BY <2>2, <2>3
  <1>3. /\ TypeOK /\ GhostType(g) /\ Assigns(g) /\ Refs(g) BY Parts
  <1>4. /\ e \in Entity /\ s \in {"queued", "sent"} /\ g.st[e] = "queued" /\ ent[e].Id # 0
        /\ m.Reference = 0
        /\ (s = "sent" => m.Req = ent[e].Req)
        /\ (s = "queued" => m.Req = "MDATA" /\ ent[e].Req = "DATA")
        /\ \A f \in Entity : f # e => ent'[f] = ent[f]
        /\ ent'[e].Id = ent[e].Id /\ ent'[e].Req = ent[e].Req
        /\ h.S = g.S /\ h.done = g.done /\ h.ans = g.ans
        /\ UNCHANGED <<tbl, ref, cardIds, held>>
    BY DEF SendStep
  <1>5. h.st[e] = s /\ \A f \in Entity : f # e => h.st[f] = g.st[f] BY DEF SendStep
  <1>6. \A f \in Entity : ent'[f].Id = ent[f].Id BY <1>4
  <1>7. \A d : Unowned(d)' <=> Unowned(d) BY <1>6 DEF Unowned
  <1>8. /\ \A f \in Entity : Removing(g, f) => Removing(h, f)'
        /\ \A f \in Entity : f # e /\ Removing(h, f)' => Removing(g, f)
        /\ ~Removing(g, e)
    BY <1>4, <1>5 DEF Removing
  <1>9. Refs(h)'
    <2>1. \A k \in RqLive(h) : k \in RqLive(g) \/ h.Q[k].Reference = 0 BY <1>1, <1>4
    <2>2. QED BY <2>1, <1>1, <1>2, <1>3, <1>4, RefsFrame
  <1>10. ent[e].Id \in cardIds /\ News(g, ent[e].Id) = {}
    <2>1. IdAt(g, ent[e].Id) BY <1>3, <1>4, EntityTypes, Parts
    <2>2. QED BY <2>1, <1>4, <1>8 DEF IdAt
  <1>11. \A d \in Ids : IdAt(h, d)'
    <2> TAKE d \in Ids
    <2>1. IdAt(g, d) BY Parts
    <2>2. CASE d # ent[e].Id
      BY <2>1, <2>2, <1>1, <1>2, <1>4, <1>6, <1>7, <1>8, IdFrame
    <2>3. CASE d = ent[e].Id
      <3>1. News(h, d) = {} /\ d \in cardIds' BY <2>3, <1>1, <1>4, <1>10
      <3>2. ~Unowned(d)' BY <2>3, <1>4 DEF Unowned
      <3>3. \A k \in Sent(g, d) : g.Q[k].Req = "MDATA" /\ ent[e].Req = "DATA" /\ h.Q[k] = g.Q[k]
        <4>1. Msgs(g, e) BY <1>4, Parts
        <4>2. \A k \in Sent(g, d) : SentAt(g, e, k) BY <4>1, <2>3, <1>4 DEF Msgs
        <4>3. QED BY <4>2, <1>2, <1>4 DEF SentAt, SameItems, Sent
      <3>4. \A k \in Sent(h, d) : h.Q[k].Req = "REMOVE" => \A j \in Sent(h, d) : j = k
        <4>1. m.Req = "REMOVE" => ent[e].Req # "DATA" BY <1>4
        <4>2. QED BY <4>1, <3>3, <2>3, <1>1
      <3>5. QED BY <3>1, <3>2, <3>4 DEF IdAt
    <2>4. QED BY <2>2, <2>3
  <1>12. \A c \in Chan, d \in Ids : <<c, d>> \in held' => HoldAt(h, c, d)'
    <2> TAKE c \in Chan, d \in Ids
    <2> HAVE <<c, d>> \in held'
    <2>1. HoldAt(g, c, d) BY <1>4, Parts
    <2>2. d \in cardIds' /\ c \in Chan BY <2>1, <1>4 DEF HoldAt
    <2>3. CASE Owner[c] = e
      <3>1. ent[e].Id = d BY <2>1, <2>3, <1>4 DEF HoldAt
      <3>2. Sent(h, d) # {} BY <3>1, <1>1
      <3>3. QED BY <3>1, <3>2, <2>2, <2>3, <1>4 DEF HoldAt
    <2>4. CASE Owner[c] # e
      <3>1. PICK o : o = Owner[c] OBVIOUS
      <3>2. o \in Entity /\ o # e BY <3>1, <2>4 DEF XdiAssumption
      <3>3. \A k \in Sent(g, d) : k \in Sent(h, d) BY <1>1 DEF SameMsgs
      <3>4. \A k \in SLive(g) : ref[g.S[k]] # 0 BY <1>3 DEF Assigns
      <3>5. ent'[o].Id = ent[o].Id /\ (Removing(h, o)' => Removing(g, o)) BY <3>2, <1>6, <1>8
      <3>6. \A k \in SLive(g) : tbl'[g.S[k]] = o => tbl[g.S[k]] = o BY <1>4
      <3>7. QED BY <2>1, <2>2, <3>1, <3>3, <3>4, <3>5, <3>6, <1>1, <1>2, <1>3, <1>4, <1>7,
                   HoldFrame
    <2>5. QED BY <2>3, <2>4
  <1>13. QED BY <1>9, <1>11, <1>12

\* What a request that is written into a buffer leaves as it is
LEMMA SendKeeps ==
    ASSUME XdiAssumption, NEW g, Whole(g), TypeOK', NEW h, NEW e, NEW s, NEW m,
           SendStep(g, h, e, s, m), Queue(h)', Assigns(h)', GhostType(h)
    PROVE  Whole(h)'
  <1>1. /\ TypeOK /\ Ctl /\ IdTableSound /\ NoTrap /\ GhostType(g)
        /\ Pending(g) /\ Flows(g) /\ held \subseteq Chan \X Ids
    BY Parts
  <1>2. /\ e \in Entity /\ s \in {"queued", "sent"} /\ g.st[e] = "queued" /\ ent[e].Id # 0
        /\ \A f \in Entity : f # e => ent'[f] = ent[f]
        /\ ent'[e].Id = ent[e].Id /\ ent'[e].No = ent[e].No /\ ent'[e].Req = ent[e].Req
        /\ ent'[e].ReqCh = ent[e].ReqCh
        /\ UNCHANGED <<wait, fcPend, clFc, clSkip, tbl, IdTable, fcId, noCancel,
                   trapped, pc, phase, irq, rcBuf, outq, inbox, cur, cardIds, held>>
        /\ EntityAt(e, s)'
    BY DEF SendStep
  <1>3. h.st[e] = s /\ \A f \in Entity : f # e => h.st[f] = g.st[f] BY DEF SendStep
  <1>4. \A f \in Entity : ent'[f].Id = ent[f].Id /\ ent'[f].No = ent[f].No
                          /\ ent'[f].Req = ent[f].Req /\ ent'[f].ReqCh = ent[f].ReqCh
    BY <1>2
  <1>5. \A j \in Slot : tbl[j] # Null => tbl[j] \in Entity BY <1>1 DEF TypeOK
  <1>6. NoTrap' BY <1>1, <1>2 DEF NoTrap
  <1>7. Ctl' BY <1>1, <1>2, <1>4, <1>5 DEF Ctl
  <1>8. IdTableSound'
    <2>1. \A x \in Ids : IdTable[x] # 0 => tbl[IdTable[x]] \in Entity
      <3>0. EMax \in Nat /\ \A x \in Ids : IdTable[x] \in 0..EMax
        BY <1>1 DEF TypeOK, XdiAssumption
      <3>1. \A x \in Ids : IdTable[x] # 0 => IdTable[x] \in Slot BY <3>0 DEF Slot
      <3>2. QED BY <3>1, <1>1, <1>5 DEF IdTableSound
    <2>2. QED BY <1>1, <1>2, <1>4, <1>5, <2>1 DEF IdTableSound
  <1>9. \A f \in Entity : EntityAt(f, h.st[f])'
    <2> TAKE f \in Entity
    <2>1. CASE f = e BY <2>1, <1>2, <1>3
    <2>2. CASE f # e
      <3>1. EntityAt(f, g.st[f]) BY Parts
      <3>2. ent'[f] = ent[f] /\ wait'[f] = wait[f] BY <2>2, <1>2
      <3>3. (HasSlot(f) => HasSlot(f)') /\ (NoSlot(f) => NoSlot(f)')
        BY <3>2, <1>2 DEF HasSlot, NoSlot
      <3>4. EntityAt(f, g.st[f])' BY <3>1, <3>2, <3>3, EntityFrame
      <3>5. QED BY <3>4, <2>2, <1>3
    <2>3. QED BY <2>1, <2>2
  <1>10. Pending(h)'
    <2>0. PICK Rem : Rem = {f \in Entity : Removing(g, f)} OBVIOUS
    <2>1. PICK Rem1 : Rem1 = IF s = "sent" /\ ent[e].Req = "REMOVE" THEN Rem \cup {e} ELSE Rem
      OBVIOUS
    <2>2. e \notin Rem BY <2>0, <1>2 DEF Removing
    <2>3. \A f \in Entity : f \in Rem1 <=> h.st[f] = "sent" /\ ent'[f].Req = "REMOVE"
      BY <2>0, <2>1, <1>2, <1>3 DEF Removing
    <2>4. \A j \in Slot : j \in rmPending <=>
            (tbl[j] # Null /\ ent[tbl[j]].No = j /\ tbl[j] \in Rem)
      <3>1. \A f \in Entity : Removing(g, f) <=> f \in Rem BY <2>0
      <3>2. QED BY <3>1, <1>1, <1>5, <2>0 DEF Pending, XdiAssumption
    <2>5. HasSlot(e) BY <1>2, StageOf
    <2>6. \A j \in Slot : j \in rmPending' <=>
            (tbl[j] # Null /\ ent[tbl[j]].No = j /\ tbl[j] \in Rem1)
      <3>1. rmPending' = (IF s = "sent" /\ ent[e].Req = "REMOVE"
                     THEN rmPending \cup {ent[e].No} ELSE rmPending)
        BY DEF SendStep
      <3>2. CASE s = "sent" /\ ent[e].Req = "REMOVE"
        <4> TAKE j \in Slot
        <4>1. j \in rmPending' <=> j \in rmPending \/ j = ent[e].No BY <3>1, <3>2
        <4>2. tbl[j] \in Rem1 <=> tbl[j] \in Rem \/ tbl[j] = e BY <3>2, <2>1
        <4>3. j = ent[e].No <=> tbl[j] = e /\ ent[tbl[j]].No = j BY <2>5 DEF HasSlot
        <4>4. e # Null BY <1>2 DEF XdiAssumption
        <4>5. QED BY <4>1, <4>2, <4>3, <4>4, <2>4
      <3>3. CASE ~(s = "sent" /\ ent[e].Req = "REMOVE") BY <3>1, <3>3, <2>1, <2>4
      <3>4. QED BY <3>2, <3>3
    <2>7. \A j \in Slot : tbl[j] # Null => (tbl[j] \in Rem1 <=> Removing(h, tbl[j])')
      BY <2>3, <1>5, <1>2 DEF Removing
    <2>8. \A j \in Slot : tbl[j] # Null => ent'[tbl[j]].No = ent[tbl[j]].No BY <1>4, <1>5
    <2>9. \A j \in Slot : (j \in rmPending <=>
            (tbl[j] # Null /\ ent[tbl[j]].No = j /\ Removing(h, tbl[j])))'
      BY <2>6, <2>7, <2>8, <1>2
    <2>10. QED BY <2>9 DEF Pending
  <1>11. Flows(h)'
    <2>1. \A c \in Chan : Owner[c] \in Entity BY DEF XdiAssumption
    <2>2. SameItems(g, h) BY SendViews
    <2>3. \A d : /\ Plain(h, d) = Plain(g, d) /\ Labels(h, d) = Labels(g, d)
      <3>1. PICK n : Adds(g, h, ent[e].Id, m, n) BY SendViews
      <3>2. QED BY <3>1 DEF Adds, SameMsgs
    <2>4. \A c \in Chan : ent'[Owner[c]].Id # 0 => Flow(h, c)'
      <3> TAKE c \in Chan
      <3> HAVE ent'[Owner[c]].Id # 0
      <3>1. PICK o, d : o = Owner[c] /\ d = ent[o].Id OBVIOUS
      <3>2. o \in Entity /\ d # 0 BY <3>1, <2>1, <1>4
      <3>3. Flow(g, c) BY <3>1, <3>2, <1>1 DEF Flows
      <3>4. SameLabs(g, h, c, d)
        <4>1. Lab(h, c, d) = Lab(g, c, d) BY <2>2, <2>3 DEF Lab, SameItems, Labels
        <4>2. \A rc \in RcCode : Says(h, c, d, rc) = Says(g, c, d, rc)
          BY <2>2, <2>3 DEF Says, SameItems, Plain
        <4>3. QED BY <4>1, <4>2 DEF SameLabs
      <3>5. /\ ent'[o].Id = ent[o].Id /\ ent'[o].No = ent[o].No /\ ent'[o].Req = ent[o].Req
            /\ ent'[o].ReqCh = ent[o].ReqCh
        BY <3>2, <1>4
      <3>6. QED BY <3>1, <3>3, <3>4, <3>5, <1>2, FlowFrame
    <2>5. QED BY <2>1, <2>4, <1>1, <1>2, <1>4 DEF Flows
  <1>12. Inv(h)'
    <2>1. Refs(h)' /\ (\A d \in Ids : IdAt(h, d)')
          /\ (\A c \in Chan, d \in Ids : <<c, d>> \in held' => HoldAt(h, c, d)')
      BY SendIds
    <2>2. \A f \in Entity : Msgs(h, f)' BY SendMsgs
    <2>3. Pipes(h)' /\ Forms(h) BY SendViews
    <2>4. held' \subseteq Chan \X Ids BY <1>1, <1>2
    <2>5. QED BY <2>1, <2>2, <2>3, <2>4, <1>9, <1>10, <1>11 DEF Inv
  <1>13. QED BY <1>6, <1>7, <1>8, <1>12 DEF Whole

\* The head of the queue and its entity
LEMMA TakeHead ==
    ASSUME XdiAssumption, NEW g, Whole(g), Looping
    PROVE  /\ head \in Slot /\ head = g.q[g.out + 1] /\ g.out + 1 \in QLive(g)
           /\ g.out # Len(g.q) /\ g.out + 1 <= Len(g.q) /\ g.out + 1 \in Nat
           /\ tbl[head] \in Entity /\ ent[tbl[head]].No = head
           /\ g.st[tbl[head]] \in {"asks", "queued"}
           /\ pc = "take" /\ cur.i = 0
  <1>1. TypeOK /\ Ctl /\ GhostType(g) /\ Queue(g) BY Parts
  <1>2. head # 0 /\ pc = "take" BY DEF Looping
  <1>3. PICK L, out : L = Len(g.q) /\ out = g.out OBVIOUS
  <1>4. L \in Nat /\ out \in Nat /\ out <= L /\ g.q \in Seq(Slot) /\ QLive(g) = (out + 1)..L
    BY <1>1, <1>3, GhostParts DEF QLive
  <1>5. out # L /\ head = g.q[out + 1] BY <1>1, <1>2, <1>3 DEF Queue
  <1>6. out + 1 \in (out + 1)..L /\ out + 1 \in 1..L /\ out + 1 <= L /\ out + 1 \in Nat
    BY <1>4, <1>5
  <1>7. head \in Slot BY <1>3, <1>4, <1>5, <1>6
  <1>8. /\ tbl[head] # Null /\ ent[tbl[head]].No = head
        /\ g.st[tbl[head]] \in {"asks", "queued"}
    BY <1>1, <1>4, <1>5, <1>6 DEF Queue
  <1>9. tbl[head] \in Entity BY <1>1, <1>7, <1>8 DEF TypeOK
  <1>10. cur.i = 0 BY <1>1, <1>2 DEF Ctl
  <1>11. QED BY <1>2, <1>3, <1>4, <1>5, <1>6, <1>7, <1>8, <1>9, <1>10

\* Entities that wait in the queue are behind the head.
LEMMA Behind ==
    ASSUME XdiAssumption, NEW g, Whole(g), Looping, NEW f \in Entity, f # tbl[head],
           g.st[f] \in {"asks", "queued"}
    PROVE  \E k \in QLive(g) : g.q[k] = ent[f].No /\ k # g.out + 1
  <1>1. Queue(g) /\ EntityAt(f, g.st[f]) BY Parts
  <1>2. PICK k \in QLive(g) : g.q[k] = ent[f].No BY <1>1 DEF Queue
  <1>3. HasSlot(f) BY <1>1 DEF EntityAt
  <1>4. head = g.q[g.out + 1] BY TakeHead
  <1>5. k # g.out + 1 BY <1>2, <1>3, <1>4 DEF HasSlot
  <1>6. QED BY <1>2, <1>5

\* The head leaves the queue.
LEMMA PopQueue ==
    ASSUME XdiAssumption, NEW g, Whole(g), Looping, NextReq, NEW h,
           h.q = g.q, h.out = g.out + 1, UNCHANGED <<tbl, cur>>,
           \A f \in Entity : ent'[f].No = ent[f].No,
           h.st[tbl[head]] \notin {"asks", "queued"},
           \A f \in Entity : f # tbl[head] => h.st[f] = g.st[f],
           \A x \in Slot : x # head => next'[x] = next[x]
    PROVE  Queue(h)'
  <1>1. TypeOK /\ GhostType(g) /\ Queue(g) BY Parts
  <1>2. PICK L, out, q : L = Len(g.q) /\ out = g.out /\ q = g.q OBVIOUS
  <1>3. L \in Nat /\ out \in Nat /\ out <= L /\ q \in Seq(Slot)
        /\ QLive(g) = (out + 1)..L /\ L = Len(q)
    BY <1>1, <1>2, GhostParts DEF QLive
  <1>4. /\ head \in Slot /\ head # 0 /\ head = q[out + 1] /\ tbl[head] \in Entity
        /\ out # L /\ out + 1 \in Nat
    BY <1>2, TakeHead DEF Looping
  <1>5. QLive(h) = (out + 1 + 1)..L BY <1>2 DEF QLive
  <1>6. /\ Links(q, out + 1, next[head], tail, next) /\ out + 1 <= L
        /\ \A k \in (out + 2)..L : q[k] # head
        /\ (next[head] = 0 <=> out + 1 = L)
    <2>1. Links(q, out, head, tail, next) BY <1>1, <1>2, QueueLinks
    <2>2. QED BY <2>1, <1>3, <1>4, LinksTake
  <1>7. \A k \in (out + 1 + 1)..L : k \in (out + 1)..L /\ k \in (out + 2)..L /\ k \in 1..L
    BY <1>3
  <1>8. \A k \in QLive(h) : /\ k \in QLive(g) /\ q[k] # head /\ q[k] \in Slot
                            /\ next'[q[k]] = next[q[k]]
    <2> TAKE k \in QLive(h)
    <2>1. k \in (out + 1)..L /\ k \in (out + 2)..L /\ k \in 1..L BY <1>5, <1>7
    <2>2. q[k] \in Slot /\ q[k] # head BY <2>1, <1>3, <1>6
    <2>3. QED BY <2>1, <2>2, <1>3
  <1>9. head' = next[head] /\ tail' = (IF next[head] = 0 THEN 0 ELSE tail) BY DEF NextReq
  <1>10. \A k \in QLive(h) : 
          /\ tbl'[h.q[k]] # Null /\ ent'[tbl'[h.q[k]]].No = h.q[k]
          /\ h.st[tbl'[h.q[k]]] \in {"asks", "queued"}
          /\ cur'.i # h.q[k] \/ cur'.ok
    <2> TAKE k \in QLive(h)
    <2>1. k \in QLive(g) /\ q[k] # head /\ q[k] \in Slot BY <1>8
    <2>2. /\ tbl[q[k]] # Null /\ ent[tbl[q[k]]].No = q[k]
          /\ g.st[tbl[q[k]]] \in {"asks", "queued"}
          /\ cur.i # q[k] \/ cur.ok
      BY <2>1, <1>1, <1>2 DEF Queue
    <2>3. tbl[q[k]] \in Entity BY <2>1, <2>2, <1>1 DEF TypeOK
    <2>4. tbl[q[k]] # tbl[head] BY <2>1, <2>2, TakeHead
    <2>5. QED BY <2>2, <2>3, <2>4, <1>2
  <1>11. \A f \in Entity : h.st[f] \in {"asks", "queued"} =>
            \E k \in QLive(h) : h.q[k] = ent'[f].No
    <2> TAKE f \in Entity
    <2> HAVE h.st[f] \in {"asks", "queued"}
    <2>1. f # tbl[head] /\ g.st[f] \in {"asks", "queued"} OBVIOUS
    <2>2. PICK k \in QLive(g) : g.q[k] = ent[f].No /\ k # g.out + 1 BY <2>1, Behind
    <2>3. k \in QLive(h) BY <2>2, <1>2, <1>3, <1>5
    <2>4. QED BY <2>2, <2>3
  <1>12. /\ head' = (IF out + 1 = L THEN 0 ELSE q[out + 1 + 1])
         /\ (out + 1 # L => tail = q[L])
         /\ \A k \in (out + 1 + 1)..L : next[q[k]] = (IF k = L THEN 0 ELSE q[k + 1])
         /\ \A j, k \in (out + 1 + 1)..L : q[j] = q[k] => j = k
    BY <1>3, <1>6, <1>9 DEF Links
  <1>13. tail' = (IF out + 1 = L THEN 0 ELSE q[L]) BY <1>6, <1>9, <1>12
  <1>14. \A k \in QLive(h) : next'[q[k]] = (IF k = L THEN 0 ELSE q[k + 1])
    BY <1>5, <1>8, <1>12
  <1>15. QED BY <1>2, <1>5, <1>10, <1>11, <1>12, <1>13, <1>14 DEF Queue

\* More++ stays below the flags.
LEMMA MoreIs ==
    ASSUME XdiAssumption, NEW x \in ENTITY, x.XMOREC < XMOREC, NEW y, y = MoreInc(x)
    PROVE  /\ y \in ENTITY /\ y.XMOREC = x.XMOREC + 1 /\ y.Id = x.Id /\ y.No = x.No
           /\ y.Req = x.Req /\ y.ReqCh = x.ReqCh /\ y.XBUSY = x.XBUSY /\ y.XNum = x.XNum
           /\ y.XMOREF = x.XMOREF /\ y.XMOREP = x.XMOREP
  <1>1. XMOREC \in Nat BY DEF XdiAssumption
  <1>2. y = [x EXCEPT !.XMOREC = @ + 1] BY DEF MoreInc
  <1>3. QED BY <1>1, <1>2 DEF ENTITY

\* What the entity at the head of the queue has to send
LEMMA QueuedNums ==
    ASSUME XdiAssumption, NEW g, Whole(g), NEW e \in Entity, g.st[e] = "queued"
    PROVE  /\ ent[e].XMOREC < XMOREC /\ ent[e].XMOREC \in Nat /\ ent[e].XNum \in Nat
           /\ ent[e].XNum >= 1 /\ ent[e].XMOREC + ent[e].XNum <= MaxFrag
           /\ MaxFrag \in Nat
  <1>1. EntityAt(e, "queued") /\ TypeOK BY Parts
  <1>2. ent[e].XNum >= 1 /\ ent[e].XMOREC + ent[e].XNum <= MaxFrag BY <1>1 DEF EntityAt
  <1>3. PICK a, b : a = ent[e].XMOREC /\ b = ent[e].XNum OBVIOUS
  <1>4. MaxFrag \in Nat /\ XMOREC \in Nat /\ MaxFrag <= XMOREC BY DEF XdiAssumption
  <1>5. a \in 0..XMOREC /\ b \in 0..MaxFrag BY <1>1, <1>3, EntityTypes
  <1>6. a \in Nat /\ b \in Nat /\ b >= 1 /\ a + b <= MaxFrag BY <1>2, <1>3, <1>4, <1>5
  <1>7. a < XMOREC BY <1>4, <1>6
  <1>8. QED BY <1>3, <1>4, <1>6, <1>7

\* The last or only buffer of a request
LEMMA FinalKeeps ==
    ASSUME XdiAssumption, NEW g, Whole(g), TypeOK', OutFinal
    PROVE  \E h : Whole(h)'
  <1>1. Looping /\ NextReq BY DEF OutFinal
  <1>2. TypeOK /\ GhostType(g) /\ Assigns(g) /\ Ctl BY Parts
  <1>3. PICK e \in Entity :
          /\ e = tbl[head] /\ ent[e].Id # 0 /\ ~(ent[e].XNum > 1 /\ e \in NL)
          /\ ent' = [ent EXCEPT ![e] = AllSent(ent[e])]
          /\ Fill([Req |-> ent[e].Req, ReqId |-> ent[e].Id, ReqCh |-> ent[e].ReqCh,
                   Reference |-> 0, NLType |-> e \in NL])
          /\ rmPending' = IF ent[e].Req = "REMOVE" THEN rmPending \cup {head} ELSE rmPending
    BY DEF OutFinal
  <1>4. /\ head \in Slot /\ ent[e].No = head /\ g.st[e] \in {"asks", "queued"}
        /\ g.out + 1 <= Len(g.q) /\ g.out + 1 \in Nat /\ cur.i = 0
    BY <1>1, <1>3, TakeHead
  <1>5. g.st[e] = "queued" BY <1>3, <1>4, StageOf
  <1>6. /\ ent[e].XMOREC < XMOREC /\ ent[e].XMOREC \in Nat /\ ent[e].XNum \in Nat
        /\ ent[e].XNum >= 1 /\ EntityAt(e, "queued") /\ wait[e] /\ HasSlot(e)
    BY <1>3, <1>5, QueuedNums, StageOf, Parts
  <1>7. PICK m : m = [Req |-> ent[e].Req, ReqId |-> ent[e].Id, ReqCh |-> ent[e].ReqCh,
                   Reference |-> 0, NLType |-> e \in NL]
    OBVIOUS
  <1>8. /\ m.Req = ent[e].Req /\ m.ReqId = ent[e].Id /\ m.ReqCh = ent[e].ReqCh
        /\ m.Reference = 0 /\ (m.NLType <=> e \in NL) /\ m \in REQ
    <2>1. /\ ent[e].Id \in Ids \cup {0} /\ ent[e].Req \in ReqCode /\ ent[e].ReqCh \in ChanNo
      BY <1>2, <1>3, EntityTypes
    <2>2. (e \in NL) \in BOOLEAN OBVIOUS
    <2>3. QED BY <1>7, <2>1, <2>2 DEF REQ
  <1>9. batch' = Append(batch, m) BY <1>3, <1>7 DEF Fill
  <1>10. /\ UNCHANGED <<wait, fcPend, clFc, clSkip, tbl, IdTable, fcId, noCancel,
                   trapped, pc, phase, irq, rcBuf, outq, inbox, cur, cardIds, held>>
         /\ UNCHANGED <<next, ref, assign>>
    BY <1>3 DEF OutFinal, Fill, clientVars, ramVars, cardVars
  <1>11. PICK y : y = MoreInc(ent[e]) OBVIOUS
  <1>12. /\ y \in ENTITY /\ y.XMOREC = ent[e].XMOREC + 1 /\ y.Id = ent[e].Id /\ y.No = ent[e].No
         /\ y.Req = ent[e].Req /\ y.ReqCh = ent[e].ReqCh /\ y.XBUSY = ent[e].XBUSY
    BY <1>2, <1>6, <1>11, EntityTypes, MoreIs
  <1>13. ent \in [Entity -> ENTITY] BY <1>2 DEF TypeOK
  <1>14. /\ ent'[e].XMOREC = ent[e].XMOREC + 1 /\ ent'[e].Id = ent[e].Id
         /\ ent'[e].No = ent[e].No /\ ent'[e].Req = ent[e].Req /\ ent'[e].ReqCh = ent[e].ReqCh
         /\ ent'[e].XBUSY = ent[e].XBUSY /\ ent'[e].XMOREF /\ ~ent'[e].XMOREP
         /\ \A f \in Entity : f # e => ent'[f] = ent[f]
    <2>1. ent'[e] = [y EXCEPT !.XNum = 0, !.XMOREF = TRUE, !.XMOREP = FALSE]
      BY <1>3, <1>11, <1>13 DEF AllSent
    <2>2. \A f \in Entity : f # e => ent'[f] = ent[f] BY <1>3, <1>13
    <2>3. QED BY <2>1, <2>2, <1>12 DEF ENTITY
  <1>15. EntityAt(e, "sent")'
    <2>1. HasSlot(e)' BY <1>6, <1>10, <1>14 DEF HasSlot
    <2>2. /\ ent[e].XBUSY /\ ent[e].Req \in {"DATA", "CTRL", "REMOVE"}
          /\ ent[e].ReqCh \in ChansOf(e) \cup {0}
          /\ (ent[e].Req = "REMOVE" => ent[e].ReqCh = 0)
          /\ (ent[e].Req # "DATA" => ent[e].XMOREC = 0)
      BY <1>6 DEF EntityAt
    <2>3. ent'[e].XMOREC >= 1 /\ (ent[e].Req # "DATA" => ent'[e].XMOREC = 1)
      BY <2>2, <1>6, <1>14
    <2>4. wait'[e] BY <1>6, <1>10
    <2>5. QED BY <2>1, <2>2, <2>3, <2>4, <1>3, <1>14 DEF EntityAt
  <1>16. PICK h : h = Mk(g.q, g.out + 1, g.S, g.done, g.ans, g.R, g.got, Append(g.Q, m), g.tk,
                         [g.st EXCEPT ![e] = "sent"])
    OBVIOUS
  <1>17. g.st \in [Entity -> Stage] /\ "sent" \in Stage BY <1>2, GhostParts DEF Stage
  <1>18. /\ h.q = g.q /\ h.out = g.out + 1 /\ h.S = g.S /\ h.done = g.done /\ h.ans = g.ans
         /\ h.R = g.R /\ h.got = g.got /\ h.Q = Append(g.Q, m) /\ h.tk = g.tk
         /\ h.st = [g.st EXCEPT ![e] = "sent"] /\ h \in Ghost
    <2>1. PICK st : st = [g.st EXCEPT ![e] = "sent"] OBVIOUS
    <2>2. PICK u : u = Append(g.Q, m) OBVIOUS
    <2>3. PICK o : o = g.out + 1 OBVIOUS
    <2>4. h = Mk(g.q, o, g.S, g.done, g.ans, g.R, g.got, u, g.tk, st)
      BY <2>1, <2>2, <2>3, <1>16
    <2>5. /\ g.q \in Seq(Slot) /\ o \in Nat /\ g.S \in Seq(Slot) /\ g.done \in Nat
          /\ g.ans \in Nat /\ g.R \in Seq(RC) /\ g.got \in Nat /\ u \in Seq(REQ)
          /\ g.tk \in Nat /\ st \in [Entity -> Stage]
      BY <1>2, <1>4, <1>8, <1>17, <2>1, <2>2, <2>3, GhostParts
    <2>6. /\ h.q = g.q /\ h.out = o /\ h.S = g.S /\ h.done = g.done /\ h.ans = g.ans
          /\ h.R = g.R /\ h.got = g.got /\ h.Q = u /\ h.tk = g.tk /\ h.st = st /\ h \in Ghost
      BY <2>4, <2>5, MkParts
    <2>7. QED BY <2>1, <2>2, <2>3, <2>6
  <1>19. SendStep(g, h, e, "sent", m)
    BY <1>3, <1>4, <1>5, <1>8, <1>9, <1>10, <1>14, <1>15, <1>17, <1>18 DEF SendStep
  <1>20. h.st[e] = "sent" /\ \A f \in Entity : f # e => h.st[f] = g.st[f] BY <1>17, <1>18
  <1>21. GhostType(h)
    <2>1. h.tk <= Len(h.Q) BY <1>19, SendViews
    <2>2. h.out <= Len(h.q) BY <1>4, <1>18
    <2>3. QED BY <2>1, <2>2, <1>2, <1>18, GhostParts DEF GhostType
  <1>22. \A f \in Entity : ent'[f].No = ent[f].No BY <1>14
  <1>23. Queue(h)'
    <2>1. h.st[tbl[head]] \notin {"asks", "queued"} BY <1>3, <1>20
    <2>2. \A f \in Entity : f # tbl[head] => h.st[f] = g.st[f] BY <1>3, <1>20
    <2>3. QED BY <2>1, <2>2, <1>1, <1>10, <1>18, <1>22, PopQueue
  <1>24. Assigns(h)'
    <2>1. \A k \in SLive(g) : cur'.i # g.S[k] BY <1>2, <1>10 DEF Assigns
    <2>2. \A f \in Entity : h.st[f] = "asked" <=> g.st[f] = "asked" BY <1>5, <1>20
    <2>3. QED BY <2>1, <2>2, <1>2, <1>10, <1>18, <1>22, AssignsFrame
  <1>25. QED BY <1>19, <1>21, <1>23, <1>24, SendKeeps

\* A fragment that is not the last one: the head goes to the end of the queue.
LEMMA FragmentKeeps ==
    ASSUME XdiAssumption, NEW g, Whole(g), TypeOK', OutFragment
    PROVE  \E h : Whole(h)'
  <1>1. Looping BY DEF OutFragment
  <1>2. TypeOK /\ GhostType(g) /\ Assigns(g) /\ Queue(g) BY Parts
  <1>3. PICK e \in NL :
          /\ e = tbl[head] /\ ent[e].Id # 0 /\ ent[e].XNum > 1
          /\ ent' = [ent EXCEPT ![e] = PartSent(ent[e])]
          /\ Fill([Req |-> "MDATA", ReqId |-> ent[e].Id, ReqCh |-> ent[e].ReqCh,
                   Reference |-> 0, NLType |-> TRUE])
          /\ next' = Append_next(next, next[head], tail, ent[e].No)
          /\ head' = (IF next[head] = 0 THEN ent[e].No ELSE next[head])
          /\ tail' = ent[e].No
    BY DEF OutFragment
  <1>e. e \in Entity BY DEF XdiAssumption
  <1>4. /\ head \in Slot /\ ent[e].No = head /\ g.st[e] \in {"asks", "queued"}
        /\ g.out + 1 <= Len(g.q) /\ g.out + 1 \in Nat /\ cur.i = 0
        /\ head = g.q[g.out + 1] /\ g.out + 1 \in QLive(g)
    BY <1>1, <1>3, TakeHead
  <1>5. g.st[e] = "queued" BY <1>3, <1>4, <1>e, StageOf
  <1>6. /\ ent[e].XMOREC < XMOREC /\ ent[e].XMOREC \in Nat /\ ent[e].XNum \in Nat
        /\ ent[e].XNum >= 1 /\ ent[e].XMOREC + ent[e].XNum <= MaxFrag /\ MaxFrag \in Nat
        /\ EntityAt(e, "queued") /\ wait[e] /\ HasSlot(e)
    BY <1>3, <1>5, <1>e, QueuedNums, StageOf, Parts
  <1>7. PICK m : m = [Req |-> "MDATA", ReqId |-> ent[e].Id, ReqCh |-> ent[e].ReqCh,
                   Reference |-> 0, NLType |-> TRUE]
    OBVIOUS
  <1>8. /\ m.Req = "MDATA" /\ m.ReqId = ent[e].Id /\ m.ReqCh = ent[e].ReqCh
        /\ m.Reference = 0 /\ m.NLType = TRUE /\ m \in REQ
    <2>1. ent[e].Id \in Ids \cup {0} /\ ent[e].ReqCh \in ChanNo
      BY <1>2, <1>e, EntityTypes
    <2>2. QED BY <1>7, <2>1 DEF REQ, ReqCode
  <1>9. batch' = Append(batch, m) BY <1>3, <1>7 DEF Fill
  <1>10. /\ UNCHANGED <<wait, fcPend, clFc, clSkip, tbl, IdTable, fcId, noCancel,
                   trapped, pc, phase, irq, rcBuf, outq, inbox, cur, cardIds, held>>
         /\ UNCHANGED <<ref, assign, rmPending>>
    BY <1>3 DEF OutFragment, Fill, clientVars, ramVars, cardVars
  <1>11. PICK y : y = MoreInc(ent[e]) OBVIOUS
  <1>12. /\ y \in ENTITY /\ y.XMOREC = ent[e].XMOREC + 1 /\ y.Id = ent[e].Id /\ y.No = ent[e].No
         /\ y.Req = ent[e].Req /\ y.ReqCh = ent[e].ReqCh /\ y.XBUSY = ent[e].XBUSY
         /\ y.XNum = ent[e].XNum /\ y.XMOREF = ent[e].XMOREF
    <2>1. ent[e] \in ENTITY BY <1>2, <1>e, EntityTypes
    <2>2. QED BY <2>1, <1>6, <1>11, MoreIs
  <1>13. ent \in [Entity -> ENTITY] BY <1>2 DEF TypeOK
  <1>14. /\ ent'[e].XMOREC = ent[e].XMOREC + 1 /\ ent'[e].Id = ent[e].Id
         /\ ent'[e].No = ent[e].No /\ ent'[e].Req = ent[e].Req /\ ent'[e].ReqCh = ent[e].ReqCh
         /\ ent'[e].XBUSY = ent[e].XBUSY /\ ent'[e].XMOREF = ent[e].XMOREF /\ ent'[e].XMOREP
         /\ ent'[e].XNum = ent[e].XNum - 1
         /\ \A f \in Entity : f # e => ent'[f] = ent[f]
    <2>1. ent'[e] = [y EXCEPT !.XNum = @ - 1, !.XMOREP = TRUE]
      BY <1>3, <1>11, <1>13, <1>e DEF PartSent
    <2>2. \A f \in Entity : f # e => ent'[f] = ent[f] BY <1>3, <1>13
    <2>3. QED BY <2>1, <2>2, <1>12 DEF ENTITY
  <1>15. ent[e].Req = "DATA" BY <1>3, <1>6 DEF EntityAt
  <1>16. EntityAt(e, "queued")'
    <2>1. HasSlot(e)' BY <1>6, <1>10, <1>14 DEF HasSlot
    <2>2. /\ ent[e].XBUSY /\ ent[e].ReqCh \in ChansOf(e) \cup {0} /\ ~ent[e].XMOREF
      BY <1>6 DEF EntityAt
    <2>3. ent'[e].XNum >= 1 /\ ent'[e].XMOREC + ent'[e].XNum <= MaxFrag
      <3>1. PICK a, b : a = ent[e].XMOREC /\ b = ent[e].XNum OBVIOUS
      <3>2. a \in Nat /\ b \in Nat /\ b > 1 /\ a + b <= MaxFrag /\ MaxFrag \in Nat
        BY <3>1, <1>3, <1>6
      <3>3. b - 1 >= 1 /\ (a + 1) + (b - 1) <= MaxFrag BY <3>2
      <3>4. QED BY <3>1, <3>3, <1>14
    <2>4. wait'[e] BY <1>6, <1>10
    <2>5. QED BY <2>1, <2>2, <2>3, <2>4, <1>3, <1>14, <1>15 DEF EntityAt
  <1>17. PICK h : h = Mk(Append(g.q, head), g.out + 1, g.S, g.done, g.ans, g.R, g.got,
                         Append(g.Q, m), g.tk, g.st)
    OBVIOUS
  <1>18. g.st \in [Entity -> Stage] BY <1>2, GhostParts
  <1>19. /\ h.q = Append(g.q, head) /\ h.out = g.out + 1 /\ h.S = g.S /\ h.done = g.done
         /\ h.ans = g.ans /\ h.R = g.R /\ h.got = g.got /\ h.Q = Append(g.Q, m) /\ h.tk = g.tk
         /\ h.st = g.st /\ h \in Ghost
    <2>1. PICK v : v = Append(g.q, head) OBVIOUS
    <2>2. PICK u : u = Append(g.Q, m) OBVIOUS
    <2>3. PICK o : o = g.out + 1 OBVIOUS
    <2>4. h = Mk(v, o, g.S, g.done, g.ans, g.R, g.got, u, g.tk, g.st)
      BY <2>1, <2>2, <2>3, <1>17
    <2>5. /\ v \in Seq(Slot) /\ o \in Nat /\ g.S \in Seq(Slot) /\ g.done \in Nat
          /\ g.ans \in Nat /\ g.R \in Seq(RC) /\ g.got \in Nat /\ u \in Seq(REQ)
          /\ g.tk \in Nat /\ g.st \in [Entity -> Stage]
      BY <1>2, <1>4, <1>8, <1>18, <2>1, <2>2, <2>3, GhostParts
    <2>6. /\ h.q = v /\ h.out = o /\ h.S = g.S /\ h.done = g.done /\ h.ans = g.ans
          /\ h.R = g.R /\ h.got = g.got /\ h.Q = u /\ h.tk = g.tk /\ h.st = g.st
      BY <2>4 DEF Mk
    <2>7. h \in Ghost BY <2>4, <2>5 DEF Mk, Ghost
    <2>8. QED BY <2>1, <2>2, <2>3, <2>6, <2>7
  <1>20. SendStep(g, h, e, "queued", m)
    <2>1. h.st = [g.st EXCEPT ![e] = "queued"] BY <1>5, <1>18, <1>19
    <2>2. QED BY <2>1, <1>3, <1>e, <1>4, <1>5, <1>8, <1>9, <1>10, <1>14, <1>15, <1>16, <1>18, <1>19
          DEF SendStep
  <1>21. PICK L, out, q : L = Len(g.q) /\ out = g.out /\ q = g.q OBVIOUS
  <1>22. L \in Nat /\ out \in Nat /\ out <= L /\ q \in Seq(Slot) /\ L = Len(q)
         /\ QLive(g) = (out + 1)..L /\ out + 1 <= L /\ head = q[out + 1]
    BY <1>2, <1>4, <1>21, GhostParts DEF QLive
  <1>23. /\ Links(q, out + 1, next[head], tail, next)
         /\ \A k \in (out + 2)..L : q[k] # head
         /\ (next[head] = 0 <=> out + 1 = L)
    <2>1. Links(q, out, head, tail, next) BY <1>2, <1>21, QueueLinks
    <2>2. head # 0 BY <1>1 DEF Looping
    <2>3. QED BY <2>1, <2>2, <1>22, LinksTake
  <1>24. /\ Links(h.q, out + 1, head', tail', next')
         /\ Len(h.q) = L + 1 /\ h.q[L + 1] = head
         /\ \A k \in 1..L : h.q[k] = q[k]
         /\ \A x \in Slot : x # head /\ (next[head] = 0 \/ x # tail) => next'[x] = next[x]
    <2>1. \A k \in (out + 1 + 1)..Len(q) : q[k] # head BY <1>22, <1>23
    <2>2. PICK p, nh : p = out + 1 /\ nh = next[head] OBVIOUS
    <2>6. q \in Seq(Slot) /\ p \in Nat /\ p <= Len(q) BY <2>2, <1>22
    <2>7. Links(q, p, nh, tail, next) /\ \A k \in (p + 1)..Len(q) : q[k] # head
      BY <2>1, <2>2, <1>23
    <2>8. head \in Slot /\ next \in [Slot -> 0..EMax] BY <1>2, <1>4 DEF TypeOK
    <2>4. /\ Links(Append(q, head), p, IF nh = 0 THEN head ELSE nh, head,
                   Append_next(next, nh, tail, head))
          /\ Len(Append(q, head)) = Len(q) + 1
          /\ Append(q, head)[Len(q) + 1] = head
          /\ \A k \in 1..Len(q) : Append(q, head)[k] = q[k]
          /\ \A x \in Slot : x # head /\ (nh = 0 \/ x # tail) =>
                Append_next(next, nh, tail, head)[x] = next[x]
      BY <2>6, <2>7, <2>8, LinksAppend
    <2>9. h.q = Append(q, head) BY <1>19, <1>21
    <2>10. next' = Append_next(next, nh, tail, head) /\ head' = (IF nh = 0 THEN head ELSE nh)
           /\ tail' = head
      BY <2>2, <1>3, <1>4
    <2>11. Links(h.q, p, head', tail', next') BY <2>4, <2>9, <2>10
    <2>12. Len(h.q) = Len(q) + 1 /\ h.q[Len(q) + 1] = head /\ \A k \in 1..Len(q) : h.q[k] = q[k]
      BY <2>4, <2>9
    <2>13. \A x \in Slot : x # head /\ (nh = 0 \/ x # tail) => next'[x] = next[x]
      BY <2>4, <2>10
    <2>14. QED BY <2>2, <2>11, <2>12, <2>13, <1>22
  <1>25. QLive(h) = (out + 2)..(L + 1)
    <2>1. Len(h.q) = L + 1 /\ h.out = out + 1 BY <1>19, <1>21, <1>24
    <2>2. out + 1 + 1 = out + 2 BY <1>22
    <2>3. QED BY <2>1, <2>2 DEF QLive
  <1>26. /\ \A k \in (out + 2)..(L + 1) : k = L + 1 \/ (k \in QLive(g) /\ k \in 1..L)
         /\ L + 1 \in QLive(h)
         /\ \A k \in QLive(g) : k = out + 1 \/ (k \in QLive(h) /\ k \in 1..L)
    <2>1. L \in Nat /\ out \in Nat /\ out + 1 <= L BY <1>22
    <2>2. /\ \A k \in (out + 2)..(L + 1) : k = L + 1 \/ (k \in (out + 1)..L /\ k \in 1..L)
          /\ L + 1 \in (out + 2)..(L + 1)
          /\ \A k \in (out + 1)..L : k = out + 1 \/ (k \in (out + 2)..(L + 1) /\ k \in 1..L)
      BY <2>1
    <2>3. QED BY <2>2, <1>22, <1>25
  <1>27. \A k \in QLive(g) : /\ tbl[q[k]] \in Entity /\ ent[tbl[q[k]]].No = q[k]
                             /\ g.st[tbl[q[k]]] \in {"asks", "queued"}
                             /\ (cur.i # q[k] \/ cur.ok)
    <2>1. \A k \in QLive(g) : k \in 1..L BY <1>22
    <2>2. \A k \in QLive(g) : q[k] \in Slot BY <2>1, <1>22
    <2>3. \A k \in QLive(g) : tbl[q[k]] # Null /\ ent[tbl[q[k]]].No = q[k]
                             /\ g.st[tbl[q[k]]] \in {"asks", "queued"}
                             /\ (cur.i # q[k] \/ cur.ok)
      BY <1>2, <1>21 DEF Queue
    <2>4. \A j \in Slot : tbl[j] # Null => tbl[j] \in Entity BY <1>2 DEF TypeOK
    <2>5. QED BY <2>2, <2>3, <2>4
  <1>28. \A f \in Entity : ent'[f].No = ent[f].No BY <1>14
  <1>29. \A k \in QLive(h) : 
          /\ tbl'[h.q[k]] # Null /\ ent'[tbl'[h.q[k]]].No = h.q[k]
          /\ h.st[tbl'[h.q[k]]] \in {"asks", "queued"}
          /\ cur'.i # h.q[k] \/ cur'.ok
    <2> TAKE k \in QLive(h)
    <2>1. h.q[k] = head \/ (k \in QLive(g) /\ h.q[k] = q[k])
      BY <1>24, <1>25, <1>26
    <2>2. \E j \in QLive(g) : h.q[k] = q[j] BY <2>1, <1>4, <1>21
    <2>3. PICK j \in QLive(g) : h.q[k] = q[j] BY <2>2
    <2>4. Null \notin Entity BY DEF XdiAssumption
    <2>5. QED BY <2>3, <2>4, <1>10, <1>19, <1>27, <1>28
  <1>30. \A f \in Entity : h.st[f] \in {"asks", "queued"} =>
            \E k \in QLive(h) : h.q[k] = ent'[f].No
    <2> TAKE f \in Entity
    <2> HAVE h.st[f] \in {"asks", "queued"}
    <2>1. PICK k \in QLive(g) : q[k] = ent[f].No BY <1>2, <1>19, <1>21 DEF Queue
    <2>2. CASE k = out + 1
      <3>1. h.q[L + 1] = ent'[f].No BY <2>1, <2>2, <1>22, <1>24, <1>28
      <3>2. QED BY <3>1, <1>26
    <2>3. CASE k # out + 1 BY <2>1, <2>3, <1>24, <1>26, <1>28
    <2>4. QED BY <2>2, <2>3
  <1>31. Queue(h)'
    <2>1. /\ head' = (IF out + 1 = L + 1 THEN 0 ELSE h.q[out + 1 + 1])
          /\ \A k \in (out + 1 + 1)..(L + 1) : next'[h.q[k]] = (IF k = L + 1 THEN 0 ELSE h.q[k + 1])
          /\ \A j, k \in (out + 1 + 1)..(L + 1) : h.q[j] = h.q[k] => j = k
      BY <1>24 DEF Links
    <2>2. out + 1 # L + 1 BY <1>22
    <2>3. tail' = h.q[L + 1] BY <1>3, <1>4, <1>24
    <2>4. h.out = out + 1 /\ Len(h.q) = L + 1 BY <1>19, <1>21, <1>24
    <2>5. QED BY <2>1, <2>2, <2>3, <2>4, <1>29, <1>30 DEF Queue, QLive
  <1>32. \A k \in SLive(g) : g.S[k] \in Slot /\ tbl[g.S[k]] \in Entity
                             /\ g.st[tbl[g.S[k]]] = "asked" /\ cur.i # g.S[k]
    <2>1. \A k \in SLive(g) : g.S[k] \in Slot BY <1>2, GhostParts DEF SLive
    <2>2. \A k \in SLive(g) : /\ tbl[g.S[k]] # Null /\ g.st[tbl[g.S[k]]] = "asked"
                              /\ cur.i # g.S[k]
      BY <1>2 DEF Assigns
    <2>3. \A j \in Slot : tbl[j] # Null => tbl[j] \in Entity BY <1>2 DEF TypeOK
    <2>4. QED BY <2>1, <2>2, <2>3
  <1>33. Assigns(h)'
    <2>1. \A k \in SLive(g) : g.S[k] # head BY <1>3, <1>5, <1>32
    <2>2. \A k \in SLive(g) : next[head] = 0 \/ g.S[k] # tail
      <3>1. next[head] # 0 => L \in QLive(g) /\ tail = q[L]
        BY <1>2, <1>21, <1>22, <1>23 DEF Queue
      <3>2. next[head] # 0 => g.st[tbl[tail]] \in {"asks", "queued"} BY <3>1, <1>27
      <3>3. QED BY <3>2, <1>32
    <2>3. \A k \in SLive(g) : next'[g.S[k]] = next[g.S[k]] BY <2>1, <2>2, <1>24, <1>32
    <2>4. \A k \in SLive(g) : cur'.i # g.S[k] BY <1>10, <1>32
    <2>5. \A f \in Entity : h.st[f] = "asked" <=> g.st[f] = "asked" BY <1>19
    <2>6. QED BY <2>3, <2>4, <2>5, <1>2, <1>10, <1>19, <1>28, AssignsFrame
  <1>34. GhostType(h)
    <2>1. h.tk <= Len(h.Q) BY <1>20, SendViews
    <2>2. h.out <= Len(h.q) BY <1>19, <1>21, <1>22, <1>24
    <2>3. QED BY <2>1, <2>2, <1>2, <1>19, GhostParts DEF GhostType
  <1>35. QED BY <1>20, <1>31, <1>33, <1>34, SendKeeps

-----------------------------------------------------------------------------
(* pr_out writes an ASSIGN into a buffer *)

\* What is on its way is in one of the queues between driver and card.
LEMMA LiveRefs ==
    ASSUME TypeOK, NEW g, GhostType(g), Pipes(g)
    PROVE  /\ \A p \in RLive(g) : g.R[p].Reference \in RefsOut
           /\ \A p \in RqLive(g) : g.Q[p].Reference \in RefsOut
  <1>1. /\ g.got \in Nat /\ Len(g.R) \in Nat /\ g.tk \in Nat /\ Len(g.Q) \in Nat
    BY GhostParts
  <1>2. /\ Len(rcBuf) \in Nat /\ Len(outq) \in Nat /\ Len(inbox) \in Nat /\ Len(batch) \in Nat
    BY DEF TypeOK
  <1>3. /\ Len(g.R) = g.got + Len(rcBuf) + Len(outq)
        /\ Len(g.Q) = g.tk + Len(inbox) + Len(batch)
        /\ \A k \in 1..Len(rcBuf) : rcBuf[k] = g.R[g.got + k]
        /\ \A k \in 1..Len(outq) : outq[k] = g.R[g.got + Len(rcBuf) + k]
        /\ \A k \in 1..Len(inbox) : inbox[k] = g.Q[g.tk + k]
        /\ \A k \in 1..Len(batch) : batch[k] = g.Q[g.tk + Len(inbox) + k]
    BY DEF Pipes
  <1>4. \A p \in RLive(g) : g.R[p].Reference \in RefsOut
    <2> TAKE p \in RLive(g)
    <2>1. PICK G, B, O : G = g.got /\ B = Len(rcBuf) /\ O = Len(outq) OBVIOUS
    <2>2. G \in Nat /\ B \in Nat /\ O \in Nat /\ p \in (G + 1)..(G + B + O)
      BY <2>1, <1>1, <1>2, <1>3 DEF RLive
    <2>3. (p - G \in 1..B /\ G + (p - G) = p) \/ (p - G - B \in 1..O /\ G + B + (p - G - B) = p)
      BY <2>2
    <2>4. CASE p - G \in 1..B /\ G + (p - G) = p
      <3>1. rcBuf[p - G] = g.R[p] BY <2>1, <2>4, <1>3
      <3>2. g.R[p] \in Range_(rcBuf) BY <3>1, <2>1, <2>4 DEF Range_
      <3>3. QED BY <3>2 DEF RefsOut
    <2>5. CASE p - G - B \in 1..O /\ G + B + (p - G - B) = p
      <3>1. outq[p - G - B] = g.R[p] BY <2>1, <2>5, <1>3
      <3>2. g.R[p] \in Range_(outq) BY <3>1, <2>1, <2>5 DEF Range_
      <3>3. QED BY <3>2 DEF RefsOut
    <2>6. QED BY <2>3, <2>4, <2>5
  <1>5. \A p \in RqLive(g) : g.Q[p].Reference \in RefsOut
    <2> TAKE p \in RqLive(g)
    <2>1. PICK G, B, O : G = g.tk /\ B = Len(inbox) /\ O = Len(batch) OBVIOUS
    <2>2. G \in Nat /\ B \in Nat /\ O \in Nat /\ p \in (G + 1)..(G + B + O)
      BY <2>1, <1>1, <1>2, <1>3 DEF RqLive
    <2>3. (p - G \in 1..B /\ G + (p - G) = p) \/ (p - G - B \in 1..O /\ G + B + (p - G - B) = p)
      BY <2>2
    <2>4. CASE p - G \in 1..B /\ G + (p - G) = p
      <3>1. inbox[p - G] = g.Q[p] BY <2>1, <2>4, <1>3
      <3>2. g.Q[p] \in Range_(inbox) BY <3>1, <2>1, <2>4 DEF Range_
      <3>3. QED BY <3>2 DEF RefsOut
    <2>5. CASE p - G - B \in 1..O /\ G + B + (p - G - B) = p
      <3>1. batch[p - G - B] = g.Q[p] BY <2>1, <2>5, <1>3
      <3>2. g.Q[p] \in Range_(batch) BY <3>1, <2>1, <2>5 DEF Range_
      <3>3. QED BY <3>2 DEF RefsOut
    <2>6. QED BY <2>3, <2>4, <2>5
  <1>6. QED BY <1>4, <1>5

\* An ASSIGN with reference r is written, slot i goes to the assign list.
AssignStep(g, h, e, i, r, m) ==
    /\ Looping /\ e \in Entity /\ i \in Slot /\ i = head /\ e = tbl[head] /\ m \in REQ
    /\ g.st[e] = "asks" /\ ent[e].Id = 0 /\ ent[e].No = i
    /\ r \in Ref /\ r # 0 /\ r \notin RefsOut
    /\ m.Req = "ASSIGN" /\ m.ReqId = 0 /\ m.ReqCh = 0 /\ m.Reference = r
    /\ g.st \in [Entity -> Stage]
    /\ h.q = g.q /\ h.out = g.out + 1 /\ h.S = Append(g.S, i) /\ h.done = g.done
    /\ h.ans = g.ans /\ h.R = g.R /\ h.got = g.got
    /\ h.Q = Append(g.Q, m) /\ h.tk = g.tk /\ h.st = [g.st EXCEPT ![e] = "asked"]
    /\ h \in Ghost
    /\ \A f \in Entity : f # e => ent'[f] = ent[f]
    /\ ent'[e].Id = 0 /\ ent'[e].No = ent[e].No
    /\ UNCHANGED <<wait, fcPend, clFc, clSkip, tbl, IdTable, fcId, noCancel, rmPending,
                   trapped, pc, phase, irq, rcBuf, outq, inbox, cur, cardIds, held>>
    /\ batch' = Append(batch, m)
    /\ ref' = [ref EXCEPT ![i] = r]
    /\ next' = [next EXCEPT ![i] = assign]
    /\ assign' = i /\ NextReq
    /\ EntityAt(e, "asked")'

\* The messages, with the new one
LEMMA AssignViews ==
    ASSUME XdiAssumption, NEW g, Whole(g), NEW h, NEW e, NEW i, NEW r, NEW m,
           AssignStep(g, h, e, i, r, m)
    PROVE  /\ Pipes(h)' /\ SameItems(g, h) /\ Forms(h)
           /\ h.tk <= Len(h.Q) /\ RLive(h) = RLive(g)
           /\ \A d : d # 0 => SameMsgs(g, h, d)
           /\ \E n : /\ RqLive(h) = RqLive(g) \cup {n} /\ n \notin RqLive(g)
                     /\ h.Q[n] = m /\ \A k \in RqLive(g) : k < n
  <1>1. TypeOK /\ GhostType(g) /\ Pipes(g) /\ Forms(g) BY Parts
  <1>2. /\ m \in REQ /\ h.R = g.R /\ h.got = g.got /\ h.Q = Append(g.Q, m) /\ h.tk = g.tk
        /\ batch' = Append(batch, m) /\ UNCHANGED <<rcBuf, inbox, outq>>
        /\ m.ReqId = 0 /\ m.Req = "ASSIGN" /\ m.ReqCh = 0 /\ m.Reference # 0
    BY DEF AssignStep
  <1>3. PICK n : n = Len(g.Q) + 1 OBVIOUS
  <1>4. /\ Pipes(h)' /\ SameItems(g, h)
        /\ RqLive(h) = RqLive(g) \cup {n} /\ RLive(h) = RLive(g)
        /\ h.Q[n] = m /\ \A k \in RqLive(g) : k < n
        /\ n \notin RqLive(g) /\ h.Q \in Seq(REQ) /\ h.tk <= Len(h.Q)
    <2>1. /\ Pipes(h)' /\ SameItems(g, h)
          /\ RqLive(h) = RqLive(g) \cup {Len(g.Q) + 1} /\ RLive(h) = RLive(g)
          /\ h.Q[Len(g.Q) + 1] = m
          /\ \A k \in RqLive(g) : k < Len(g.Q) + 1
          /\ Len(g.Q) + 1 \notin RqLive(g)
          /\ h.Q \in Seq(REQ) /\ h.tk <= Len(h.Q)
      BY <1>1, <1>2, PutRq
    <2>2. QED BY <2>1, <1>3
  <1>5. \A d : d # 0 => SameMsgs(g, h, d)
    <2> TAKE d
    <2>1. h.Q[n].ReqId # d => SameMsgs(g, h, d) BY <1>4, FillView
    <2>2. QED BY <2>1, <1>2, <1>4
  <1>6. RqForm(m) BY <1>2 DEF RqForm
  <1>7. Forms(h) BY <1>1, <1>4, <1>6 DEF Forms, SameItems
  <1>8. QED BY <1>4, <1>5, <1>7

\* The list of the ASSIGNs, with the new one
LEMMA AssignList ==
    ASSUME XdiAssumption, NEW g, Whole(g), NEW h, NEW e, NEW i, NEW r, NEW m,
           AssignStep(g, h, e, i, r, m), NEW L, L = Len(g.S)
    PROVE  /\ L \in Nat /\ L + 1 \in SLive(h) /\ Len(h.S) = L + 1 /\ h.S[L + 1] = i
           /\ \A k \in SLive(g) : /\ k \in SLive(h) /\ k <= L /\ h.S[k] = g.S[k]
                                  /\ g.S[k] \in Slot /\ g.S[k] # i
                                  /\ ref'[g.S[k]] = ref[g.S[k]] /\ ref[g.S[k]] # r
                                  /\ next'[g.S[k]] = next[g.S[k]]
           /\ \A k \in SLive(h) : k = L + 1 \/ k \in SLive(g)
           /\ ref'[i] = r /\ next'[i] = assign
           /\ \A p \in RLive(g) : g.R[p].Reference # r
           /\ \A p \in RqLive(g) : g.Q[p].Reference # r
  <1>1. TypeOK /\ GhostType(g) /\ Pipes(g) /\ Assigns(g) /\ Refs(g) BY Parts
  <1>2. /\ i \in Slot /\ e \in Entity /\ e = tbl[i] /\ g.st[e] = "asks" /\ r \notin RefsOut
        /\ h.S = Append(g.S, i) /\ h.done = g.done
        /\ ref' = [ref EXCEPT ![i] = r] /\ next' = [next EXCEPT ![i] = assign]
    BY DEF AssignStep
  <1>3. /\ g.S \in Seq(Slot) /\ L \in Nat /\ g.done \in Nat /\ g.ans \in Nat
        /\ g.done <= g.ans /\ g.ans <= L
    BY <1>1, GhostParts
  <1>4. /\ Len(h.S) = L + 1 /\ h.S[L + 1] = i /\ \A k \in 1..L : h.S[k] = g.S[k]
    BY <1>2, <1>3
  <1>5. /\ L + 1 \in SLive(h) /\ \A k \in SLive(h) : k = L + 1 \/ k \in SLive(g)
        /\ \A k \in SLive(g) : k \in SLive(h) /\ k <= L /\ k \in 1..L
    <2>1. PICK D : D = g.done OBVIOUS
    <2>2. SLive(g) = (D + 1)..L /\ SLive(h) = (D + 1)..(L + 1) /\ D \in Nat /\ D <= L
      BY <2>1, <1>2, <1>3, <1>4 DEF SLive
    <2>3. QED BY <2>2, <1>3
  <1>6. \A p \in RLive(g) : g.R[p].Reference # r BY <1>1, <1>2, LiveRefs
  <1>7. \A p \in RqLive(g) : g.Q[p].Reference # r BY <1>1, <1>2, LiveRefs
  <1>8. ref \in [Slot -> Ref \cup {0}] /\ next \in [Slot -> 0..EMax] BY <1>1 DEF TypeOK
  <1>9. \A k \in SLive(g) : g.S[k] \in Slot /\ g.S[k] # i
    <2> TAKE k \in SLive(g)
    <2>1. g.S[k] \in Slot BY <1>3, <1>5
    <2>2. g.st[tbl[g.S[k]]] = "asked" BY <1>1 DEF Assigns
    <2>3. QED BY <2>1, <2>2, <1>2
  <1>10. \A k \in SLive(g) : ref[g.S[k]] # r
    <2> TAKE k \in SLive(g)
    <2>1. k \in (g.done + 1)..g.ans \/ k \in (g.ans + 1)..Len(g.S)
      <3>1. PICK D, A : D = g.done /\ A = g.ans OBVIOUS
      <3>2. k \in (D + 1)..L /\ D \in Nat /\ A \in Nat /\ L \in Nat BY <3>1, <1>3 DEF SLive
      <3>3. k \in (D + 1)..A \/ k \in (A + 1)..L BY <3>2
      <3>4. QED BY <3>1, <3>3
    <2>2. CASE k \in (g.done + 1)..g.ans BY <2>2, <1>1, <1>6 DEF Refs
    <2>3. CASE k \in (g.ans + 1)..Len(g.S) BY <2>3, <1>1, <1>7 DEF Refs
    <2>4. QED BY <2>1, <2>2, <2>3
  <1>11. /\ ref'[i] = r /\ next'[i] = assign
         /\ \A x \in Slot : x # i => ref'[x] = ref[x] /\ next'[x] = next[x]
    BY <1>2, <1>8
  <1>12. QED BY <1>3, <1>4, <1>5, <1>6, <1>7, <1>9, <1>10, <1>11

\* The assign list and its references
LEMMA AssignQueued ==
    ASSUME XdiAssumption, NEW g, Whole(g), NEW h, NEW e, NEW i, NEW r, NEW m,
           AssignStep(g, h, e, i, r, m)
    PROVE  Assigns(h)' /\ Refs(h)'
  <1>1. TypeOK /\ GhostType(g) /\ Assigns(g) /\ Refs(g) BY Parts
  <1>2. PICK L, D, A : L = Len(g.S) /\ D = g.done /\ A = g.ans OBVIOUS
  <1>3. /\ i \in Slot /\ e \in Entity /\ e = tbl[i] /\ g.st[e] = "asks" /\ ent[e].No = i
        /\ h.done = D /\ h.ans = A /\ assign' = i /\ r # 0
        /\ h.R = g.R /\ m.Reference = r /\ tbl' = tbl /\ cur' = cur
        /\ \A f \in Entity : f # e => ent'[f] = ent[f]
        /\ ent'[e].No = ent[e].No
    BY <1>2 DEF AssignStep
  <1>4. D \in Nat /\ A \in Nat /\ L \in Nat /\ D <= A /\ A <= L BY <1>1, <1>2, GhostParts
  <1>5. /\ L + 1 \in SLive(h) /\ Len(h.S) = L + 1 /\ h.S[L + 1] = i
        /\ \A k \in SLive(g) : /\ k \in SLive(h) /\ k <= L /\ h.S[k] = g.S[k]
                               /\ g.S[k] \in Slot /\ g.S[k] # i
                               /\ ref'[g.S[k]] = ref[g.S[k]] /\ ref[g.S[k]] # r
                               /\ next'[g.S[k]] = next[g.S[k]]
        /\ \A k \in SLive(h) : k = L + 1 \/ k \in SLive(g)
        /\ ref'[i] = r /\ next'[i] = assign
        /\ \A p \in RLive(g) : g.R[p].Reference # r
        /\ \A p \in RqLive(g) : g.Q[p].Reference # r
    BY <1>2, AssignList
  <1>6. SameItems(g, h) /\ RLive(h) = RLive(g) BY AssignViews
  <1>7. PICK n : /\ RqLive(h) = RqLive(g) \cup {n} /\ n \notin RqLive(g)
                 /\ h.Q[n] = m /\ \A k \in RqLive(g) : k < n
    BY AssignViews
  <1>8. SLive(g) = (D + 1)..L /\ SLive(h) = (D + 1)..(L + 1) BY <1>2, <1>3, <1>5 DEF SLive
  <1>9. h.st[e] = "asked" /\ \A f \in Entity : f # e => h.st[f] = g.st[f] BY DEF AssignStep
  <1>10. cur.i = 0 BY TakeHead DEF AssignStep
  <1>11. \A f \in Entity : ent'[f].No = ent[f].No BY <1>3
  <1>12. \A k \in SLive(g) : /\ tbl[g.S[k]] \in Entity /\ ent[tbl[g.S[k]]].No = g.S[k]
                             /\ ref[g.S[k]] # 0 /\ g.st[tbl[g.S[k]]] = "asked"
    <2>1. \A k \in SLive(g) : /\ tbl[g.S[k]] # Null /\ ent[tbl[g.S[k]]].No = g.S[k]
                             /\ ref[g.S[k]] # 0 /\ g.st[tbl[g.S[k]]] = "asked"
      BY <1>1 DEF Assigns
    <2>2. \A j \in Slot : tbl[j] # Null => tbl[j] \in Entity BY <1>1 DEF TypeOK
    <2>3. QED BY <2>1, <2>2, <1>5
  <1>13. Assigns(h)'
    <2>1. assign' = h.S[Len(h.S)] BY <1>3, <1>5
    <2>2. \A k \in SLive(h) : k - 1 \in SLive(h) => next'[h.S[k]] = h.S[k - 1]
      <3> TAKE k \in SLive(h)
      <3> HAVE k - 1 \in SLive(h)
      <3>1. CASE k = L + 1
        <4>1. k - 1 = L /\ L \in SLive(g) BY <3>1, <1>4, <1>8
        <4>2. D # L BY <4>1, <1>4, <1>8
        <4>3. assign = g.S[L] BY <4>2, <1>1, <1>2 DEF Assigns
        <4>4. QED BY <3>1, <4>1, <4>3, <1>5
      <3>2. CASE k \in SLive(g)
        <4>1. k - 1 \in SLive(g) BY <3>2, <1>4, <1>8
        <4>2. next[g.S[k]] = g.S[k - 1] BY <3>2, <4>1, <1>1 DEF Assigns
        <4>3. QED BY <3>2, <4>1, <4>2, <1>5
      <3>3. QED BY <3>1, <3>2, <1>5
    <2>3. \A j, k \in SLive(h) : ref'[h.S[j]] = ref'[h.S[k]] => j = k
      <3> TAKE j, k \in SLive(h)
      <3> HAVE ref'[h.S[j]] = ref'[h.S[k]]
      <3>1. CASE j \in SLive(g) /\ k \in SLive(g) BY <3>1, <1>1, <1>5 DEF Assigns
      <3>2. CASE j = L + 1 /\ k = L + 1 BY <3>2
      <3>3. CASE j = L + 1 /\ k \in SLive(g) BY <3>3, <1>5
      <3>4. CASE k = L + 1 /\ j \in SLive(g)
        <4>1. ref'[h.S[k]] = r BY <3>4, <1>5
        <4>2. h.S[j] = g.S[j] /\ ref'[g.S[j]] = ref[g.S[j]] /\ ref[g.S[j]] # r BY <3>4, <1>5
        <4>3. QED BY <4>1, <4>2
      <3>5. QED BY <3>1, <3>2, <3>3, <3>4, <1>5
    <2>4. \A k \in SLive(h) : 
          /\ tbl'[h.S[k]] # Null /\ ent'[tbl'[h.S[k]]].No = h.S[k] /\ ref'[h.S[k]] # 0
          /\ h.st[tbl'[h.S[k]]] = "asked"
          /\ cur'.i # h.S[k]
      <3> TAKE k \in SLive(h)
      <3>0. Null \notin Entity /\ 0 \notin Slot BY DEF XdiAssumption, Slot
      <3>1. CASE k = L + 1 BY <3>0, <3>1, <1>3, <1>5, <1>9, <1>10, <1>11
      <3>2. CASE k \in SLive(g)
        <4>1. tbl[g.S[k]] # e BY <3>2, <1>3, <1>12
        <4>2. QED BY <3>0, <3>2, <4>1, <1>3, <1>5, <1>9, <1>10, <1>11, <1>12
      <3>3. QED BY <3>1, <3>2, <1>5
    <2>5. \A f \in Entity : h.st[f] = "asked" => \E k \in SLive(h) : h.S[k] = ent'[f].No
      <3> TAKE f \in Entity
      <3> HAVE h.st[f] = "asked"
      <3>1. CASE f = e BY <3>1, <1>3, <1>5, <1>11
      <3>2. CASE f # e
        <4>1. PICK k \in SLive(g) : g.S[k] = ent[f].No BY <3>2, <1>1, <1>9 DEF Assigns
        <4>2. QED BY <4>1, <1>5, <1>11
      <3>3. QED BY <3>1, <3>2
    <2>6. QED BY <2>1, <2>2, <2>3, <2>4, <2>5 DEF Assigns
  <1>14. /\ \A k \in (D + 1)..A : k \in SLive(g)
         /\ \A k \in (A + 1)..L : k \in SLive(g)
         /\ \A k \in (A + 1)..(L + 1) : k = L + 1 \/ (k \in (A + 1)..L /\ k < L + 1)
         /\ L + 1 \in (A + 1)..(L + 1)
         /\ \A k \in (A + 1)..L : k \in (A + 1)..(L + 1)
    <2>1. /\ \A k \in (D + 1)..A : k \in (D + 1)..L
          /\ \A k \in (A + 1)..L : k \in (D + 1)..L
          /\ \A k \in (A + 1)..(L + 1) : k = L + 1 \/ (k \in (A + 1)..L /\ k < L + 1)
          /\ L + 1 \in (A + 1)..(L + 1)
          /\ \A k \in (A + 1)..L : k \in (A + 1)..(L + 1)
      BY <1>4
    <2>2. QED BY <2>1, <1>8
  <1>15. /\ \A k \in RqLive(g) : k \in RqLive(h) /\ h.Q[k] = g.Q[k]
         /\ \A k \in RqLive(h) : k = n \/ k \in RqLive(g)
         /\ n \in RqLive(h) /\ h.Q[n].Reference = r
    BY <1>3, <1>6, <1>7 DEF SameItems
  <1>16. \A k \in SLive(g) : ref'[h.S[k]] = ref[g.S[k]] /\ ref'[h.S[k]] # r BY <1>5
  <1>17. Refs(h)'
    <2>1. \A k \in (D + 1)..A : \E p \in RLive(h) : h.R[p].Reference = ref'[h.S[k]]
      BY <1>1, <1>2, <1>3, <1>6, <1>14, <1>16 DEF Refs
    <2>2. \A k \in (A + 1)..(L + 1) : \E p \in RqLive(h) : h.Q[p].Reference = ref'[h.S[k]]
      <3> TAKE k \in (A + 1)..(L + 1)
      <3>1. CASE k = L + 1 BY <3>1, <1>5, <1>15
      <3>2. CASE k \in (A + 1)..L
        <4>1. PICK p \in RqLive(g) : g.Q[p].Reference = ref[g.S[k]]
          BY <3>2, <1>1, <1>2 DEF Refs
        <4>2. QED BY <3>2, <4>1, <1>14, <1>15, <1>16
      <3>3. QED BY <3>1, <3>2, <1>14
    <2>3. \A p \in RLive(h) : h.R[p].Reference # 0 =>
           \E k \in (D + 1)..A : h.R[p].Reference = ref'[h.S[k]]
      <3> TAKE p \in RLive(h)
      <3> HAVE h.R[p].Reference # 0
      <3>1. PICK k \in (D + 1)..A : g.R[p].Reference = ref[g.S[k]]
        BY <1>1, <1>2, <1>3, <1>6 DEF Refs
      <3>2. QED BY <3>1, <1>3, <1>14, <1>16
    <2>4. \A p \in RqLive(h) : h.Q[p].Reference # 0 =>
           \E k \in (A + 1)..(L + 1) : h.Q[p].Reference = ref'[h.S[k]]
      <3> TAKE p \in RqLive(h)
      <3> HAVE h.Q[p].Reference # 0
      <3>1. CASE p = n BY <3>1, <1>5, <1>14, <1>15
      <3>2. CASE p \in RqLive(g)
        <4>1. PICK k \in (A + 1)..L : g.Q[p].Reference = ref[g.S[k]]
          BY <3>2, <1>1, <1>2, <1>15 DEF Refs
        <4>2. QED BY <3>2, <4>1, <1>14, <1>15, <1>16
      <3>3. QED BY <3>1, <3>2, <1>15
    <2>5. \A p, q \in RLive(h), j, k \in (D + 1)..A : 
          h.R[p].Reference = ref'[h.S[j]] /\ h.R[q].Reference = ref'[h.S[k]] /\ p < q => j < k
      <3> TAKE p, q \in RLive(h), j, k \in (D + 1)..A
      <3> HAVE h.R[p].Reference = ref'[h.S[j]] /\ h.R[q].Reference = ref'[h.S[k]] /\ p < q
      <3>1. g.R[p].Reference = ref[g.S[j]] /\ g.R[q].Reference = ref[g.S[k]]
        BY <1>3, <1>14, <1>16
      <3>2. QED BY <3>1, <1>1, <1>2, <1>6 DEF Refs
    <2>6. \A p, q \in RqLive(h), j, k \in (A + 1)..(L + 1) : 
          h.Q[p].Reference = ref'[h.S[j]] /\ h.Q[q].Reference = ref'[h.S[k]] /\ p < q => j < k
      <3> TAKE p, q \in RqLive(h), j, k \in (A + 1)..(L + 1)
      <3> HAVE h.Q[p].Reference = ref'[h.S[j]] /\ h.Q[q].Reference = ref'[h.S[k]] /\ p < q
      <3>0. n \in Int /\ p \in Int /\ q \in Int /\ L + 1 \in Int
        <4>1. h \in Ghost BY DEF AssignStep
        <4>2. h.tk + 1 \in Int /\ Len(h.Q) \in Int BY <4>1 DEF Ghost
        <4>3. QED BY <4>2, <1>4, <1>15 DEF RqLive
      <3>1. p # n
        <4>1. q = n \/ q < n BY <1>7, <1>15
        <4>2. QED BY <3>0, <4>1
      <3>2. p \in RqLive(g) /\ h.Q[p].Reference # r /\ h.Q[p] = g.Q[p] BY <3>1, <1>5, <1>15
      <3>3. j # L + 1 BY <3>2, <1>5
      <3>4. j \in (A + 1)..L /\ j < L + 1 BY <3>3, <1>14
      <3>5. CASE k = L + 1 BY <3>4, <3>5
      <3>6. CASE k # L + 1
        <4>1. k \in (A + 1)..L BY <3>6, <1>14
        <4>2. h.Q[q].Reference # r BY <4>1, <1>14, <1>16
        <4>3. q \in RqLive(g) /\ h.Q[q] = g.Q[q] BY <4>2, <1>15
        <4>4. g.Q[p].Reference = ref[g.S[j]] /\ g.Q[q].Reference = ref[g.S[k]]
          BY <3>2, <3>4, <4>1, <4>3, <1>14, <1>16
        <4>5. QED BY <3>2, <3>4, <4>1, <4>3, <4>4, <1>1, <1>2 DEF Refs
      <3>7. QED BY <3>5, <3>6
    <2>7. h.done = D /\ h.ans = A /\ Len(h.S) = L + 1 BY <1>3, <1>5
    <2>8. QED BY <2>1, <2>2, <2>3, <2>4, <2>5, <2>6, <2>7, Zenon DEF Refs
  <1>18. QED BY <1>13, <1>17

\* The Ids and the held channels
LEMMA AssignIds ==
    ASSUME XdiAssumption, NEW g, Whole(g), NEW h, NEW e, NEW i, NEW r, NEW m,
           AssignStep(g, h, e, i, r, m)
    PROVE  /\ \A d \in Ids : IdAt(h, d)'
           /\ \A c \in Chan, d \in Ids : <<c, d>> \in held' => HoldAt(h, c, d)'
  <1>1. TypeOK /\ GhostType(g) /\ Assigns(g) /\ 0 \notin Ids BY Parts DEF XdiAssumption
  <1>2. /\ e \in Entity /\ g.st[e] = "asks" /\ ent[e].Id = 0 /\ e = tbl[i]
        /\ \A f \in Entity : f # e => ent'[f] = ent[f]
        /\ ent'[e].Id = 0 /\ m.Reference = r /\ m.ReqId = 0
        /\ UNCHANGED <<tbl, cardIds, held>>
    BY DEF AssignStep
  <1>3. h.st[e] = "asked" /\ \A f \in Entity : f # e => h.st[f] = g.st[f] BY DEF AssignStep
  <1>4. \A f \in Entity : ent'[f].Id = ent[f].Id BY <1>2
  <1>5. \A d : Unowned(d)' <=> Unowned(d) BY <1>4 DEF Unowned
  <1>6. \A f \in Entity : Removing(h, f)' <=> Removing(g, f) BY <1>2, <1>3 DEF Removing
  <1>7. SameItems(g, h) /\ RLive(h) = RLive(g) /\ \A d : d # 0 => SameMsgs(g, h, d)
    BY AssignViews
  <1>8. PICK n : /\ RqLive(h) = RqLive(g) \cup {n} /\ n \notin RqLive(g)
                 /\ h.Q[n] = m /\ \A k \in RqLive(g) : k < n
    BY AssignViews
  <1>9. \A d \in Ids : IdAt(h, d)'
    <2> TAKE d \in Ids
    <2>1. IdAt(g, d) BY Parts
    <2>2. SameMsgs(g, h, d) BY <1>1, <1>7
    <2>3. QED BY <2>1, <2>2, <1>2, <1>4, <1>5, <1>6, <1>7, IdFrame
  <1>10. PICK L : L = Len(g.S) OBVIOUS
  <1>11. /\ L + 1 \in SLive(h) /\ h.S[L + 1] = i /\ ref'[i] = r
         /\ \A k \in SLive(g) : h.S[k] = g.S[k] /\ ref'[g.S[k]] = ref[g.S[k]]
         /\ \A k \in SLive(h) : k = L + 1 \/ k \in SLive(g)
    BY <1>10, AssignList
  <1>12. \A c \in Chan, d \in Ids : <<c, d>> \in held' => HoldAt(h, c, d)'
    <2> TAKE c \in Chan, d \in Ids
    <2> HAVE <<c, d>> \in held'
    <2>1. HoldAt(g, c, d) BY <1>2, Parts
    <2>2. PICK o : o = Owner[c] OBVIOUS
    <2>3. o \in Entity BY <2>2 DEF XdiAssumption
    <2>4. SameMsgs(g, h, d) BY <1>1, <1>7
    <2>5. Sent(h, d) = Sent(g, d) BY <2>4 DEF SameMsgs
    <2>6. c \in Chan /\ d \in cardIds' BY <2>1, <1>2 DEF HoldAt
    <2>7. CASE ent[o].Id = d /\ (Removing(g, o) => Sent(g, d) # {})
      <3>1. ent'[o].Id = d /\ (Removing(h, o)' => Sent(h, d) # {}) BY <2>3, <2>5, <2>7, <1>4, <1>6
      <3>2. QED BY <3>1, <2>2, <2>6 DEF HoldAt
    <2>8. CASE /\ Unowned(d) /\ ent[o].Id = 0
               /\ \E p \in Sent(g, d) : \A k \in SLive(g) : tbl[g.S[k]] = o =>
                    \E q \in RqLive(g) : q > p /\ g.Q[q].Reference = ref[g.S[k]]
      <3>1. PICK p \in Sent(g, d) : \A k \in SLive(g) : tbl[g.S[k]] = o =>
                    \E q \in RqLive(g) : q > p /\ g.Q[q].Reference = ref[g.S[k]]
        BY <2>8
      <3>2. p \in RqLive(g) /\ p < n BY <1>8 DEF Sent
      <3>3. n \in RqLive(h) /\ h.Q[n].Reference = r /\ n > p
        <4>1. p \in Int /\ n \in Int
          <5>1. h \in Ghost BY DEF AssignStep
          <5>2. h.tk + 1 \in Int /\ Len(h.Q) \in Int BY <5>1 DEF Ghost
          <5>3. n \in RqLive(h) /\ p \in RqLive(h) BY <3>2, <1>8
          <5>4. QED BY <5>2, <5>3 DEF RqLive
        <4>2. QED BY <4>1, <3>2, <1>2, <1>8
      <3>4. \A k \in SLive(h) : tbl'[h.S[k]] = o =>
               \E q \in RqLive(h) : q > p /\ h.Q[q].Reference = ref'[h.S[k]]
        <4> TAKE k \in SLive(h)
        <4> HAVE tbl'[h.S[k]] = o
        <4>1. CASE k = L + 1 BY <4>1, <3>3, <1>11
        <4>2. CASE k \in SLive(g)
          <5>1. PICK q \in RqLive(g) : q > p /\ g.Q[q].Reference = ref[g.S[k]]
            BY <4>2, <3>1, <1>2, <1>11
          <5>2. h.Q[q] = g.Q[q] /\ q \in RqLive(h) BY <5>1, <1>7, <1>8 DEF SameItems
          <5>3. QED BY <5>1, <5>2, <4>2, <1>11
        <4>3. QED BY <4>1, <4>2, <1>11
      <3>5. Unowned(d)' /\ ent'[o].Id = 0 /\ p \in Sent(h, d) BY <2>3, <2>5, <2>8, <1>4, <1>5
      <3>6. QED BY <3>4, <3>5, <2>2, <2>6 DEF HoldAt
    <2>9. QED BY <2>1, <2>2, <2>7, <2>8 DEF HoldAt
  <1>13. QED BY <1>9, <1>12

\* An ASSIGN is written into a buffer.
LEMMA AssignStepKeeps ==
    ASSUME XdiAssumption, NEW g, Whole(g), TypeOK', NEW h, NEW e, NEW i, NEW r, NEW m,
           AssignStep(g, h, e, i, r, m)
    PROVE  Whole(h)'
  <1>1. /\ TypeOK /\ Ctl /\ IdTableSound /\ NoTrap /\ GhostType(g)
        /\ Pending(g) /\ Flows(g) /\ held \subseteq Chan \X Ids
    BY Parts
  <1>2. /\ e \in Entity /\ g.st[e] = "asks" /\ ent[e].Id = 0 /\ Looping /\ e = tbl[head]
        /\ \A f \in Entity : f # e => ent'[f] = ent[f]
        /\ ent'[e].Id = 0 /\ ent'[e].No = ent[e].No
        /\ UNCHANGED <<wait, fcPend, clFc, clSkip, tbl, IdTable, fcId, noCancel, rmPending,
                   trapped, pc, phase, irq, rcBuf, outq, inbox, cur, cardIds, held>>
        /\ EntityAt(e, "asked")'
    BY DEF AssignStep
  <1>3. h.st[e] = "asked" /\ \A f \in Entity : f # e => h.st[f] = g.st[f] BY DEF AssignStep
  <1>4. \A f \in Entity : ent'[f].Id = ent[f].Id /\ ent'[f].No = ent[f].No BY <1>2
  <1>5. \A j \in Slot : tbl[j] # Null => tbl[j] \in Entity BY <1>1 DEF TypeOK
  <1>6. NoTrap' BY <1>1, <1>2 DEF NoTrap
  <1>7. Ctl' BY <1>1, <1>2, <1>4, <1>5 DEF Ctl
  <1>8. IdTableSound'
    <2>1. \A x \in Ids : IdTable[x] # 0 => tbl[IdTable[x]] \in Entity
      <3>0. EMax \in Nat /\ \A x \in Ids : IdTable[x] \in 0..EMax
        BY <1>1 DEF TypeOK, XdiAssumption
      <3>1. \A x \in Ids : IdTable[x] # 0 => IdTable[x] \in Slot BY <3>0 DEF Slot
      <3>2. QED BY <3>1, <1>1, <1>5 DEF IdTableSound
    <2>2. QED BY <1>1, <1>2, <1>4, <1>5, <2>1 DEF IdTableSound
  <1>9. \A f \in Entity : EntityAt(f, h.st[f])'
    <2> TAKE f \in Entity
    <2>1. CASE f = e BY <2>1, <1>2, <1>3
    <2>2. CASE f # e
      <3>1. EntityAt(f, g.st[f]) BY Parts
      <3>2. ent'[f] = ent[f] /\ wait'[f] = wait[f] BY <2>2, <1>2
      <3>3. (HasSlot(f) => HasSlot(f)') /\ (NoSlot(f) => NoSlot(f)')
        BY <3>2, <1>2 DEF HasSlot, NoSlot
      <3>4. EntityAt(f, g.st[f])' BY <3>1, <3>2, <3>3, EntityFrame
      <3>5. QED BY <3>4, <2>2, <1>3
    <2>3. QED BY <2>1, <2>2
  <1>10. Queue(h)'
    <2>1. \A x \in Slot : x # head => next'[x] = next[x] BY <1>1 DEF AssignStep, TypeOK
    <2>2. h.q = g.q /\ h.out = g.out + 1 /\ NextReq BY DEF AssignStep
    <2>3. QED BY <2>1, <2>2, <1>2, <1>3, <1>4, PopQueue
  <1>11. SameItems(g, h) /\ Pipes(h)' /\ Forms(h) /\ h.tk <= Len(h.Q)
         /\ \A d : d # 0 => SameMsgs(g, h, d)
    BY AssignViews
  <1>12. \A f \in Entity : Msgs(h, f)'
    <2> TAKE f \in Entity
    <2>1. CASE f = e BY <2>1, <1>2 DEF Msgs
    <2>2. CASE f # e
      <3>1. CASE ent[f].Id = 0 BY <2>2, <3>1, <1>4 DEF Msgs
      <3>2. CASE ent[f].Id # 0
        <4>1. SameMsgs(g, h, ent[f].Id) BY <3>2, <1>11
        <4>2. SameEnt(g, h, f) BY <2>2, <1>2, <1>3 DEF SameEnt
        <4>3. Msgs(g, f) BY Parts
        <4>4. QED BY <4>1, <4>2, <4>3, <1>11, MsgsFrame
      <3>3. QED BY <3>1, <3>2
    <2>3. QED BY <2>1, <2>2
  <1>13. Pending(h)'
    <2>0. PICK Rem : Rem = {f \in Entity : Removing(g, f)} OBVIOUS
    <2>1. \A f \in Entity : f \in Rem <=> Removing(g, f) BY <2>0
    <2>2. \A f \in Entity : f \in Rem <=> Removing(h, f)'
      BY <2>1, <1>2, <1>3 DEF Removing
    <2>3. \A j \in Slot : j \in rmPending <=>
            (tbl[j] # Null /\ ent[tbl[j]].No = j /\ tbl[j] \in Rem)
      BY <2>0, <2>1, <1>1, <1>5 DEF Pending, XdiAssumption
    <2>4. \A j \in Slot : tbl[j] # Null =>
            (ent'[tbl[j]].No = ent[tbl[j]].No /\ (tbl[j] \in Rem <=> Removing(h, tbl[j])'))
      BY <2>2, <1>4, <1>5, <1>2 DEF Removing
    <2>5. \A j \in Slot : (j \in rmPending <=>
            (tbl[j] # Null /\ ent[tbl[j]].No = j /\ Removing(h, tbl[j])))'
      BY <2>3, <2>4, <1>2
    <2>6. QED BY <2>5 DEF Pending
  <1>14. Flows(h)'
    <2>1. \A c \in Chan : Owner[c] \in Entity BY DEF XdiAssumption
    <2>2. \A c \in Chan : ent'[Owner[c]].Id # 0 => Flow(h, c)'
      <3> TAKE c \in Chan
      <3> HAVE ent'[Owner[c]].Id # 0
      <3>1. PICK o, d : o = Owner[c] /\ d = ent[o].Id OBVIOUS
      <3>2. o \in Entity /\ d # 0 /\ o # e BY <3>1, <2>1, <1>2, <1>4
      <3>3. Flow(g, c) BY <3>1, <3>2, <1>1 DEF Flows
      <3>4. SameLabs(g, h, c, d) BY <3>2, <1>11, LabsFrame
      <3>5. ent'[o] = ent[o] BY <3>2, <1>2
      <3>6. QED BY <3>1, <3>3, <3>4, <3>5, <1>2, FlowFrame
    <2>3. QED BY <2>1, <2>2, <1>1, <1>2, <1>4 DEF Flows
  <1>15. GhostType(h)
    <2>1. PICK L : L = Len(g.S) OBVIOUS
    <2>2. L \in Nat /\ Len(h.S) = L + 1 BY <2>1, AssignList
    <2>3. h.out <= Len(h.q) BY <1>2, TakeHead DEF AssignStep
    <2>4. h \in Ghost /\ h.done = g.done /\ h.ans = g.ans /\ h.R = g.R /\ h.got = g.got
      BY DEF AssignStep
    <2>5. g.ans <= L /\ g.ans \in Nat /\ g.done <= g.ans /\ g.got <= Len(g.R)
      BY <2>1, <1>1, GhostParts
    <2>6. h.ans <= Len(h.S) BY <2>2, <2>4, <2>5
    <2>7. QED BY <2>3, <2>4, <2>5, <2>6, <1>11 DEF GhostType
  <1>16. Inv(h)'
    <2>1. Assigns(h)' /\ Refs(h)' BY AssignQueued
    <2>2. /\ \A d \in Ids : IdAt(h, d)'
          /\ \A c \in Chan, d \in Ids : <<c, d>> \in held' => HoldAt(h, c, d)'
      BY AssignIds
    <2>3. held' \subseteq Chan \X Ids BY <1>1, <1>2
    <2>4. QED BY <2>1, <2>2, <2>3, <1>9, <1>10, <1>11, <1>12, <1>13, <1>14, <1>15 DEF Inv
  <1>17. QED BY <1>6, <1>7, <1>8, <1>16 DEF Whole

\* look_req() on an ASSIGN, which moves its slot from the queue to the assign
\* list, keeps the invariant.
LEMMA AssignOutKeeps ==
    ASSUME XdiAssumption, NEW g, Whole(g), TypeOK', OutAssign
    PROVE  \E h : Whole(h)'
  <1>1. Looping /\ NextReq BY DEF OutAssign
  <1>2. TypeOK /\ GhostType(g) BY Parts
  <1>3. PICK e \in Entity, r \in Ref :
          /\ e = tbl[head] /\ ent[e].Id = 0 /\ FreshRef(r)
          /\ ent' = [ent EXCEPT ![e] = AssignSent(ent[e])]
          /\ Fill([Req |-> "ASSIGN", ReqId |-> 0, ReqCh |-> ent[e].ReqCh,
                   Reference |-> r, NLType |-> e \in NL])
          /\ assign_queue(ent[e].No, r)
    BY DEF OutAssign
  <1>4. /\ head \in Slot /\ ent[e].No = head /\ g.st[e] \in {"asks", "queued"}
        /\ g.out + 1 \in Nat
    BY <1>1, <1>3, TakeHead
  <1>5. g.st[e] = "asks" BY <1>3, <1>4, StageOf
  <1>6. /\ ent[e].ReqCh = 0 /\ ent[e].Req = "ASSIGN" /\ ent[e].XBUSY /\ ent[e].XMOREC = 0
        /\ wait[e] /\ HasSlot(e)
    BY <1>5, Parts DEF EntityAt
  <1>7. PICK m : m = [Req |-> "ASSIGN", ReqId |-> 0, ReqCh |-> ent[e].ReqCh,
                   Reference |-> r, NLType |-> e \in NL]
    OBVIOUS
  <1>8. r # 0 /\ r \notin RefsOut BY <1>3 DEF Ref, FreshRef
  <1>9. /\ m.Req = "ASSIGN" /\ m.ReqId = 0 /\ m.ReqCh = 0 /\ m.Reference = r /\ m \in REQ
    <2>1. (e \in NL) \in BOOLEAN OBVIOUS
    <2>2. r \in Ref \cup {0} OBVIOUS
    <2>3. QED BY <2>1, <2>2, <1>6, <1>7 DEF REQ, ReqCode, ChanNo
  <1>10. batch' = Append(batch, m) BY <1>3, <1>7 DEF Fill
  <1>11. UNCHANGED <<wait, fcPend, clFc, clSkip, tbl, IdTable, fcId, noCancel, rmPending,
                   trapped, pc, phase, irq, rcBuf, outq, inbox, cur, cardIds, held>>
    BY <1>3 DEF OutAssign, Fill, clientVars, ramVars, cardVars
  <1>12. /\ ref' = [ref EXCEPT ![head] = r] /\ next' = [next EXCEPT ![head] = assign]
         /\ assign' = head
    BY <1>3, <1>4 DEF assign_queue
  <1>13. ent \in [Entity -> ENTITY] BY <1>2 DEF TypeOK
  <1>14. /\ ent'[e].XMOREC = 0 /\ ent'[e].Id = 0 /\ ent'[e].No = ent[e].No
         /\ ent'[e].Req = "ASSIGN" /\ ent'[e].ReqCh = 0
         /\ ent'[e].XBUSY /\ ~ent'[e].XMOREP
         /\ \A f \in Entity : f # e => ent'[f] = ent[f]
    <2>1. ent'[e] = [ent[e] EXCEPT !.XNum = 0, !.XMOREF = TRUE, !.XMOREP = FALSE]
      BY <1>3, <1>13 DEF AssignSent
    <2>2. \A f \in Entity : f # e => ent'[f] = ent[f] BY <1>3, <1>13
    <2>3. ent[e] \in ENTITY BY <1>13
    <2>4. QED BY <2>1, <2>2, <2>3, <1>3, <1>6 DEF ENTITY
  <1>15. EntityAt(e, "asked")'
    <2>1. HasSlot(e)' BY <1>6, <1>11, <1>14 DEF HasSlot
    <2>2. wait'[e] BY <1>6, <1>11
    <2>3. QED BY <2>1, <2>2, <1>14 DEF EntityAt
  <1>16. PICK i : i = head OBVIOUS
  <1>17. PICK h : h = Mk(g.q, g.out + 1, Append(g.S, i), g.done, g.ans, g.R, g.got,
                         Append(g.Q, m), g.tk, [g.st EXCEPT ![e] = "asked"])
    OBVIOUS
  <1>18. g.st \in [Entity -> Stage] /\ "asked" \in Stage BY <1>2, GhostParts DEF Stage
  <1>19. /\ h.q = g.q /\ h.out = g.out + 1 /\ h.S = Append(g.S, i) /\ h.done = g.done
         /\ h.ans = g.ans /\ h.R = g.R /\ h.got = g.got /\ h.Q = Append(g.Q, m) /\ h.tk = g.tk
         /\ h.st = [g.st EXCEPT ![e] = "asked"] /\ h \in Ghost
    <2>1. PICK st : st = [g.st EXCEPT ![e] = "asked"] OBVIOUS
    <2>2. PICK u : u = Append(g.Q, m) OBVIOUS
    <2>3. PICK o : o = g.out + 1 OBVIOUS
    <2>4. PICK v : v = Append(g.S, i) OBVIOUS
    <2>5. h = Mk(g.q, o, v, g.done, g.ans, g.R, g.got, u, g.tk, st)
      BY <2>1, <2>2, <2>3, <2>4, <1>17
    <2>6. /\ g.q \in Seq(Slot) /\ o \in Nat /\ v \in Seq(Slot) /\ g.done \in Nat
          /\ g.ans \in Nat /\ g.R \in Seq(RC) /\ g.got \in Nat /\ u \in Seq(REQ)
          /\ g.tk \in Nat /\ st \in [Entity -> Stage]
      BY <1>2, <1>4, <1>9, <1>16, <1>18, <2>1, <2>2, <2>3, <2>4, GhostParts
    <2>7. /\ h.q = g.q /\ h.out = o /\ h.S = v /\ h.done = g.done /\ h.ans = g.ans
          /\ h.R = g.R /\ h.got = g.got /\ h.Q = u /\ h.tk = g.tk /\ h.st = st
      BY <2>5 DEF Mk
    <2>8. h \in Ghost BY <2>5, <2>6 DEF Mk, Ghost
    <2>9. QED BY <2>1, <2>2, <2>3, <2>4, <2>7, <2>8
  <1>20. AssignStep(g, h, e, i, r, m)
    BY <1>1, <1>3, <1>4, <1>5, <1>8, <1>9, <1>10, <1>11, <1>12, <1>14, <1>15, <1>16, <1>18, <1>19
       DEF AssignStep
  <1>21. QED BY <1>20, AssignStepKeeps

=============================================================================
