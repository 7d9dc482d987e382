--------------------------- MODULE XdiReqAnswers ----------------------------
(*****************************************************************************)
(* The card keeps the invariant over the histories of XdiReqProofs too       *)
(* (kernel/io.c, kernel/di.c), and from it follow AnswersFound, QueueSound,  *)
(* AnswersHonest and the refinement of ReqFifo.                              *)
(*****************************************************************************)
EXTENDS XdiReqSteps

-----------------------------------------------------------------------------
(* The card *)

\* What no step of the card changes
CardSame(g, h) ==
    /\ h.q = g.q /\ h.out = g.out /\ h.S = g.S /\ h.done = g.done /\ h.st = g.st
    /\ UNCHANGED <<wait, fcPend, clFc, clSkip, ent, tbl, next, ref, head, tail, assign,
                   IdTable, fcId, rmPending, noCancel, trapped, pc, phase, cur, rcBuf, irq,
                   batch>>

\* What no step of the card touches.
LEMMA CardFrames ==
    ASSUME CardFrame, UNCHANGED <<rcBuf, irq>>
    PROVE  UNCHANGED <<wait, fcPend, clFc, clSkip, ent, tbl, next, ref, head, tail, assign,
                   IdTable, fcId, rmPending, noCancel, trapped, pc, phase, cur, rcBuf, irq,
                   batch>>
  BY DEF CardFrame, clientVars, tblVars, queueVars, idVars, outVars

\* What a step of the card has to keep
LEMMA CardKeeps ==
    ASSUME NEW g, Whole(g), TypeOK', NEW h, CardSame(g, h), GhostType(h),
           Pipes(h)', Forms(h), Refs(h)', \A d \in Ids : IdAt(h, d)',
           \A c \in Chan, d \in Ids : <<c, d>> \in held' => HoldAt(h, c, d)',
           held' \subseteq Chan \X Ids, \A e \in Entity : Msgs(h, e)',
           \A c \in Chan : ent[Owner[c]].Id # 0 => Flow(h, c)'
    PROVE  Whole(h)'
  <1>1. /\ TypeOK /\ Ctl /\ IdTableSound /\ NoTrap /\ GhostType(g)
        /\ Queue(g) /\ Assigns(g) /\ Pending(g) /\ Flows(g)
    BY Parts
  <1>2. UNCHANGED <<wait, fcPend, clFc, clSkip, ent, tbl, next, ref, head, tail, assign,
                   IdTable, fcId, rmPending, noCancel, trapped, pc, phase, cur, rcBuf, irq,
                   batch>>
    BY DEF CardSame
  <1>3. h.q = g.q /\ h.out = g.out /\ h.S = g.S /\ h.done = g.done /\ h.st = g.st
    BY DEF CardSame
  <1>4. NoTrap' BY <1>1, <1>2 DEF NoTrap
  <1>5. Ctl' BY <1>1, <1>2 DEF Ctl
  <1>6. IdTableSound' BY <1>1, <1>2 DEF IdTableSound
  <1>7. \A f \in Entity : EntityAt(f, h.st[f])'
    <2> TAKE f \in Entity
    <2>1. EntityAt(f, g.st[f]) BY Parts
    <2>2. (HasSlot(f) => HasSlot(f)') /\ (NoSlot(f) => NoSlot(f)')
      BY <1>2 DEF HasSlot, NoSlot
    <2>3. EntityAt(f, g.st[f])' BY <2>1, <2>2, <1>2, EntityFrame
    <2>4. QED BY <2>3, <1>3
  <1>8. Queue(h)'
    <2>1. \A k \in QLive(g) : cur'.i # g.q[k] \/ cur'.ok BY <1>1, <1>2 DEF Queue
    <2>2. QED BY <2>1, <1>1, <1>2, <1>3, QueueFrame
  <1>9. Assigns(h)'
    <2>1. \A k \in SLive(g) : cur'.i # g.S[k] BY <1>1, <1>2 DEF Assigns
    <2>2. QED BY <2>1, <1>1, <1>2, <1>3, AssignsFrame
  <1>10. Pending(h)'
    <2>1. \A f : Removing(h, f)' <=> Removing(g, f) BY <1>2, <1>3 DEF Removing
    <2>2. \A i \in Slot : (i \in rmPending <=>
              (tbl[i] # Null /\ ent[tbl[i]].No = i /\ Removing(h, tbl[i])))'
      BY <2>1, <1>1, <1>2, <1>3 DEF Pending, Removing
    <2>3. QED BY <2>2 DEF Pending
  <1>11. Flows(h)' BY <1>1, <1>2 DEF Flows
  <1>12. Inv(h)' BY <1>7, <1>8, <1>9, <1>10, <1>11 DEF Inv
  <1>13. QED BY <1>4, <1>5, <1>6, <1>12 DEF Whole

\* The messages of an entity, when no ASSIGN_OK matters
LEMMA MsgsSame ==
    ASSUME NEW g, NEW h, NEW f, Msgs(g, f), SameItems(g, h), UNCHANGED ent, h.st = g.st,
           NEW d, d = ent[f].Id, Plain(h, d) = Plain(g, d), Sent(h, d) = Sent(g, d),
           \A k \in Labels(h, d) : k \in Labels(g, d) \/ Owner[h.R[k].RcCh] = f
    PROVE  Msgs(h, f)'
  <1>1. CASE d = 0 BY <1>1 DEF Msgs
  <1>2. CASE d # 0
    <2>0. ent'[f].Id = d OBVIOUS
    <2>1. \A k \in Sent(h, d) : SentAt(g, f, k) /\ h.Q[k] = g.Q[k]
      BY <1>2 DEF Msgs, SameItems, Sent
    <2>2. \A k \in Sent(h, d) : SentAt(h, f, k)' BY <2>1 DEF SentAt
    <2>3. \A k \in Plain(h, d) : PlainAt(g, f, k) /\ h.R[k] = g.R[k]
      BY <1>2 DEF Msgs, SameItems, Plain
    <2>4. \A k \in Plain(h, d) : PlainAt(h, f, k)' BY <2>3 DEF PlainAt, Removing
    <2>5. \A k \in Labels(h, d) : Owner[h.R[k].RcCh] = f
      BY <1>2 DEF Msgs, SameItems, Labels
    <2>6. ent'[f].XMOREC = Cardinality(Plain(h, d)) + Cardinality(Sent(h, d))
      BY <1>2 DEF Msgs
    <2>7. QED BY <2>0, <2>2, <2>4, <2>5, <2>6 DEF Msgs
  <1>3. QED BY <1>1, <1>2

\* The flow control of a channel, when no ASSIGN_OK matters
LEMMA LabsSame ==
    ASSUME NEW g, NEW h, SameItems(g, h), NEW d, Plain(h, d) = Plain(g, d),
           Labels(h, d) = Labels(g, d), NEW c
    PROVE  SameLabs(g, h, c, d)
  <1>1. Lab(h, c, d) = Lab(g, c, d) BY DEF Lab, SameItems, Labels
  <1>2. \A rc \in RcCode : Says(h, c, d, rc) = Says(g, c, d, rc) BY DEF Says, SameItems, Plain
  <1>3. QED BY <1>1, <1>2 DEF SameLabs

\* The card says m.
CardPuts(g, h, n, m) ==
    /\ h.q = g.q /\ h.out = g.out /\ h.S = g.S /\ h.done = g.done /\ h.st = g.st
    /\ h.ans = g.ans /\ h.Q = g.Q /\ h.tk = g.tk /\ h.got = g.got
    /\ GhostType(h) /\ Forms(h) /\ SameItems(g, h)
    /\ RLive(h) = RLive(g) \cup {n} /\ n \notin RLive(g) /\ RqLive(h) = RqLive(g)
    /\ h.R[n] = m /\ \A k \in RLive(g) : k < n

\* A message of the card's own extends the history of return codes.
LEMMA CardSays ==
    ASSUME TypeOK, NEW g, GhostType(g), Pipes(g), Forms(g), NEW m, m \in RC, RcForm(m),
           outq' = Append(outq, m), CardFrame, UNCHANGED <<inbox, rcBuf, irq>>
    PROVE  \E h, n : CardPuts(g, h, n, m) /\ Pipes(h)'
  <1>1. PICK u : u = Append(g.R, m) OBVIOUS
  <1>2. PICK h : h = Mk(g.q, g.out, g.S, g.done, g.ans, u, g.got, g.Q, g.tk, g.st)
    OBVIOUS
  <1>3. /\ h.q = g.q /\ h.out = g.out /\ h.S = g.S /\ h.done = g.done /\ h.ans = g.ans
        /\ h.R = u /\ h.got = g.got /\ h.Q = g.Q /\ h.tk = g.tk /\ h.st = g.st
    BY <1>2 DEF Mk
  <1>4. UNCHANGED batch BY CardFrames
  <1>6. PICK n : n = Len(g.R) + 1 OBVIOUS
  <1>7. /\ h.R = Append(g.R, m) /\ UNCHANGED <<rcBuf, inbox, batch>>
    BY <1>1, <1>3, <1>4
  <1>8. /\ Pipes(h)' /\ SameItems(g, h)
        /\ RLive(h) = RLive(g) \cup {Len(g.R) + 1} /\ RqLive(h) = RqLive(g)
        /\ h.R[Len(g.R) + 1] = m
        /\ \A k \in RLive(g) : k < Len(g.R) + 1
        /\ Len(g.R) + 1 \notin RLive(g)
        /\ h.R \in Seq(RC) /\ h.got <= Len(h.R)
    <2>1. h.got = g.got /\ h.Q = g.Q /\ h.tk = g.tk BY <1>3
    <2>2. QED BY <1>7, <2>1, PutRc
  <1>9. /\ Pipes(h)' /\ SameItems(g, h)
        /\ RLive(h) = RLive(g) \cup {n} /\ RqLive(h) = RqLive(g)
        /\ h.R[n] = m /\ n \notin RLive(g) /\ \A k \in RLive(g) : k < n
    BY <1>6, <1>8
  <1>10. GhostType(h)
    <2>1. u \in Seq(RC) BY <1>3, <1>8
    <2>2. /\ g.q \in Seq(Slot) /\ g.out \in Nat /\ g.S \in Seq(Slot) /\ g.done \in Nat
          /\ g.ans \in Nat /\ g.got \in Nat /\ g.Q \in Seq(REQ)
          /\ g.tk \in Nat /\ g.st \in [Entity -> Stage]
      BY GhostParts
    <2>3. h \in Ghost BY <2>1, <2>2, <1>2, MkParts
    <2>4. /\ g.out <= Len(g.q) /\ g.done <= g.ans /\ g.ans <= Len(g.S) /\ g.tk <= Len(g.Q)
      BY GhostParts
    <2>5. QED BY <2>3, <2>4, <1>3, <1>8 DEF GhostType
  <1>11. Forms(h) BY <1>9 DEF Forms, SameItems
  <1>12. CardPuts(g, h, n, m) BY <1>3, <1>9, <1>10, <1>11 DEF CardPuts
  <1>13. Pipes(h)' /\ h.q = g.q BY <1>9, <1>3
  <1>14. QED BY <1>12, <1>13

\* The card has buffers again.
LEMMA ReadyKeeps ==
    ASSUME XdiAssumption, NEW g, Whole(g), TypeOK', CardReady
    PROVE  \E h : Whole(h)'
  <1>1. /\ TypeOK /\ GhostType(g) /\ Pipes(g) /\ Forms(g) /\ Assigns(g) /\ Refs(g)
        /\ held \subseteq Chan \X Ids
    BY Parts
  <1>2. PICK a : a = Answer("READY_INT", 0, 0, 0, "none") OBVIOUS
  <1>3. /\ outq' = Append(outq, a) /\ UNCHANGED <<inbox, held, cardIds, rcBuf, irq>> /\ CardFrame
    BY <1>2 DEF CardReady
  <1>4. /\ a.Rc = "READY_INT" /\ a.RcId = 0 /\ a.RcCh = 0 /\ a.Reference = 0 /\ a.Ext = "none"
        /\ a \in RC
    BY <1>2 DEF Answer, RC, RcCode, RcType, ChanNo
  <1>5. RcForm(a) BY <1>4 DEF RcForm
  <1>6. PICK h, n : CardPuts(g, h, n, a) /\ Pipes(h)'
    <2>1. /\ TypeOK /\ GhostType(g) /\ Pipes(g) /\ Forms(g) BY <1>1
    <2>2. a \in RC BY <1>4
    <2>3. outq' = Append(outq, a) /\ CardFrame /\ UNCHANGED <<inbox, rcBuf, irq>> BY <1>3
    <2>4. QED BY <2>1, <2>2, <2>3, <1>5, CardSays
  <1>7. /\ CardSame(g, h) /\ h.q = g.q /\ h.out = g.out /\ h.S = g.S /\ h.done = g.done
        /\ h.ans = g.ans /\ h.st = g.st
        /\ UNCHANGED <<wait, fcPend, clFc, clSkip, ent, tbl, next, ref, head, tail, assign,
                   IdTable, fcId, rmPending, noCancel, trapped, pc, phase, cur, rcBuf, irq,
                   batch>>
    BY <1>3, <1>6, CardFrames DEF CardPuts, CardSame
  <1>8. /\ Pipes(h)' /\ SameItems(g, h) /\ GhostType(h) /\ Forms(h)
        /\ RLive(h) = RLive(g) \cup {n} /\ RqLive(h) = RqLive(g)
        /\ h.R[n] = a /\ n \notin RLive(g)
    BY <1>6 DEF CardPuts
  <1>14. \A d \in Ids : SameMsgs(g, h, d) /\ d # 0
    <2> TAKE d \in Ids
    <2>1. d # 0 BY DEF XdiAssumption
    <2>2. d # 0 /\ h.R[n].RcId # d => SameMsgs(g, h, d) BY <1>8, PutView
    <2>3. QED BY <2>1, <2>2, <1>4, <1>8
  <1>15. Refs(h)'
    <2>1. \A k \in RLive(h) : k \in RLive(g) \/ h.R[k].Reference = 0 BY <1>4, <1>8
    <2>2. QED BY <2>1, <1>1, <1>7, <1>8, RefsFrame
  <1>16. \A f : (Removing(h, f)' <=> Removing(g, f)) /\ ent'[f] = ent[f]
    BY <1>7 DEF Removing
  <1>17. \A d : Unowned(d)' <=> Unowned(d) BY <1>16 DEF Unowned
  <1>18. \A d \in Ids : IdAt(h, d)'
    <2> TAKE d \in Ids
    <2>1. IdAt(g, d) /\ SameMsgs(g, h, d) /\ d # 0 BY <1>14, Parts
    <2>2. \A j \in RLive(h) : j \in RLive(g) \/ h.R[j].RcId # d BY <2>1, <1>4, <1>8
    <2>3. QED BY <2>1, <2>2, <1>3, <1>8, <1>16, <1>17, IdFrame
  <1>19. \A c \in Chan, d \in Ids : <<c, d>> \in held' => HoldAt(h, c, d)'
    <2> TAKE c \in Chan, d \in Ids
    <2> HAVE <<c, d>> \in held'
    <2>1. HoldAt(g, c, d) BY <1>3, Parts
    <2>2. d \in cardIds' BY <2>1, <1>3 DEF HoldAt
    <2>3. \A k \in SLive(g) : ref[g.S[k]] # 0 BY <1>1 DEF Assigns
    <2>4. Sent(h, d) = Sent(g, d) BY <1>14 DEF SameMsgs
    <2>5. PICK o : o = Owner[c] OBVIOUS
    <2>6. QED BY <2>1, <2>2, <2>3, <2>4, <2>5, <1>1, <1>7, <1>8, <1>16, <1>17, HoldFrame
  <1>20. \A f \in Entity : Msgs(h, f)'
    <2> TAKE f \in Entity
    <2>1. Msgs(g, f) /\ ent[f].Id \in Ids \cup {0} BY <1>1, EntityTypes, Parts
    <2>2. CASE ent[f].Id = 0 BY <2>2, <1>16 DEF Msgs
    <2>3. CASE ent[f].Id \in Ids
      <3>1. SameMsgs(g, h, ent[f].Id) BY <2>3, <1>14
      <3>2. SameEnt(g, h, f) BY <1>7 DEF SameEnt
      <3>3. QED BY <3>1, <3>2, <2>1, <1>8, MsgsFrame
    <2>4. QED BY <2>1, <2>2, <2>3
  <1>21. \A c \in Chan : ent[Owner[c]].Id # 0 => Flow(h, c)'
    <2> TAKE c \in Chan
    <2> HAVE ent[Owner[c]].Id # 0
    <2>1. PICK o, d : o = Owner[c] /\ d = ent[o].Id OBVIOUS
    <2>2. o \in Entity BY <2>1 DEF XdiAssumption
    <2>3. d \in Ids BY <2>1, <2>2, <1>1, EntityTypes
    <2>4. Flow(g, c) BY <2>1, <2>2, Parts DEF Flows
    <2>5. SameLabs(g, h, c, d) BY <2>3, <1>8, <1>14, LabsFrame
    <2>6. QED BY <2>1, <2>4, <2>5, <1>3, <1>7, FlowFrame
  <1>22. held' \subseteq Chan \X Ids BY <1>1, <1>3
  <1>23. QED BY <1>7, <1>8, <1>15, <1>18, <1>19, <1>20, <1>21, <1>22, CardKeeps

\* The end of flow control of a channel is the last that is said about it.
LEMMA XonFlow ==
    ASSUME XdiAssumption, NEW g, Whole(g), NEW h, NEW n, NEW a, CardPuts(g, h, n, a),
           NEW c \in Chan, NEW d \in Ids, a = Answer("OK", d, c, 0, "OK_FC"),
           <<c, d>> \in held, held' = held \ {<<c, d>>},
           UNCHANGED <<ent, wait, clFc, fcPend, clSkip, fcId, noCancel>>,
           ent[Owner[c]].Id = d
    PROVE  Flow(h, c)'
  <1>1. PICK o : o = Owner[c] OBVIOUS
  <1>2. o \in Entity /\ d # 0 BY <1>1 DEF XdiAssumption
  <1>3. Flow(g, c)
    <2>1. Flows(g) BY Parts
    <2>2. QED BY <2>1, <1>2 DEF Flows
  <1>4. /\ SameItems(g, h) /\ RLive(h) = RLive(g) \cup {n} /\ n \notin RLive(g)
        /\ RqLive(h) = RqLive(g) /\ h.R[n] = a /\ \A k \in RLive(g) : k < n
        /\ h.got \in Int /\ Len(h.R) \in Int
    <2>1. GhostType(h) BY DEF CardPuts
    <2>2. h.got \in Int /\ Len(h.R) \in Int BY <2>1, GhostParts
    <2>3. QED BY <2>2 DEF CardPuts
  <1>5. a.RcId = d /\ a.RcCh = c /\ a.Ext = "OK_FC" /\ a.Rc = "OK" /\ RcKey(a) = 0
    BY DEF Answer, RcKey
  <1>6. Plain(h, d) = Plain(g, d) /\ Labels(h, d) = Labels(g, d) \cup {n}
    <2>1. /\ Plain(h, d) = (IF RcKey(h.R[n]) = d THEN Plain(g, d) \cup {n} ELSE Plain(g, d))
          /\ Labels(h, d) = (IF h.R[n].RcId = d /\ h.R[n].Ext = "OK_FC"
                              THEN Labels(g, d) \cup {n} ELSE Labels(g, d))
      BY <1>4, PutView
    <2>2. QED BY <2>1, <1>2, <1>4, <1>5
  <1>7. PICK L, K, E, O : /\ L = Lab(g, c, d) /\ K = Says(g, c, d, "OK_FC")
                          /\ E = Says(g, c, d, "ERR") /\ O = Says(g, c, d, "OK")
    OBVIOUS
  <1>8. Lab(h, c, d) = L \cup {n}
    <2>1. \A k \in Labels(g, d) : h.R[k] = g.R[k] BY <1>4 DEF Labels, SameItems
    <2>2. QED BY <2>1, <1>4, <1>5, <1>6, <1>7 DEF Lab
  <1>9. \A rc : Says(h, c, d, rc) = Says(g, c, d, rc) 
    BY <1>4, <1>6 DEF Says, SameItems, Plain
  <1>10. /\ LabelsFollow(L, K, c \in clFc) /\ HeldFor(L, K, c \in clFc)
         /\ \A k \in E : c \in clFc /\ L = {} /\ <<c, d>> \notin held
         /\ \A k \in O : c \in clFc => \E j \in L : j < k
         /\ (fcId[c] = d /\ ent[o].No \notin noCancel => c \in clFc)
         /\ (wait[o] /\ ent[o].ReqCh = c /\ ent[o].Req = "DATA" => c \notin fcPend)
         /\ (wait[o] /\ ent[o].ReqCh = c /\ c \in clFc => c \in clSkip)
    BY <1>1, <1>3, <1>7, FlowParts
  <1>11. /\ \A l \in L : l \in Int /\ l < n
         /\ \A k \in K : k \in Int /\ k < n
         /\ n \in Int
    <2>1. \A k \in RLive(h) : k \in Int BY <1>4 DEF RLive
    <2>2. L \subseteq RLive(g) /\ K \subseteq RLive(g)
      BY <1>7 DEF Lab, Says, Labels, Plain
    <2>3. QED BY <2>1, <2>2, <1>4
  <1>12. LabelsFollow(L \cup {n}, K, c \in clFc)
    <2>1. \A j \in L \cup {n} :
             \/ \E k \in K : k < j /\ \A l \in L \cup {n} : l > k => l >= j
             \/ c \in clFc /\ \A l \in L \cup {n} : l >= j
      <3> TAKE j \in L \cup {n}
      <3>1. CASE j \in L
        <4>1. \/ \E k \in K : k < j /\ \A l \in L : l > k => l >= j
              \/ c \in clFc /\ \A l \in L : l >= j
          BY <3>1, <1>10 DEF LabelsFollow
        <4>2. n >= j BY <3>1, <1>11
        <4>3. QED BY <4>1, <4>2
      <3>2. CASE j = n
        <4>1. CASE \E k \in K : \A l \in L : l < k
          <5>1. PICK k \in K : \A l \in L : l < k BY <4>1
          <5>2. k < n /\ \A l \in L : ~(l > k) BY <5>1, <1>11
          <5>3. n >= n BY <1>11
          <5>4. QED BY <5>2, <5>3, <3>2
        <4>2. CASE c \in clFc /\ L = {} BY <4>2, <3>2, <1>11
        <4>3. QED BY <4>1, <4>2, <1>10 DEF HeldFor
      <3>3. QED BY <3>1, <3>2
    <2>2. QED BY <2>1, Zenon DEF LabelsFollow
  <1>13. E = {} BY <1>10
  <1>14. \A k \in K : \E j \in L \cup {n} : j > k BY <1>11
  <1>15. \A k \in O : c \in clFc => \E j \in L \cup {n} : j < k BY <1>10
  <1>16. QED
    <2>1. d = ent'[o].Id BY <1>1
    <2>2. <<c, d>> \notin held' OBVIOUS
    <2>3. /\ Says(h, c, d, "OK_FC") = K /\ Says(h, c, d, "ERR") = {}
          /\ Says(h, c, d, "OK") = O /\ Lab(h, c, d) = L \cup {n}
      BY <1>7, <1>8, <1>9, <1>13
    <2>4. PICK M : M = L \cup {n} OBVIOUS
    <2>5. /\ LabelsFollow(M, K, c \in clFc) /\ M # {} /\ Lab(h, c, d) = M
          /\ \A k \in K : \E j \in M : j > k
          /\ \A k \in O : c \in clFc => \E j \in M : j < k
      BY <2>3, <2>4, <1>12, <1>14, <1>15
    <2>6. /\ (fcId'[c] = d /\ ent'[o].No \notin noCancel' => c \in clFc')
          /\ (wait'[o] /\ ent'[o].ReqCh = c /\ ent'[o].Req = "DATA" => c \notin fcPend')
          /\ (wait'[o] /\ ent'[o].ReqCh = c /\ c \in clFc' => c \in clSkip')
      BY <1>10
    <2>7. LabelsFollow(Lab(h, c, d), Says(h, c, d, "OK_FC"), c \in clFc')
      BY <2>3, <2>5
    <2>8. /\ \A k \in Says(h, c, d, "ERR") : 
                c \in clFc' /\ Lab(h, c, d) = {} /\ <<c, d>> \notin held'
          /\ \A k \in Says(h, c, d, "OK") : c \in clFc' => \E j \in Lab(h, c, d) : j < k
          /\ \A k \in Says(h, c, d, "OK_FC") : 
                <<c, d>> \in held' \/ \E j \in Lab(h, c, d) : j > k
          /\ (c \in clFc' => \/ <<c, d>> \in held' \/ Lab(h, c, d) # {}
                             \/ Says(h, c, d, "ERR") # {}
                             \/ wait'[o] /\ ent'[o].Req = "REMOVE")
          /\ (<<c, d>> \in held' =>
                HeldFor(Lab(h, c, d), Says(h, c, d, "OK_FC"), c \in clFc'))
      BY <2>2, <2>3, <2>5
    <2>9. QED BY <2>1, <2>6, <2>7, <2>8, <1>1, FlowBuild

\* Flow control of a channel ends.
LEMMA XonKeeps ==
    ASSUME XdiAssumption, Marked, NEW g, Whole(g), TypeOK', CardXon
    PROVE  \E h : Whole(h)'
  <1>1. /\ TypeOK /\ GhostType(g) /\ Pipes(g) /\ Forms(g) /\ Assigns(g) /\ Refs(g)
        /\ held \subseteq Chan \X Ids /\ 0 \notin Ids
    BY Parts DEF XdiAssumption
  <1>2. PICK c0 \in Chan, d0 \in Ids :
           /\ <<c0, d0>> \in held /\ held' = held \ {<<c0, d0>>}
           /\ outq' = Append(outq, Answer("OK", d0, c0, 0,
                                   IF Labelled THEN "OK_FC" ELSE "none"))
    BY <1>1 DEF CardXon
  <1>3. Labelled BY <1>2 DEF Marked
  <1>4. PICK a : a = Answer("OK", d0, c0, 0, "OK_FC") OBVIOUS
  <1>5. /\ outq' = Append(outq, a) /\ UNCHANGED <<inbox, cardIds, rcBuf, irq>> /\ CardFrame
    BY <1>2, <1>3, <1>4 DEF CardXon
  <1>6. /\ a.Rc = "OK" /\ a.RcId = d0 /\ a.RcCh = c0 /\ a.Reference = 0 /\ a.Ext = "OK_FC"
        /\ a \in RC /\ RcKey(a) = 0
    BY <1>4 DEF Answer, RC, RcCode, RcType, ChanNo, RcKey
  <1>7. RcForm(a) BY <1>1, <1>2, <1>6 DEF RcForm
  <1>8. PICK h, n : CardPuts(g, h, n, a) /\ Pipes(h)'
    <2>1. /\ TypeOK /\ GhostType(g) /\ Pipes(g) /\ Forms(g) BY <1>1
    <2>2. a \in RC BY <1>6
    <2>3. outq' = Append(outq, a) /\ CardFrame /\ UNCHANGED <<inbox, rcBuf, irq>> BY <1>5
    <2>4. QED BY <2>1, <2>2, <2>3, <1>7, CardSays
  <1>9. /\ CardSame(g, h) /\ h.q = g.q /\ h.out = g.out /\ h.S = g.S /\ h.done = g.done
        /\ h.ans = g.ans /\ h.st = g.st
        /\ UNCHANGED <<wait, fcPend, clFc, clSkip, ent, tbl, next, ref, head, tail, assign,
                   IdTable, fcId, rmPending, noCancel, trapped, pc, phase, cur, rcBuf, irq,
                   batch>>
    BY <1>5, <1>8, CardFrames DEF CardPuts, CardSame
  <1>10. /\ Pipes(h)' /\ SameItems(g, h) /\ GhostType(h) /\ Forms(h)
         /\ RLive(h) = RLive(g) \cup {n} /\ RqLive(h) = RqLive(g)
         /\ h.R[n] = a /\ n \notin RLive(g)
    BY <1>8 DEF CardPuts
  <1>11. \A d \in Ids : /\ Plain(h, d) = Plain(g, d) /\ Sent(h, d) = Sent(g, d)
                        /\ News(h, d) = News(g, d)
                        /\ Labels(h, d) = (IF d = d0 THEN Labels(g, d) \cup {n}
                                                     ELSE Labels(g, d))
                        /\ (d # d0 => SameMsgs(g, h, d))
    <2> TAKE d \in Ids
    <2>1. d # 0 BY <1>1
    <2>2. /\ Plain(h, d) = (IF RcKey(h.R[n]) = d THEN Plain(g, d) \cup {n} ELSE Plain(g, d))
          /\ Labels(h, d) = (IF h.R[n].RcId = d /\ h.R[n].Ext = "OK_FC"
                              THEN Labels(g, d) \cup {n} ELSE Labels(g, d))
          /\ News(h, d) = (IF h.R[n].RcId = d /\ h.R[n].Rc = "ASSIGN_OK"
                            THEN News(g, d) \cup {n} ELSE News(g, d))
          /\ Sent(h, d) = Sent(g, d)
          /\ (d # 0 /\ h.R[n].RcId # d => SameMsgs(g, h, d))
      BY <1>10, PutView
    <2>3. h.R[n].RcId = d0 /\ h.R[n].Ext = "OK_FC" /\ h.R[n].Rc = "OK" /\ RcKey(h.R[n]) = 0
      BY <1>6, <1>10
    <2>4. QED BY <2>1, <2>2, <2>3
  <1>12. Refs(h)'
    <2>1. \A k \in RLive(h) : k \in RLive(g) \/ h.R[k].Reference = 0 BY <1>6, <1>10
    <2>2. QED BY <2>1, <1>1, <1>9, <1>10, RefsFrame
  <1>13. \A f : (Removing(h, f)' <=> Removing(g, f)) /\ ent'[f] = ent[f]
    BY <1>9 DEF Removing
  <1>14. \A d : Unowned(d)' <=> Unowned(d) BY <1>13 DEF Unowned
  <1>15. HoldAt(g, c0, d0) BY <1>2, Parts
  <1>16. \A d \in Ids : IdAt(h, d)'
    <2> TAKE d \in Ids
    <2>1. IdAt(g, d) BY Parts
    <2>2. CASE d # d0
      <3>1. \A j \in RLive(h) : j \in RLive(g) \/ h.R[j].RcId # d BY <2>2, <1>6, <1>10
      <3>2. SameMsgs(g, h, d) BY <2>2, <1>11
      <3>3. \A x \in held' : x[2] = d => x \in held BY <1>2
      <3>4. QED BY <2>1, <3>1, <3>2, <3>3, <1>5, <1>10, <1>13, <1>14, IdFrame
    <2>3. CASE d = d0
      <3>1. News(g, d) = {}
        <4>1. <<c0, d0>>[2] = d0 OBVIOUS
        <4>2. QED BY <4>1, <2>1, <2>3, <1>2 DEF IdAt
      <3>2. News(h, d) = {} /\ Sent(h, d) = Sent(g, d) BY <3>1, <1>11
      <3>3. \A k \in Sent(h, d) : h.Q[k] = g.Q[k] BY <3>2, <1>10 DEF SameItems, Sent
      <3>4. \A k \in Sent(h, d) : 
               /\ d \in cardIds'
               /\ (Unowned(d)' => h.Q[k].Req = "REMOVE")
               /\ (h.Q[k].Req = "REMOVE" => \A j \in Sent(h, d) : j = k)
        BY <3>2, <3>3, <2>1, <1>5, <1>14 DEF IdAt
      <3>5. \A e \in Entity : 
               ent'[e].Id = d /\ (d \notin cardIds' \/ News(h, d) # {}) => Removing(h, e)'
        BY <3>2, <2>1, <1>5, <1>13 DEF IdAt
      <3>6. QED BY <3>2, <3>4, <3>5 DEF IdAt
    <2>4. QED BY <2>2, <2>3
  <1>17. \A c \in Chan, d \in Ids : <<c, d>> \in held' => HoldAt(h, c, d)'
    <2> TAKE c \in Chan, d \in Ids
    <2> HAVE <<c, d>> \in held'
    <2>1. HoldAt(g, c, d) BY <1>2, Parts
    <2>2. d \in cardIds' BY <2>1, <1>5 DEF HoldAt
    <2>3. \A k \in SLive(g) : ref[g.S[k]] # 0 BY <1>1 DEF Assigns
    <2>4. Sent(h, d) = Sent(g, d) BY <1>11
    <2>5. PICK o : o = Owner[c] OBVIOUS
    <2>6. QED BY <2>1, <2>2, <2>3, <2>4, <2>5, <1>1, <1>9, <1>10, <1>13, <1>14, HoldFrame
  <1>18. \A f \in Entity : ent[f].Id = d0 => f = Owner[c0]
    <2> TAKE f \in Entity
    <2> HAVE ent[f].Id = d0
    <2>1. ~Unowned(d0) BY DEF Unowned
    <2>2. ent[Owner[c0]].Id = d0 BY <2>1, <1>15 DEF HoldAt
    <2>3. Owner[c0] \in Entity /\ d0 # 0 BY <1>1, <1>2 DEF XdiAssumption
    <2>4. QED BY <2>2, <2>3, UniqueId
  <1>19. \A f \in Entity : Msgs(h, f)'
    <2> TAKE f \in Entity
    <2>1. Msgs(g, f) /\ ent[f].Id \in Ids \cup {0} BY <1>1, EntityTypes, Parts
    <2>2. CASE ent[f].Id = 0 BY <2>2, <1>13 DEF Msgs
    <2>3. CASE ent[f].Id \in Ids
      <3>1. PICK d : d = ent[f].Id OBVIOUS
      <3>2. /\ Plain(h, d) = Plain(g, d) /\ Sent(h, d) = Sent(g, d)
            /\ Labels(h, d) = (IF d = d0 THEN Labels(g, d) \cup {n} ELSE Labels(g, d))
        BY <2>3, <3>1, <1>11
      <3>3. \A k \in Labels(h, d) : k \in Labels(g, d) \/ Owner[h.R[k].RcCh] = f
        BY <3>1, <3>2, <1>6, <1>10, <1>18
      <3>4. UNCHANGED ent /\ h.st = g.st BY <1>9
      <3>5. QED BY <3>1, <3>2, <3>3, <3>4, <2>1, <1>10, MsgsSame
    <2>4. QED BY <2>1, <2>2, <2>3
  <1>20. \A c \in Chan : ent[Owner[c]].Id # 0 => Flow(h, c)'
    <2> TAKE c \in Chan
    <2> HAVE ent[Owner[c]].Id # 0
    <2>1. PICK o, d : o = Owner[c] /\ d = ent[o].Id OBVIOUS
    <2>2. o \in Entity BY <2>1 DEF XdiAssumption
    <2>3. d \in Ids BY <2>1, <2>2, <1>1, EntityTypes
    <2>4. Flow(g, c) BY <2>1, <2>2, Parts DEF Flows
    <2>5. CASE c = c0 /\ d = d0
      <3>1. UNCHANGED <<ent, wait, clFc, fcPend, clSkip, fcId, noCancel>> BY <1>9
      <3>2. ent[Owner[c]].Id = d BY <2>1
      <3>3. CardPuts(g, h, n, a) BY <1>8
      <3>4. QED BY <2>3, <2>5, <3>1, <3>2, <3>3, <1>2, <1>4, XonFlow
    <2>6. CASE d # d0 \/ c # c0
      <3>1. SameLabs(g, h, c, d)
        <4>1. CASE d # d0
          <5>1. SameMsgs(g, h, d) BY <4>1, <2>3, <1>11
          <5>2. QED BY <5>1, <1>10, LabsFrame
        <4>2. CASE d = d0 /\ c # c0
          <5>1. Plain(h, d) = Plain(g, d) /\ Labels(h, d) = Labels(g, d) \cup {n}
            BY <4>2, <1>11
          <5>2. h.R[n].RcCh # c BY <4>2, <1>6, <1>10
          <5>3. \A k \in Labels(g, d) : h.R[k] = g.R[k] BY <1>10 DEF Labels, SameItems
          <5>4. Lab(h, c, d) = Lab(g, c, d) BY <5>1, <5>2, <5>3 DEF Lab
          <5>5. \A rc \in RcCode : Says(h, c, d, rc) = Says(g, c, d, rc)
            BY <5>1, <1>10 DEF Says, SameItems, Plain
          <5>6. QED BY <5>4, <5>5 DEF SameLabs
        <4>3. QED BY <4>1, <4>2, <2>6
      <3>2. <<c, d>> \in held' <=> <<c, d>> \in held BY <2>6, <1>2
      <3>3. QED BY <2>1, <2>4, <3>1, <3>2, <1>9, FlowFrame
    <2>7. QED BY <2>5, <2>6
  <1>21. held' \subseteq Chan \X Ids BY <1>1, <1>2
  <1>22. QED BY <1>9, <1>10, <1>12, <1>16, <1>17, <1>19, <1>20, <1>21, CardKeeps

\* The card takes request r and answers it with m.
CardGives(g, h, p, n, r, m) ==
    /\ h.q = g.q /\ h.out = g.out /\ h.S = g.S /\ h.done = g.done /\ h.st = g.st
    /\ h.Q = g.Q /\ h.got = g.got
    /\ GhostType(h) /\ Forms(h) /\ SameItems(g, h)
    /\ RLive(h) = RLive(g) \cup {n} /\ n \notin RLive(g) /\ h.R[n] = m
    /\ \A k \in RLive(g) : k \in Int /\ k < n
    /\ RqLive(h) = RqLive(g) \ {p} /\ p \in RqLive(g) /\ g.Q[p] = r /\ RqForm(r)
    /\ \A k \in RqLive(g) : k \in Int /\ p <= k
    /\ p \in Int /\ n \in Int

\* The card takes one request and answers it: one history moves on, the other
\* grows.
LEMMA CardAnswers ==
    ASSUME TypeOK, NEW g, GhostType(g), Pipes(g), Forms(g), NEW m, m \in RC, RcForm(m),
           inbox # <<>>, CardConsume(<<m>>), NEW A, A \in Nat, g.done <= A, A <= Len(g.S)
    PROVE  \E h, p, n : CardGives(g, h, p, n, Head(inbox), m) /\ Pipes(h)' /\ h.ans = A
  <1>1. PICK u, t : u = Append(g.R, m) /\ t = g.tk + 1 OBVIOUS
  <1>2. PICK h : h = Mk(g.q, g.out, g.S, g.done, A, u, g.got, g.Q, t, g.st)
    OBVIOUS
  <1>3. /\ h.q = g.q /\ h.out = g.out /\ h.S = g.S /\ h.done = g.done /\ h.ans = A
        /\ h.R = u /\ h.got = g.got /\ h.Q = g.Q /\ h.tk = t /\ h.st = g.st
    BY <1>2 DEF Mk
  <1>4. /\ inbox' = Tail(inbox) /\ outq' = outq \o <<m>> /\ UNCHANGED <<rcBuf, batch>>
    BY CardFrames DEF CardConsume
  <1>5. PICK n, p : n = Len(g.R) + 1 /\ p = g.tk + 1 OBVIOUS
  <1>6. /\ Pipes(h)' /\ SameItems(g, h)
        /\ g.tk + 1 \in RqLive(g) /\ Head(inbox) = g.Q[g.tk + 1]
        /\ RqLive(h) = RqLive(g) \ {g.tk + 1}
        /\ \A k \in RqLive(g) : g.tk + 1 <= k
        /\ RLive(h) = RLive(g) \cup {Len(g.R) + 1}
        /\ h.R[Len(g.R) + 1] = m
        /\ \A k \in RLive(g) : k < Len(g.R) + 1
        /\ Len(g.R) + 1 \notin RLive(g)
        /\ h.R \in Seq(RC) /\ h.got <= Len(h.R)
        /\ h.tk \in Nat /\ h.tk <= Len(h.Q)
    <2>1. h.R = Append(g.R, m) /\ h.got = g.got /\ h.Q = g.Q /\ h.tk = g.tk + 1
      BY <1>1, <1>3
    <2>2. QED BY <1>4, <2>1, TakeRq
  <1>7. /\ Pipes(h)' /\ SameItems(g, h)
        /\ RLive(h) = RLive(g) \cup {n} /\ RqLive(h) = RqLive(g) \ {p}
        /\ h.R[n] = m /\ n \notin RLive(g) /\ \A k \in RLive(g) : k < n
        /\ p \in RqLive(g) /\ Head(inbox) = g.Q[p] /\ \A k \in RqLive(g) : p <= k
    BY <1>5, <1>6
  <1>8. GhostType(h)
    <2>1. u \in Seq(RC) /\ t \in Nat BY <1>3, <1>6
    <2>2. /\ g.q \in Seq(Slot) /\ g.out \in Nat /\ g.S \in Seq(Slot) /\ g.done \in Nat
          /\ g.got \in Nat /\ g.Q \in Seq(REQ) /\ g.st \in [Entity -> Stage]
          /\ g.out <= Len(g.q)
      BY GhostParts
    <2>3. h \in Ghost BY <2>1, <2>2, <1>2, MkParts
    <2>4. QED BY <2>3, <2>2, <1>3, <1>6 DEF GhostType
  <1>9. RqForm(g.Q[p]) BY <1>7 DEF Forms
  <1>10. Forms(h) BY <1>7 DEF Forms, SameItems
  <1>11. /\ \A k \in RLive(g) : k \in Int
         /\ \A k \in RqLive(g) : k \in Int
         /\ p \in Int /\ n \in Int
    <2>1. g.got \in Int /\ g.tk \in Int /\ Len(g.R) \in Int /\ Len(g.Q) \in Int BY GhostParts
    <2>2. QED BY <2>1, <1>5 DEF RLive, RqLive
  <1>12. CardGives(g, h, p, n, Head(inbox), m)
    BY <1>3, <1>7, <1>8, <1>9, <1>10, <1>11 DEF CardGives
  <1>13. QED BY <1>12, <1>7, <1>3

\* The request the card takes next has the form of a request.
LEMMA HeadRq ==
    ASSUME TypeOK, NEW g, GhostType(g), Pipes(g), Forms(g), inbox # <<>>,
           NEW r, r = Head(inbox)
    PROVE  RqForm(r) /\ r \in REQ
  <1>1. inbox \in Seq(REQ) /\ batch \in Seq(REQ) BY DEF TypeOK
  <1>2. 1 \in 1..Len(inbox) /\ r = inbox[1] /\ r \in REQ /\ Len(inbox) \in Nat BY <1>1
  <1>3. inbox[1] = g.Q[g.tk + 1] BY <1>2 DEF Pipes
  <1>4. g.tk + 1 \in RqLive(g)
    <2>1. Len(batch) \in Nat BY <1>1
    <2>2. Len(g.Q) = g.tk + Len(inbox) + Len(batch) BY DEF Pipes
    <2>3. g.tk \in Nat /\ Len(g.Q) \in Nat BY GhostParts
    <2>4. QED BY <2>1, <2>2, <2>3, <1>2 DEF RqLive
  <1>5. QED BY <1>2, <1>3, <1>4 DEF Forms

\* What the answer to a request for Id d changes of the messages
LEMMA GivesViews ==
    ASSUME XdiAssumption, NEW g, NEW h, NEW p, NEW n, NEW r, NEW m,
           CardGives(g, h, p, n, r, m), r.ReqId = m.RcId, m.Ext # "OK_FC",
           m.Rc # "ASSIGN_OK", NEW d \in Ids
    PROVE  /\ (d # m.RcId => SameMsgs(g, h, d))
           /\ (d = m.RcId => /\ Plain(h, d) = Plain(g, d) \cup {n}
                             /\ Labels(h, d) = Labels(g, d) /\ News(h, d) = News(g, d)
                             /\ Sent(h, d) = Sent(g, d) \ {p})
  <1>1. d # 0 BY DEF XdiAssumption
  <1>2. /\ SameItems(g, h) /\ RLive(h) = RLive(g) \cup {n} /\ n \notin RLive(g)
        /\ RqLive(h) = RqLive(g) \ {p} /\ p \in RqLive(g) /\ g.Q[p] = r /\ h.R[n] = m
    BY DEF CardGives
  <1>3. /\ Plain(h, d) = (IF RcKey(h.R[n]) = d THEN Plain(g, d) \cup {n} ELSE Plain(g, d))
        /\ Labels(h, d) = (IF h.R[n].RcId = d /\ h.R[n].Ext = "OK_FC"
                              THEN Labels(g, d) \cup {n} ELSE Labels(g, d))
        /\ News(h, d) = (IF h.R[n].RcId = d /\ h.R[n].Rc = "ASSIGN_OK"
                            THEN News(g, d) \cup {n} ELSE News(g, d))
        /\ Sent(h, d) = Sent(g, d) \ {p}
        /\ (d # 0 /\ h.R[n].RcId # d /\ g.Q[p].ReqId # d => SameMsgs(g, h, d))
    BY <1>2, AnswerView
  <1>4. QED BY <1>1, <1>2, <1>3 DEF RcKey

\* The answer to a request is not the answer to an ASSIGN.
LEMMA GivesRefs ==
    ASSUME NEW g, Whole(g), NEW h, NEW p, NEW n, NEW r, NEW m,
           CardGives(g, h, p, n, r, m), h.ans = g.ans, r.Req # "ASSIGN", m.Reference = 0,
           UNCHANGED ref
    PROVE  Refs(h)' /\ r.Reference = 0
  <1>1. GhostType(g) /\ Assigns(g) /\ Refs(g) BY Parts
  <1>2. /\ SameItems(g, h) /\ RLive(h) = RLive(g) \cup {n} /\ g.Q[p] = r /\ h.R[n] = m
        /\ RqLive(h) = RqLive(g) \ {p} /\ h.S = g.S /\ h.done = g.done /\ RqForm(r)
    BY DEF CardGives
  <1>3. r.Reference = 0 BY <1>2 DEF RqForm
  <1>4. /\ \A k \in RLive(g) : k \in RLive(h) \/ g.R[k].Reference = 0
        /\ \A k \in RLive(h) : k \in RLive(g) \/ h.R[k].Reference = 0
        /\ \A k \in RqLive(g) : k \in RqLive(h) \/ g.Q[k].Reference = 0
        /\ \A k \in RqLive(h) : k \in RqLive(g) \/ h.Q[k].Reference = 0
    BY <1>2, <1>3
  <1>5. QED BY <1>1, <1>2, <1>3, <1>4, RefsFrame

\* What a step keeps of the entities and channels of another Id
LEMMA OtherId ==
    ASSUME XdiAssumption, NEW g, Whole(g), NEW h, SameItems(g, h), h.st = g.st,
           UNCHANGED <<ent, wait, clFc, fcPend, clSkip, fcId, noCancel>>,
           NEW d \in Ids, SameMsgs(g, h, d),
           \A c \in Chan : <<c, d>> \in held' <=> <<c, d>> \in held
    PROVE  /\ \A f \in Entity : ent[f].Id = d => Msgs(h, f)'
           /\ \A c \in Chan : ent[Owner[c]].Id = d => Flow(h, c)'
  <1>1. \A f \in Entity : ent[f].Id = d => Msgs(h, f)'
    <2> TAKE f \in Entity
    <2> HAVE ent[f].Id = d
    <2>1. Msgs(g, f) BY Parts
    <2>2. SameEnt(g, h, f) BY DEF SameEnt
    <2>3. SameMsgs(g, h, ent[f].Id) OBVIOUS
    <2>4. QED BY <2>1, <2>2, <2>3, MsgsFrame
  <1>2. \A c \in Chan : ent[Owner[c]].Id = d => Flow(h, c)'
    <2> TAKE c \in Chan
    <2> HAVE ent[Owner[c]].Id = d
    <2>1. PICK o : o = Owner[c] OBVIOUS
    <2>2. d # 0 BY DEF XdiAssumption
    <2>3. Flow(g, c)
      <3>1. Flows(g) BY Parts
      <3>2. QED BY <3>1, <2>2 DEF Flows
    <2>4. SameLabs(g, h, c, d) BY LabsFrame
    <2>5. QED BY <2>1, <2>3, <2>4, FlowFrame
  <1>3. QED BY <1>1, <1>2

\* The card takes a REMOVE.
RemoveGiven(g, h, p, n, r, m) ==
    /\ CardGives(g, h, p, n, r, m)
    /\ r.Req = "REMOVE" /\ r.ReqId \in Ids
    /\ m = Answer("OK", r.ReqId, r.ReqCh, 0,
                  IF r.NLType THEN "REMOVE_COMPLETE" ELSE "none")

\* What the invariant says of the REMOVE that the card takes.
LEMMA RemoveIs ==
    ASSUME XdiAssumption, NEW g, Whole(g), NEW h, NEW p, NEW n, NEW r, NEW m,
           RemoveGiven(g, h, p, n, r, m), NEW d, d = r.ReqId
    PROVE  /\ d \in Ids /\ d # 0 /\ Sent(g, d) = {p} /\ News(g, d) = {}
           /\ m.Rc = "OK" /\ m.RcId = d /\ m.RcCh = 0 /\ m.Reference = 0
           /\ m.Ext = (IF r.NLType THEN "REMOVE_COMPLETE" ELSE "none")
           /\ \A f \in Entity : ent[f].Id = d =>
                 /\ Removing(g, f) /\ wait[f] /\ SentAt(g, f, p)
                 /\ Plain(g, d) = {} /\ ent[f].XMOREC = 1
  <1>1. /\ d \in Ids /\ p \in RqLive(g) /\ g.Q[p] = r /\ RqForm(r) /\ r.Req = "REMOVE"
    BY DEF RemoveGiven, CardGives
  <1>2. d # 0 BY <1>1 DEF XdiAssumption
  <1>3. p \in Sent(g, d) BY <1>1 DEF Sent
  <1>4. IdAt(g, d) BY <1>1, Parts
  <1>5. Sent(g, d) = {p} BY <1>1, <1>3, <1>4 DEF IdAt
  <1>6. News(g, d) = {} BY <1>4, <1>5 DEF IdAt
  <1>7. /\ m.Rc = "OK" /\ m.RcId = d /\ m.RcCh = 0 /\ m.Reference = 0
        /\ m.Ext = (IF r.NLType THEN "REMOVE_COMPLETE" ELSE "none")
    BY <1>1 DEF RemoveGiven, Answer, RqForm
  <1>8. \A f \in Entity : ent[f].Id = d =>
                 /\ Removing(g, f) /\ wait[f] /\ SentAt(g, f, p)
                 /\ Plain(g, d) = {} /\ ent[f].XMOREC = 1
    <2> TAKE f \in Entity
    <2> HAVE ent[f].Id = d
    <2>1. SentAt(g, f, p) BY <1>2, <1>3, Parts DEF Msgs
    <2>2. Removing(g, f) BY <2>1, <1>1 DEF SentAt, Removing
    <2>3. EntityAt(f, g.st[f]) BY Parts
    <2>4. ent[f].XMOREC = 1 /\ wait[f] BY <2>2, <2>3 DEF EntityAt, Removing
    <2>5. Plain(g, d) = {} BY <2>4, <1>2, <1>5, HasRequest
    <2>6. QED BY <2>1, <2>2, <2>4, <2>5
  <1>9. QED BY <1>1, <1>2, <1>5, <1>6, <1>7, <1>8

\* What becomes of the entity and the channels of the Id
LEMMA RemoveOwner ==
    ASSUME XdiAssumption, NEW g, Whole(g), NEW h, NEW p, NEW n, NEW r, NEW m,
           RemoveGiven(g, h, p, n, r, m), NEW d, d = r.ReqId,
           UNCHANGED <<ent, wait, clFc, fcPend, clSkip, fcId, noCancel>>,
           \A c \in Chan : <<c, d>> \notin held'
    PROVE  /\ \A f \in Entity : ent[f].Id = d => Msgs(h, f)'
           /\ \A c \in Chan : ent[Owner[c]].Id = d => Flow(h, c)'
  <1>1. /\ d \in Ids /\ d # 0 /\ Sent(g, d) = {p} /\ News(g, d) = {}
        /\ m.Rc = "OK" /\ m.RcId = d /\ m.RcCh = 0 /\ m.Reference = 0
        /\ m.Ext = (IF r.NLType THEN "REMOVE_COMPLETE" ELSE "none")
        /\ \A f \in Entity : ent[f].Id = d =>
              /\ Removing(g, f) /\ wait[f] /\ SentAt(g, f, p)
              /\ Plain(g, d) = {} /\ ent[f].XMOREC = 1
    <2>1. /\ d \in Ids /\ d # 0 /\ Sent(g, d) = {p} /\ News(g, d) = {}
          /\ m.Rc = "OK" /\ m.RcId = d /\ m.RcCh = 0 /\ m.Reference = 0
          /\ m.Ext = (IF r.NLType THEN "REMOVE_COMPLETE" ELSE "none")
      BY RemoveIs
    <2>2. \A f \in Entity : ent[f].Id = d =>
              /\ Removing(g, f) /\ wait[f] /\ SentAt(g, f, p)
              /\ Plain(g, d) = {} /\ ent[f].XMOREC = 1
      BY RemoveIs
    <2>3. QED BY <2>1, <2>2
  <1>2. CardGives(g, h, p, n, r, m) /\ r.Req = "REMOVE" BY DEF RemoveGiven
  <1>3. /\ Plain(h, d) = Plain(g, d) \cup {n} /\ Labels(h, d) = Labels(g, d)
        /\ Sent(h, d) = Sent(g, d) \ {p}
    <2>1. m.Ext # "OK_FC" /\ m.Rc # "ASSIGN_OK" /\ r.ReqId = m.RcId BY <1>1
    <2>2. QED BY <1>1, <1>2, <2>1, GivesViews
  <1>4. SameItems(g, h) /\ h.R[n] = m /\ g.Q[p] = r /\ h.st = g.st BY <1>2 DEF CardGives
  <1>5. Sent(h, d) = {} BY <1>1, <1>3
  <1>6. \A f \in Entity : ent[f].Id = d => Msgs(h, f)'
    <2> TAKE f \in Entity
    <2> HAVE ent[f].Id = d
    <2>1. /\ Removing(g, f) /\ SentAt(g, f, p) /\ Plain(h, d) = {n} /\ ent[f].XMOREC = 1
      BY <1>1, <1>3
    <2>2. Removing(h, f)' BY <2>1, <1>4 DEF Removing
    <2>3. /\ m.RcCh = ent[f].ReqCh /\ (r.NLType <=> f \in NL) /\ g.st[f] \in {"queued", "sent"}
      <3>1. r.ReqCh = ent[f].ReqCh /\ (r.NLType <=> f \in NL) /\ g.st[f] \in {"queued", "sent"}
        BY <2>1, <1>4 DEF SentAt
      <3>2. r.ReqCh = 0 BY <1>2 DEF CardGives, RqForm
      <3>3. QED BY <3>1, <3>2, <1>1
    <2>4. \A k \in Plain(h, d) : PlainAt(h, f, k)'
      <3>1. PlainAt(h, f, n)' BY <2>2, <2>3, <1>1, <1>4 DEF PlainAt
      <3>2. QED BY <3>1, <2>1
    <2>5. \A k \in Labels(h, d) : Owner[h.R[k].RcCh] = f
      <3>1. \A k \in Labels(g, d) : Owner[g.R[k].RcCh] = f BY <1>1, Parts DEF Msgs
      <3>2. QED BY <3>1, <1>3, <1>4 DEF SameItems, Labels
    <2>6. Cardinality({n}) = 1 /\ Cardinality({}) = 0 BY FS_Singleton, FS_EmptySet
    <2>7. ent'[f].XMOREC = Cardinality(Plain(h, d)) + Cardinality(Sent(h, d))
      BY <2>1, <2>6, <1>5
    <2>8. QED BY <2>4, <2>5, <2>7, <1>5 DEF Msgs
  <1>7. \A c \in Chan : ent[Owner[c]].Id = d => Flow(h, c)'
    <2> TAKE c \in Chan
    <2> HAVE ent[Owner[c]].Id = d
    <2>1. PICK o : o = Owner[c] OBVIOUS
    <2>2. o \in Entity /\ c # 0 BY <2>1 DEF XdiAssumption
    <2>3. Flow(g, c)
      <3>1. Flows(g) BY Parts
      <3>2. QED BY <3>1, <1>1 DEF Flows
    <2>4. Plain(g, d) = {} /\ wait[o] /\ ent[o].Req = "REMOVE"
      BY <2>1, <2>2, <1>1 DEF Removing
    <2>5. PICK L : L = Lab(g, c, d) OBVIOUS
    <2>6. Lab(h, c, d) = L BY <2>5, <1>3, <1>4 DEF Lab, SameItems, Labels
    <2>7. \A rc : Says(h, c, d, rc) = {} /\ Says(g, c, d, rc) = {}
      BY <2>2, <2>4, <1>1, <1>3, <1>4 DEF Says
    <2>8. LabelsFollow(L, {}, c \in clFc)
      <3>1. LabelsFollow(L, Says(g, c, d, "OK_FC"), c \in clFc) BY <2>1, <2>3, <2>5, FlowParts
      <3>2. QED BY <3>1, <2>7
    <2>9. /\ (fcId[c] = d /\ ent[o].No \notin noCancel => c \in clFc)
          /\ (wait[o] /\ ent[o].ReqCh = c /\ ent[o].Req = "DATA" => c \notin fcPend)
          /\ (wait[o] /\ ent[o].ReqCh = c /\ c \in clFc => c \in clSkip)
      <3>1. d = ent[o].Id BY <2>1
      <3>2. /\ (fcId[c] = d /\ ent[o].No \notin noCancel => c \in clFc)
            /\ (wait[o] /\ ent[o].ReqCh = c /\ c \in clFc => c \in clSkip)
        BY <2>1, <2>3, <3>1 DEF Flow
      <3>3. wait[o] /\ ent[o].ReqCh = c /\ ent[o].Req = "DATA" => c \notin fcPend
        BY <2>4
      <3>4. QED BY <3>2, <3>3
    <2>10. /\ (fcId'[c] = d /\ ent'[o].No \notin noCancel' => c \in clFc')
           /\ (wait'[o] /\ ent'[o].ReqCh = c /\ ent'[o].Req = "DATA" => c \notin fcPend')
           /\ (wait'[o] /\ ent'[o].ReqCh = c /\ c \in clFc' => c \in clSkip')
           /\ wait'[o] /\ ent'[o].Req = "REMOVE" /\ d = ent'[o].Id
      BY <2>1, <2>4, <2>9
    <2>11. LabelsFollow(Lab(h, c, d), Says(h, c, d, "OK_FC"), c \in clFc')
      BY <2>6, <2>7, <2>8
    <2>12. QED BY <2>1, <2>7, <2>10, <2>11, FlowBuild
  <1>8. QED BY <1>6, <1>7

\* The card takes a REMOVE: the Id is free.
LEMMA RemoveKeeps ==
    ASSUME XdiAssumption, NEW g, Whole(g), TypeOK', CardRemove
    PROVE  \E h : Whole(h)'
  <1>1. /\ TypeOK /\ GhostType(g) /\ Pipes(g) /\ Forms(g) /\ Assigns(g) /\ Refs(g)
        /\ held \subseteq Chan \X Ids /\ 0 \notin Ids
    BY Parts DEF XdiAssumption
  <1>2. PICK r : r = Head(inbox) OBVIOUS
  <1>3. RqForm(r) /\ r \in REQ
    <2>1. inbox # <<>> BY DEF CardRemove
    <2>2. QED BY <2>1, <1>1, <1>2, HeadRq
  <1>4. r.Req = "REMOVE" /\ r.ReqCh = 0 /\ r.ReqId # 0 /\ r.ReqId \in Ids
    BY <1>2, <1>3 DEF CardRemove, RqForm, REQ
  <1>5. PICK d0 : d0 = r.ReqId OBVIOUS
  <1>6. PICK m : m = Answer("OK", r.ReqId, r.ReqCh, 0,
                            IF r.NLType THEN "REMOVE_COMPLETE" ELSE "none")
    OBVIOUS
  <1>7. /\ CardConsume(<<m>>) /\ inbox # <<>>
        /\ cardIds' = cardIds \ {d0} /\ held' = {x \in held : x[2] # d0}
    BY <1>2, <1>4, <1>5, <1>6 DEF CardRemove
  <1>8. m \in RC /\ RcForm(m)
    <2>1. /\ m.Rc = "OK" /\ m.RcId = d0 /\ m.RcCh = 0 /\ m.Reference = 0
          /\ m.Ext \in {"REMOVE_COMPLETE", "none"}
          /\ m = Answer("OK", d0, 0, 0, m.Ext)
      BY <1>4, <1>5, <1>6 DEF Answer
    <2>2. m \in RC BY <2>1, <1>4, <1>5 DEF Answer, RC, RcCode, RcType, ChanNo
    <2>3. QED BY <2>1, <2>2, <1>4, <1>5 DEF RcForm
  <1>9. PICK h, p, n : CardGives(g, h, p, n, r, m) /\ Pipes(h)' /\ h.ans = g.ans
    <2>1. PICK A : A = g.ans OBVIOUS
    <2>2. A \in Nat /\ g.done <= A /\ A <= Len(g.S) BY <2>1, <1>1, GhostParts
    <2>3. TypeOK /\ GhostType(g) /\ Pipes(g) /\ Forms(g) BY <1>1
    <2>4. inbox # <<>> /\ CardConsume(<<m>>) BY <1>7
    <2>5. \E h, p, n : CardGives(g, h, p, n, Head(inbox), m) /\ Pipes(h)' /\ h.ans = A
      BY <2>2, <2>3, <2>4, <1>8, CardAnswers
    <2>6. QED BY <2>1, <2>5, <1>2
  <1>10. /\ h.q = g.q /\ h.out = g.out /\ h.S = g.S /\ h.done = g.done /\ h.st = g.st
         /\ UNCHANGED <<wait, fcPend, clFc, clSkip, ent, tbl, next, ref, head, tail, assign,
                   IdTable, fcId, rmPending, noCancel, trapped, pc, phase, cur, rcBuf, irq,
                   batch>>
    BY <1>7, <1>9, CardFrames DEF CardGives, CardConsume
  <1>11. CardSame(g, h) BY <1>10 DEF CardSame
  <1>12. /\ GhostType(h) /\ Forms(h) /\ SameItems(g, h)
         /\ RLive(h) = RLive(g) \cup {n} /\ h.R[n] = m
         /\ RqLive(h) = RqLive(g) \ {p} /\ g.Q[p] = r
    BY <1>9 DEF CardGives
  <1>13. RemoveGiven(g, h, p, n, r, m) BY <1>4, <1>6, <1>9 DEF RemoveGiven
  <1>14. /\ d0 \in Ids /\ d0 # 0 /\ Sent(g, d0) = {p} /\ News(g, d0) = {}
         /\ m.Rc = "OK" /\ m.RcId = d0 /\ m.RcCh = 0 /\ m.Reference = 0 /\ m.Ext # "OK_FC"
         /\ \A f \in Entity : ent[f].Id = d0 => Removing(g, f)
    BY <1>5, <1>13, RemoveIs
  <1>15. /\ \A d \in Ids : d # d0 => SameMsgs(g, h, d)
         /\ Sent(h, d0) = {} /\ News(h, d0) = {}
    <2>1. \A d \in Ids : /\ (d # d0 => SameMsgs(g, h, d))
                         /\ (d = d0 => /\ News(h, d) = News(g, d)
                                       /\ Sent(h, d) = Sent(g, d) \ {p})
      <3> TAKE d \in Ids
      <3>1. CardGives(g, h, p, n, r, m) BY <1>9
      <3>2. r.ReqId = m.RcId /\ m.Ext # "OK_FC" /\ m.Rc # "ASSIGN_OK" BY <1>5, <1>14
      <3>3. QED BY <3>1, <3>2, <1>14, GivesViews
    <2>2. QED BY <2>1, <1>14
  <1>16. Refs(h)' /\ r.Reference = 0
    <2>1. CardGives(g, h, p, n, r, m) /\ h.ans = g.ans BY <1>9
    <2>2. r.Req # "ASSIGN" /\ m.Reference = 0 /\ UNCHANGED ref BY <1>4, <1>10, <1>14
    <2>3. QED BY <2>1, <2>2, GivesRefs
  <1>17. \A f : (Removing(h, f)' <=> Removing(g, f)) /\ ent'[f] = ent[f]
    BY <1>10 DEF Removing
  <1>18. \A d : Unowned(d)' <=> Unowned(d) BY <1>17 DEF Unowned
  <1>19. \A d \in Ids : IdAt(h, d)'
    <2> TAKE d \in Ids
    <2>1. CASE d # d0
      <3>1. IdAt(g, d) BY Parts
      <3>2. SameMsgs(g, h, d) BY <2>1, <1>15
      <3>3. \A j \in RLive(h) : j \in RLive(g) \/ h.R[j].RcId # d BY <2>1, <1>12, <1>14
      <3>4. \A x \in held' : x[2] = d => x \in held BY <1>7
      <3>5. d \in cardIds' <=> d \in cardIds BY <2>1, <1>7
      <3>6. QED BY <3>1, <3>2, <3>3, <3>4, <3>5, <1>12, <1>17, <1>18, IdFrame
    <2>2. CASE d = d0
      <3>1. Sent(h, d) = {} /\ News(h, d) = {} BY <2>2, <1>15
      <3>2. \A e \in Entity : ent'[e].Id = d => Removing(h, e)' BY <2>2, <1>14, <1>17
      <3>3. QED BY <3>1, <3>2 DEF IdAt
    <2>3. QED BY <2>1, <2>2
  <1>20. \A c \in Chan, d \in Ids : <<c, d>> \in held' =>
            d # d0 /\ <<c, d>> \in held /\ HoldAt(h, c, d)'
    <2> TAKE c \in Chan, d \in Ids
    <2> HAVE <<c, d>> \in held'
    <2>1. d # d0 /\ <<c, d>> \in held
      <3>1. <<c, d>>[2] = d OBVIOUS
      <3>2. QED BY <3>1, <1>7
    <2>2. HoldAt(g, c, d) BY <2>1, Parts
    <2>3. d \in cardIds' BY <2>1, <2>2, <1>7 DEF HoldAt
    <2>4. \A k \in SLive(g) : ref[g.S[k]] # 0 BY <1>1 DEF Assigns
    <2>5. Sent(h, d) = Sent(g, d) BY <2>1, <1>15 DEF SameMsgs
    <2>6. PICK o : o = Owner[c] OBVIOUS
    <2>7. \A k \in RqLive(g) : k \in RqLive(h) \/ g.Q[k].Reference = 0 BY <1>12, <1>16
    <2>8. HoldAt(h, c, d)'
      BY <2>2, <2>3, <2>4, <2>5, <2>6, <2>7, <1>1, <1>10, <1>12, <1>17, <1>18, HoldFrame
    <2>9. QED BY <2>1, <2>8
  <1>21. \A c \in Chan, d \in Ids : d # d0 => (<<c, d>> \in held' <=> <<c, d>> \in held)
    <2> TAKE c \in Chan, d \in Ids
    <2>1. <<c, d>>[2] = d OBVIOUS
    <2>2. QED BY <2>1, <1>7
  <1>22. UNCHANGED <<ent, wait, clFc, fcPend, clSkip, fcId, noCancel>> BY <1>10
  <1>23. \A d \in Ids : /\ \A f \in Entity : ent[f].Id = d => Msgs(h, f)'
                        /\ \A c \in Chan : ent[Owner[c]].Id = d => Flow(h, c)'
    <2> TAKE d \in Ids
    <2>1. CASE d # d0
      <3>1. SameMsgs(g, h, d) BY <2>1, <1>15
      <3>2. \A c \in Chan : <<c, d>> \in held' <=> <<c, d>> \in held BY <2>1, <1>21
      <3>3. SameItems(g, h) /\ h.st = g.st BY <1>10, <1>12
      <3>4. QED BY <3>1, <3>2, <3>3, <1>22, OtherId
    <2>2. CASE d = d0
      <3>1. \A c \in Chan : <<c, d>> \notin held' BY <2>2, <1>20
      <3>2. QED BY <2>2, <3>1, <1>5, <1>13, <1>22, RemoveOwner
    <2>3. QED BY <2>1, <2>2
  <1>24. \A f \in Entity : Msgs(h, f)'
    <2> TAKE f \in Entity
    <2>1. ent[f].Id \in Ids \cup {0} BY <1>1, EntityTypes
    <2>2. CASE ent[f].Id = 0 BY <2>2, <1>17 DEF Msgs
    <2>3. QED BY <2>1, <2>2, <1>23
  <1>25. \A c \in Chan : ent[Owner[c]].Id # 0 => Flow(h, c)'
    <2> TAKE c \in Chan
    <2> HAVE ent[Owner[c]].Id # 0
    <2>1. Owner[c] \in Entity BY DEF XdiAssumption
    <2>2. ent[Owner[c]].Id \in Ids BY <2>1, <1>1, EntityTypes
    <2>3. QED BY <2>2, <1>23
  <1>26. held' \subseteq Chan \X Ids BY <1>1, <1>7
  <1>27. \A c \in Chan, d \in Ids : <<c, d>> \in held' => HoldAt(h, c, d)' BY <1>20
  <1>28. QED BY <1>9, <1>11, <1>12, <1>16, <1>19, <1>27, <1>24, <1>25, <1>26, CardKeeps

\* The card takes a data or control request r and answers it with m.
DataGiven(g, h, p, n, r, m) ==
    /\ CardGives(g, h, p, n, r, m)
    /\ r.Req \in {"MDATA", "DATA", "CTRL"} /\ r.ReqId \in Ids
    /\ m.Rc \in {"OK", "OK_FC", "ERR"}
    /\ m = Answer(m.Rc, r.ReqId, r.ReqCh, 0, "none")

\* What it says of the channel
DataHeld(r, m) ==
    \/ m.Rc = "OK" /\ r.ReqCh \notin HeldCh /\ UNCHANGED held
    \/ /\ m.Rc = "OK_FC" /\ r.ReqCh \in Chan /\ r.Req # "MDATA"
       /\ held' = held \cup {<<r.ReqCh, r.ReqId>>}
    \/ m.Rc = "ERR" /\ r.ReqCh \in HeldCh /\ held' = {x \in held : x[1] # r.ReqCh}

\* Entity e has the Id, and its request is still on its way.
DataOf(g, e, d, p, r) ==
    /\ e \in Entity /\ ent[e].Id = d /\ p \in Sent(g, d) /\ News(g, d) = {}
    /\ d \in cardIds /\ g.st[e] \in {"queued", "sent"} /\ wait[e]
    /\ ent[e].Req \in {"DATA", "CTRL"} /\ ~Removing(g, e)
    /\ r.ReqCh = ent[e].ReqCh /\ (r.ReqCh # 0 => r.ReqCh \in Chan /\ Owner[r.ReqCh] = e)
    /\ \A k \in Plain(g, d) : g.R[k].Rc = "OK"
    /\ (r.Req # "MDATA" => /\ r.Req = ent[e].Req /\ g.st[e] = "sent"
                           /\ Sent(g, d) = {p})
    /\ (r.Req = "MDATA" => ent[e].Req = "DATA")

\* What the invariant says of the data or control request that the card takes.
LEMMA DataIs ==
    ASSUME XdiAssumption, NEW g, Whole(g), NEW h, NEW p, NEW n, NEW r, NEW m,
           DataGiven(g, h, p, n, r, m), NEW d, d = r.ReqId
    PROVE  /\ \E e : DataOf(g, e, d, p, r)
           /\ d \in Ids /\ d # 0 /\ m.RcId = d /\ m.RcCh = r.ReqCh /\ m.Reference = 0
           /\ m.Ext = "none" /\ m.Rc \in {"OK", "OK_FC", "ERR"}
  <1>1. /\ d \in Ids /\ p \in RqLive(g) /\ g.Q[p] = r /\ RqForm(r)
        /\ r.Req \in {"MDATA", "DATA", "CTRL"} /\ p \in Int
        /\ \A k \in RqLive(g) : k \in Int /\ p <= k
    BY DEF DataGiven, CardGives
  <1>2. d # 0 BY <1>1 DEF XdiAssumption
  <1>3. p \in Sent(g, d) BY <1>1 DEF Sent
  <1>4. IdAt(g, d) BY <1>1, Parts
  <1>5. d \in cardIds /\ News(g, d) = {} /\ ~Unowned(d) BY <1>1, <1>3, <1>4 DEF IdAt
  <1>6. PICK e \in Entity : ent[e].Id = d BY <1>5 DEF Unowned
  <1>7. SentAt(g, e, p) BY <1>2, <1>3, <1>6, Parts DEF Msgs
  <1>8. /\ g.st[e] \in {"queued", "sent"} /\ r.ReqCh = ent[e].ReqCh
        /\ (r.Req = "MDATA" => ent[e].Req = "DATA")
        /\ (r.Req # "MDATA" => /\ r.Req = ent[e].Req /\ g.st[e] = "sent"
                               /\ \A j \in Sent(g, d) : j <= p)
    BY <1>1, <1>6, <1>7 DEF SentAt
  <1>9. ent[e].Req \in {"DATA", "CTRL"} /\ ~Removing(g, e) BY <1>1, <1>8 DEF Removing
  <1>10. EntityAt(e, g.st[e]) BY <1>6, Parts
  <1>11. wait[e] /\ ent[e].ReqCh \in ChansOf(e) \cup {0} BY <1>8, <1>10 DEF EntityAt
  <1>12. r.ReqCh # 0 => r.ReqCh \in Chan /\ Owner[r.ReqCh] = e BY <1>8, <1>11 DEF ChansOf
  <1>13. \A k \in Plain(g, d) : g.R[k].Rc = "OK"
    <2> TAKE k \in Plain(g, d)
    <2>1. PlainAt(g, e, k) BY <1>2, <1>6, Parts DEF Msgs
    <2>2. QED BY <2>1, <1>3, <1>6 DEF PlainAt
  <1>14. r.Req # "MDATA" => Sent(g, d) = {p}
    <2>1. \A j \in Sent(g, d) : j \in Int /\ p <= j BY <1>1 DEF Sent
    <2>2. QED BY <2>1, <1>1, <1>3, <1>8
  <1>15. DataOf(g, e, d, p, r)
    BY <1>3, <1>5, <1>6, <1>8, <1>9, <1>11, <1>12, <1>13, <1>14 DEF DataOf
  <1>16. /\ m.RcId = d /\ m.RcCh = r.ReqCh /\ m.Reference = 0 /\ m.Ext = "none"
         /\ m.Rc \in {"OK", "OK_FC", "ERR"}
    <2>1. m = Answer(m.Rc, r.ReqId, r.ReqCh, 0, "none") /\ m.Rc \in {"OK", "OK_FC", "ERR"}
      BY DEF DataGiven
    <2>2. PICK x : x = m.Rc OBVIOUS
    <2>3. m = Answer(x, r.ReqId, r.ReqCh, 0, "none") BY <2>1, <2>2
    <2>4. QED BY <2>1, <2>3 DEF Answer
  <1>17. QED BY <1>1, <1>2, <1>15, <1>16

\* The channels that are held belong to the Ids of their entities.
LEMMA HeldOfOwner ==
    ASSUME XdiAssumption, NEW g, Whole(g), NEW e \in Entity, ent[e].Id # 0
    PROVE  /\ \A c \in Chan, y \in Ids : <<c, y>> \in held /\ Owner[c] = e => y = ent[e].Id
           /\ \A c \in Chan : <<c, ent[e].Id>> \in held => Owner[c] = e
  <1>1. \A c \in Chan, y \in Ids : <<c, y>> \in held => HoldAt(g, c, y) BY Parts
  <1>2. \A c \in Chan, y \in Ids : <<c, y>> \in held /\ Owner[c] = e => y = ent[e].Id
    BY <1>1 DEF HoldAt
  <1>3. \A c \in Chan : <<c, ent[e].Id>> \in held => Owner[c] = e
    <2> TAKE c \in Chan
    <2> HAVE <<c, ent[e].Id>> \in held
    <2>1. ent[e].Id \in Ids BY EntityTypes, Parts
    <2>2. ~Unowned(ent[e].Id) BY DEF Unowned
    <2>3. ent[Owner[c]].Id = ent[e].Id BY <2>1, <2>2, <1>1 DEF HoldAt
    <2>4. Owner[c] \in Entity BY DEF XdiAssumption
    <2>5. QED BY <2>3, <2>4, UniqueId
  <1>4. QED BY <1>2, <1>3

\* A request on a held channel that is rejected is a control request, and
\* the client knows of the flow control.
LEMMA RejectedIs ==
    ASSUME XdiAssumption, NEW g, Whole(g), NEW e, NEW d \in Ids, NEW p, NEW r,
           DataOf(g, e, d, p, r), r.Req \in {"MDATA", "DATA", "CTRL"}, r.ReqCh \in HeldCh
    PROVE  /\ r.ReqCh \in Chan /\ <<r.ReqCh, d>> \in held
           /\ r.ReqCh \in clFc /\ Lab(g, r.ReqCh, d) = {}
           /\ ent[e].Req = "CTRL" /\ r.Req # "MDATA"
  <1>1. held \subseteq Chan \X Ids /\ Flows(g) BY Parts
  <1>2. PICK c : c = r.ReqCh OBVIOUS
  <1>3. PICK y \in Ids : c \in Chan /\ <<c, y>> \in held BY <1>1, <1>2 DEF HeldCh
  <1>4. /\ e \in Entity /\ ent[e].Id = d /\ d # 0 /\ wait[e] /\ ent[e].ReqCh = c
        /\ ent[e].Req \in {"DATA", "CTRL"} /\ (r.Req = "MDATA" => ent[e].Req = "DATA")
        /\ \A k \in Plain(g, d) : g.R[k].Rc = "OK"
    BY <1>2 DEF DataOf, XdiAssumption
  <1>5. Owner[c] = e
    <2>1. c # 0 BY <1>3 DEF XdiAssumption
    <2>2. QED BY <2>1, <1>2 DEF DataOf
  <1>6. y = d BY <1>3, <1>4, <1>5, HeldOfOwner
  <1>7. Flow(g, c) /\ clFc \subseteq fcPend BY <1>1, <1>3, <1>4, <1>5 DEF Flows
  <1>8. Says(g, c, d, "OK_FC") = {} BY <1>4 DEF Says
  <1>9. /\ HeldFor(Lab(g, c, d), Says(g, c, d, "OK_FC"), c \in clFc)
        /\ (wait[e] /\ ent[e].ReqCh = c /\ ent[e].Req = "DATA" => c \notin fcPend)
    BY <1>3, <1>4, <1>5, <1>6, <1>7, FlowParts
  <1>10. c \in clFc /\ Lab(g, c, d) = {} BY <1>8, <1>9 DEF HeldFor
  <1>11. ent[e].Req = "CTRL" BY <1>4, <1>7, <1>9, <1>10
  <1>12. QED BY <1>2, <1>3, <1>4, <1>6, <1>10, <1>11

\* The messages of the entity
LEMMA DataMsgs ==
    ASSUME XdiAssumption, NEW g, Whole(g), NEW h, NEW p, NEW n, NEW r, NEW m,
           DataGiven(g, h, p, n, r, m), NEW d, d = r.ReqId, NEW e, DataOf(g, e, d, p, r),
           UNCHANGED ent,
           m.Rc # "OK" => r.Req # "MDATA", m.Rc = "ERR" => ent[e].Req = "CTRL"
    PROVE  Msgs(h, e)'
  <1>1. /\ d \in Ids /\ d # 0 /\ m.RcId = d /\ m.RcCh = r.ReqCh /\ m.Reference = 0
        /\ m.Ext = "none" /\ m.Rc \in {"OK", "OK_FC", "ERR"}
    BY DataIs
  <1>2. CardGives(g, h, p, n, r, m) BY DEF DataGiven
  <1>3. /\ Plain(h, d) = Plain(g, d) \cup {n} /\ Labels(h, d) = Labels(g, d)
        /\ Sent(h, d) = Sent(g, d) \ {p}
    <2>1. m.Ext # "OK_FC" /\ m.Rc # "ASSIGN_OK" /\ r.ReqId = m.RcId BY <1>1
    <2>2. QED BY <1>1, <1>2, <2>1, GivesViews
  <1>4. /\ SameItems(g, h) /\ h.R[n] = m /\ g.Q[p] = r /\ h.st = g.st /\ n \notin RLive(g)
        /\ n \in Int /\ \A k \in RLive(g) : k \in Int /\ k < n
    BY <1>2 DEF CardGives
  <1>5. /\ e \in Entity /\ ent[e].Id = d /\ p \in Sent(g, d)
        /\ g.st[e] \in {"queued", "sent"} /\ ent[e].Req \in {"DATA", "CTRL"}
        /\ ~Removing(g, e) /\ r.ReqCh = ent[e].ReqCh
        /\ \A k \in Plain(g, d) : g.R[k].Rc = "OK"
        /\ (r.Req # "MDATA" => g.st[e] = "sent" /\ Sent(g, d) = {p})
    BY DEF DataOf
  <1>6. Msgs(g, e) /\ GhostType(g) BY <1>5, Parts
  <1>7. ~Removing(h, e)' BY <1>4, <1>5 DEF Removing
  <1>8. \A k \in Sent(h, d) : SentAt(h, e, k)'
    <2> TAKE k \in Sent(h, d)
    <2>1. k \in Sent(g, d) /\ h.Q[k] = g.Q[k] BY <1>3, <1>4 DEF SameItems, Sent
    <2>2. SentAt(g, e, k) BY <2>1, <1>1, <1>5, <1>6 DEF Msgs
    <2>3. \A j \in Sent(h, d) : j \in Sent(g, d) BY <1>3
    <2>4. QED BY <2>1, <2>2, <2>3, <1>4, <1>5 DEF SentAt
  <1>9. \A k \in Plain(h, d) : PlainAt(h, e, k)'
    <2> TAKE k \in Plain(h, d)
    <2>1. CASE k \in Plain(g, d)
      <3>1. h.R[k] = g.R[k] BY <2>1, <1>4 DEF SameItems, Plain
      <3>2. PlainAt(g, e, k) BY <2>1, <1>1, <1>5, <1>6 DEF Msgs
      <3>3. g.R[k].Rc = "OK" BY <2>1, <1>5
      <3>4. QED BY <3>1, <3>2, <3>3, <1>4, <1>5, <1>7 DEF PlainAt
    <2>2. CASE k = n
      <3>1. m.Rc # "OK" => g.st[e] = "sent" /\ Sent(h, d) = {} BY <1>3, <1>5
      <3>2. \A j \in Plain(h, d) : j <= n
        <4>1. \A j \in Plain(g, d) : j <= n BY <1>4 DEF Plain
        <4>2. QED BY <4>1, <1>3, <1>4
      <3>3. QED BY <3>1, <3>2, <2>2, <1>1, <1>4, <1>5, <1>7 DEF PlainAt
    <2>3. QED BY <2>1, <2>2, <1>3
  <1>10. \A k \in Labels(h, d) : Owner[h.R[k].RcCh] = e
    <2>1. \A k \in Labels(g, d) : Owner[g.R[k].RcCh] = e BY <1>1, <1>5, <1>6 DEF Msgs
    <2>2. QED BY <2>1, <1>3, <1>4 DEF SameItems, Labels
  <1>11. ent'[e].XMOREC = Cardinality(Plain(h, d)) + Cardinality(Sent(h, d))
    <2>1. ent[e].XMOREC = Cardinality(Plain(g, d)) + Cardinality(Sent(g, d))
      BY <1>1, <1>5, <1>6 DEF Msgs
    <2>2. /\ IsFiniteSet(Plain(g, d)) /\ IsFiniteSet(Sent(g, d))
          /\ Cardinality(Plain(g, d)) \in Nat /\ Cardinality(Sent(g, d)) \in Nat
      BY <1>6, FiniteMsgs
    <2>3. n \notin Plain(g, d) BY <1>4 DEF Plain
    <2>4. Cardinality(Plain(h, d)) = Cardinality(Plain(g, d)) + 1
      BY <2>2, <2>3, <1>3, CardAdd
    <2>5. Cardinality(Sent(h, d)) = Cardinality(Sent(g, d)) - 1
      BY <2>2, <1>3, <1>5, CardDrop
    <2>6. QED BY <2>1, <2>2, <2>4, <2>5
  <1>12. QED BY <1>5, <1>8, <1>9, <1>10, <1>11 DEF Msgs

\* The flow control of the channel of the request
LEMMA DataFlow ==
    ASSUME XdiAssumption, NEW g, Whole(g), NEW h, NEW p, NEW n, NEW r, NEW m,
           DataGiven(g, h, p, n, r, m), NEW d, d = r.ReqId, NEW e, DataOf(g, e, d, p, r),
           UNCHANGED <<ent, wait, clFc, fcPend, clSkip, fcId, noCancel>>,
           DataHeld(r, m), NEW c \in Chan, c = r.ReqCh
    PROVE  Flow(h, c)'
  <1>1. /\ d \in Ids /\ d # 0 /\ m.RcId = d /\ m.RcCh = c
        /\ m.Ext = "none" /\ m.Rc \in {"OK", "OK_FC", "ERR"}
    BY DataIs
  <1>2. CardGives(g, h, p, n, r, m) BY DEF DataGiven
  <1>3. Plain(h, d) = Plain(g, d) \cup {n} /\ Labels(h, d) = Labels(g, d)
    <2>1. m.Ext # "OK_FC" /\ m.Rc # "ASSIGN_OK" /\ r.ReqId = m.RcId BY <1>1
    <2>2. QED BY <1>1, <1>2, <2>1, GivesViews
  <1>4. /\ SameItems(g, h) /\ h.R[n] = m /\ n \notin RLive(g)
        /\ n \in Int /\ \A k \in RLive(g) : k \in Int /\ k < n
    BY <1>2 DEF CardGives
  <1>5. /\ e \in Entity /\ ent[e].Id = d /\ ent[e].Req \in {"DATA", "CTRL"}
        /\ \A k \in Plain(g, d) : g.R[k].Rc = "OK"
    BY DEF DataOf
  <1>6. e = Owner[c]
    <2>1. c # 0 BY DEF XdiAssumption
    <2>2. QED BY <2>1 DEF DataOf
  <1>7. Flow(g, c)
    <2>1. Flows(g) BY Parts
    <2>2. QED BY <2>1, <1>1, <1>5, <1>6 DEF Flows
  <1>8. PICK L, O : L = Lab(g, c, d) /\ O = Says(g, c, d, "OK") OBVIOUS
  <1>9. Says(g, c, d, "OK_FC") = {} /\ Says(g, c, d, "ERR") = {} BY <1>5 DEF Says
  <1>10. /\ LabelsFollow(L, {}, c \in clFc)
         /\ (<<c, d>> \in held => HeldFor(L, {}, c \in clFc))
         /\ \A k \in O : c \in clFc => \E j \in L : j < k
         /\ (c \in clFc => <<c, d>> \in held \/ L # {})
         /\ (fcId[c] = d /\ ent[e].No \notin noCancel => c \in clFc)
         /\ (wait[e] /\ ent[e].ReqCh = c /\ ent[e].Req = "DATA" => c \notin fcPend)
         /\ (wait[e] /\ ent[e].ReqCh = c /\ c \in clFc => c \in clSkip)
    <2>1. d = ent[e].Id BY <1>5
    <2>2. /\ LabelsFollow(Lab(g, c, d), Says(g, c, d, "OK_FC"), c \in clFc)
          /\ (<<c, d>> \in held =>
                HeldFor(Lab(g, c, d), Says(g, c, d, "OK_FC"), c \in clFc))
          /\ \A k \in Says(g, c, d, "OK") : c \in clFc => \E j \in Lab(g, c, d) : j < k
      BY <2>1, <1>6, <1>7, FlowParts
    <2>3. c \in clFc => \/ <<c, d>> \in held \/ Lab(g, c, d) # {}
                        \/ Says(g, c, d, "ERR") # {}
                        \/ wait[e] /\ ent[e].Req = "REMOVE"
      BY <2>1, <1>6, <1>7, FlowParts
    <2>4. (fcId[c] = d /\ ent[e].No \notin noCancel => c \in clFc)
      BY <2>1, <1>6, <1>7 DEF Flow
    <2>5. (wait[e] /\ ent[e].ReqCh = c /\ ent[e].Req = "DATA" => c \notin fcPend)
      BY <2>1, <1>6, <1>7 DEF Flow
    <2>6. (wait[e] /\ ent[e].ReqCh = c /\ c \in clFc => c \in clSkip)
      BY <2>1, <1>6, <1>7 DEF Flow
    <2>7. QED BY <2>2, <2>3, <2>4, <2>5, <2>6, <1>5, <1>8, <1>9
  <1>11. Lab(h, c, d) = L BY <1>3, <1>4, <1>8 DEF Lab, SameItems, Labels
  <1>12. \A rc : Says(h, c, d, rc) = (IF m.Rc = rc THEN Says(g, c, d, rc) \cup {n}
                                                   ELSE Says(g, c, d, rc))
    <2> TAKE rc
    <2>1. \A k \in Plain(g, d) : h.R[k] = g.R[k] BY <1>4 DEF SameItems, Plain
    <2>2. QED BY <2>1, <1>1, <1>3, <1>4 DEF Says
  <1>13. \A l \in L : l \in Int /\ l < n
    <2>1. L \subseteq RLive(g) BY <1>8 DEF Lab, Labels
    <2>2. QED BY <2>1, <1>4
  <1>14. /\ d = ent'[e].Id
         /\ (fcId'[c] = d /\ ent'[e].No \notin noCancel' => c \in clFc')
         /\ (wait'[e] /\ ent'[e].ReqCh = c /\ ent'[e].Req = "DATA" => c \notin fcPend')
         /\ (wait'[e] /\ ent'[e].ReqCh = c /\ c \in clFc' => c \in clSkip')
    BY <1>5, <1>10
  <1>15. LabelsFollow(L, {n}, c \in clFc) 
    <2>1. \A j \in L : c \in clFc /\ \A l \in L : l >= j BY <1>10 DEF LabelsFollow
    <2>2. QED BY <2>1 DEF LabelsFollow
  <1>16. CASE m.Rc = "OK" /\ r.ReqCh \notin HeldCh /\ UNCHANGED held
    <2>1. <<c, d>> \notin held
      <3>1. <<c, d>>[1] = c OBVIOUS
      <3>2. QED BY <3>1, <1>16 DEF HeldCh
    <2>2. <<c, d>> \notin held' BY <2>1, <1>16
    <2>3. /\ Says(h, c, d, "OK_FC") = {} /\ Says(h, c, d, "ERR") = {}
          /\ Says(h, c, d, "OK") = O \cup {n}
      BY <1>8, <1>9, <1>12, <1>16
    <2>4. c \in clFc => L # {} BY <2>1, <1>10
    <2>5. \A k \in O \cup {n} : c \in clFc => \E j \in L : j < k BY <2>4, <1>10, <1>13
    <2>6. LabelsFollow(Lab(h, c, d), Says(h, c, d, "OK_FC"), c \in clFc')
      BY <2>3, <1>10, <1>11
    <2>7. QED BY <2>2, <2>3, <2>4, <2>5, <2>6, <1>6, <1>11, <1>14, FlowBuild
  <1>17. CASE m.Rc = "OK_FC" /\ held' = held \cup {<<r.ReqCh, r.ReqId>>}
    <2>1. <<c, d>> \in held' BY <1>17
    <2>2. /\ Says(h, c, d, "OK_FC") = {n} /\ Says(h, c, d, "ERR") = {}
          /\ Says(h, c, d, "OK") = O
      BY <1>8, <1>9, <1>12, <1>17
    <2>3. LabelsFollow(Lab(h, c, d), Says(h, c, d, "OK_FC"), c \in clFc')
      BY <2>2, <1>11, <1>15
    <2>4. HeldFor(Lab(h, c, d), Says(h, c, d, "OK_FC"), c \in clFc')
      BY <2>2, <1>11, <1>13 DEF HeldFor
    <2>5. \A k \in Says(h, c, d, "OK") : c \in clFc' => \E j \in Lab(h, c, d) : j < k
      BY <2>2, <1>10, <1>11
    <2>6. QED BY <2>1, <2>2, <2>3, <2>4, <2>5, <1>6, <1>14, FlowBuild
  <1>18. CASE m.Rc = "ERR" /\ r.ReqCh \in HeldCh /\ held' = {x \in held : x[1] # r.ReqCh}
    <2>1. <<c, d>> \notin held'
      <3>1. <<c, d>>[1] = c OBVIOUS
      <3>2. QED BY <3>1, <1>18
    <2>2. /\ Says(h, c, d, "OK_FC") = {} /\ Says(h, c, d, "ERR") = {n}
          /\ Says(h, c, d, "OK") = O
      BY <1>8, <1>9, <1>12, <1>18
    <2>3. c \in clFc /\ L = {}
      <3>1. r.Req \in {"MDATA", "DATA", "CTRL"} BY DEF DataGiven
      <3>2. d \in Ids /\ r.ReqCh \in HeldCh BY <1>1, <1>18
      <3>3. r.ReqCh \in clFc /\ Lab(g, r.ReqCh, d) = {} BY <3>1, <3>2, RejectedIs
      <3>4. QED BY <3>3, <1>8
    <2>4. LabelsFollow(Lab(h, c, d), Says(h, c, d, "OK_FC"), c \in clFc')
      BY <2>2, <1>10, <1>11
    <2>5. \A k \in Says(h, c, d, "OK") : c \in clFc' => \E j \in Lab(h, c, d) : j < k
      BY <2>2, <1>10, <1>11
    <2>6. QED BY <2>1, <2>2, <2>3, <2>4, <2>5, <1>6, <1>11, <1>14, FlowBuild
  <1>19. QED BY <1>16, <1>17, <1>18 DEF DataHeld

\* What DataHeld changes of the held channels
LEMMA DataHolds ==
    ASSUME XdiAssumption, NEW g, Whole(g), NEW h, NEW p, NEW n, NEW r, NEW m,
           DataGiven(g, h, p, n, r, m), NEW d, d = r.ReqId, NEW e, DataOf(g, e, d, p, r),
           DataHeld(r, m)
    PROVE  /\ held' \subseteq Chan \X Ids
           /\ \A c \in Chan, y \in Ids :
                 y # d \/ c # r.ReqCh => (<<c, y>> \in held' <=> <<c, y>> \in held)
           /\ \A c \in Chan : <<c, d>> \in held' => Owner[c] = e
           /\ \A x \in held' : x \in held \/ x[2] = d
           /\ (m.Rc # "OK" => r.Req # "MDATA") /\ (m.Rc = "ERR" => ent[e].Req = "CTRL")
  <1>1. held \subseteq Chan \X Ids BY Parts
  <1>2. /\ e \in Entity /\ ent[e].Id = d /\ d \in Ids /\ d # 0
        /\ (r.ReqCh # 0 => r.ReqCh \in Chan /\ Owner[r.ReqCh] = e)
    BY DEF DataOf, DataGiven, XdiAssumption
  <1>3. r.Req \in {"MDATA", "DATA", "CTRL"} BY DEF DataGiven
  <1>4. /\ \A c \in Chan, y \in Ids : <<c, y>> \in held /\ Owner[c] = e => y = d
        /\ \A c \in Chan : <<c, d>> \in held => Owner[c] = e
    BY <1>2, HeldOfOwner
  <1>5. \A c \in Chan : c # 0 BY DEF XdiAssumption
  <1>6. CASE m.Rc = "OK" /\ UNCHANGED held BY <1>1, <1>4, <1>6
  <1>7. CASE /\ m.Rc = "OK_FC" /\ r.ReqCh \in Chan /\ r.Req # "MDATA"
             /\ held' = held \cup {<<r.ReqCh, r.ReqId>>}
    <2>1. held' = held \cup {<<r.ReqCh, d>>} /\ <<r.ReqCh, d>>[2] = d BY <1>7
    <2>2. held' \subseteq Chan \X Ids BY <2>1, <1>1, <1>2, <1>7
    <2>3. Owner[r.ReqCh] = e BY <1>2, <1>5, <1>7
    <2>4. QED BY <2>1, <2>2, <2>3, <1>4, <1>7
  <1>8. CASE m.Rc = "ERR" /\ r.ReqCh \in HeldCh /\ held' = {x \in held : x[1] # r.ReqCh}
    <2>1. r.ReqCh \in Chan /\ r.Req # "MDATA" /\ ent[e].Req = "CTRL"
      BY <1>2, <1>3, <1>8, RejectedIs
    <2>2. Owner[r.ReqCh] = e BY <2>1, <1>2, <1>5
    <2>3. \A c \in Chan, y \in Ids :
                 y # d \/ c # r.ReqCh => (<<c, y>> \in held' <=> <<c, y>> \in held)
      <3> TAKE c \in Chan, y \in Ids
      <3>1. <<c, y>>[1] = c OBVIOUS
      <3>2. <<c, y>> \in held' <=> <<c, y>> \in held /\ c # r.ReqCh BY <3>1, <1>8
      <3>3. <<c, y>> \in held /\ c = r.ReqCh => y = d BY <2>2, <1>4
      <3>4. QED BY <3>2, <3>3
    <2>4. held' \subseteq held BY <1>8
    <2>5. QED BY <2>1, <2>3, <2>4, <1>1, <1>4
  <1>9. QED BY <1>6, <1>7, <1>8 DEF DataHeld

\* The card takes a data or control request.
LEMMA DataKeeps ==
    ASSUME XdiAssumption, NEW g, Whole(g), TypeOK', CardData
    PROVE  \E h : Whole(h)'
  <1>1. /\ TypeOK /\ GhostType(g) /\ Pipes(g) /\ Forms(g) /\ Assigns(g) /\ Refs(g)
        /\ 0 \notin Ids
    BY Parts DEF XdiAssumption
  <1>2. PICK r : r = Head(inbox) OBVIOUS
  <1>3. inbox # <<>> /\ r.Req \in {"MDATA", "DATA", "CTRL"} BY <1>2 DEF CardData
  <1>4. RqForm(r) /\ r \in REQ BY <1>1, <1>2, <1>3, HeadRq
  <1>5. r.ReqId \in Ids /\ r.ReqCh \in ChanNo BY <1>3, <1>4 DEF RqForm, REQ
  <1>6. PICK rc : /\ rc \in {"OK", "OK_FC", "ERR"}
                  /\ CardConsume(<<Answer(rc, r.ReqId, r.ReqCh, 0, "none")>>)
                  /\ \/ rc = "OK" /\ r.ReqCh \notin HeldCh /\ UNCHANGED held
                     \/ /\ rc = "OK_FC" /\ r.ReqCh \in Chan /\ r.Req # "MDATA"
                        /\ held' = held \cup {<<r.ReqCh, r.ReqId>>}
                     \/ /\ rc = "ERR" /\ r.ReqCh \in HeldCh
                        /\ held' = {x \in held : x[1] # r.ReqCh}
    <2>1. CASE /\ r.ReqCh \notin HeldCh /\ UNCHANGED held
               /\ CardConsume(<<Answer("OK", r.ReqId, r.ReqCh, 0, "none")>>)
      BY <2>1
    <2>2. CASE /\ r.ReqCh \in Chan /\ r.Req # "MDATA"
               /\ CardConsume(<<Answer("OK_FC", r.ReqId, r.ReqCh, 0, "none")>>)
               /\ held' = held \cup {<<r.ReqCh, r.ReqId>>}
      BY <2>2
    <2>3. CASE /\ r.ReqCh \in HeldCh
               /\ CardConsume(<<Answer("ERR", r.ReqId, r.ReqCh, 0, "none")>>)
               /\ held' = {x \in held : x[1] # r.ReqCh}
      BY <2>3
    <2>4. QED BY <2>1, <2>2, <2>3, <1>2 DEF CardData
  <1>7. PICK m : m = Answer(rc, r.ReqId, r.ReqCh, 0, "none") OBVIOUS
  <1>8. /\ m.Rc = rc /\ m.RcId = r.ReqId /\ m.RcCh = r.ReqCh /\ m.Reference = 0
        /\ m.Ext = "none" /\ m = Answer(m.Rc, r.ReqId, r.ReqCh, 0, "none")
    BY <1>7 DEF Answer
  <1>9. CardConsume(<<m>>) /\ UNCHANGED cardIds BY <1>6, <1>7 DEF CardData
  <1>10. DataHeld(r, m) BY <1>6, <1>8 DEF DataHeld
  <1>11. m \in RC /\ RcForm(m)
    <2>1. m \in RC BY <1>5, <1>6, <1>7 DEF Answer, RC, RcCode, RcType
    <2>2. m.Rc \in {"OK_FC", "ERR"} => m.RcCh \in Chan
      <3>1. r.ReqCh \in HeldCh => r.ReqCh \in Chan
        <4>1. held \subseteq Chan \X Ids BY Parts
        <4>2. QED BY <4>1 DEF HeldCh
      <3>2. QED BY <3>1, <1>6, <1>8
    <2>3. QED BY <2>1, <2>2, <1>1, <1>5, <1>6, <1>8 DEF RcForm
  <1>12. PICK h, p, n : CardGives(g, h, p, n, r, m) /\ Pipes(h)' /\ h.ans = g.ans
    <2>1. PICK A : A = g.ans OBVIOUS
    <2>2. A \in Nat /\ g.done <= A /\ A <= Len(g.S) BY <2>1, <1>1, GhostParts
    <2>3. TypeOK /\ GhostType(g) /\ Pipes(g) /\ Forms(g) BY <1>1
    <2>4. inbox # <<>> /\ CardConsume(<<m>>) BY <1>3, <1>9
    <2>5. \E h, p, n : CardGives(g, h, p, n, Head(inbox), m) /\ Pipes(h)' /\ h.ans = A
      BY <2>2, <2>3, <2>4, <1>11, CardAnswers
    <2>6. QED BY <2>1, <2>5, <1>2
  <1>13. /\ h.q = g.q /\ h.out = g.out /\ h.S = g.S /\ h.done = g.done /\ h.st = g.st
         /\ UNCHANGED <<wait, fcPend, clFc, clSkip, ent, tbl, next, ref, head, tail, assign,
                   IdTable, fcId, rmPending, noCancel, trapped, pc, phase, cur, rcBuf, irq,
                   batch>>
    BY <1>9, <1>12, CardFrames DEF CardGives, CardConsume
  <1>14. CardSame(g, h) BY <1>13 DEF CardSame
  <1>15. /\ GhostType(h) /\ Forms(h) /\ SameItems(g, h)
         /\ RLive(h) = RLive(g) \cup {n} /\ h.R[n] = m
         /\ RqLive(h) = RqLive(g) \ {p} /\ g.Q[p] = r
    BY <1>12 DEF CardGives
  <1>16. DataGiven(g, h, p, n, r, m) BY <1>3, <1>5, <1>6, <1>8, <1>12 DEF DataGiven
  <1>17. PICK d : d = r.ReqId OBVIOUS
  <1>18. PICK e : DataOf(g, e, d, p, r) BY <1>16, <1>17, DataIs
  <1>19. /\ e \in Entity /\ ent[e].Id = d /\ p \in Sent(g, d) /\ News(g, d) = {}
         /\ d \in cardIds /\ ~Removing(g, e) /\ d \in Ids /\ d # 0
    BY <1>1, <1>5, <1>17, <1>18 DEF DataOf
  <1>20. /\ held' \subseteq Chan \X Ids
         /\ \A c \in Chan, y \in Ids :
                 y # d \/ c # r.ReqCh => (<<c, y>> \in held' <=> <<c, y>> \in held)
         /\ \A c \in Chan : <<c, d>> \in held' => Owner[c] = e
         /\ \A x \in held' : x \in held \/ x[2] = d
         /\ (m.Rc # "OK" => r.Req # "MDATA") /\ (m.Rc = "ERR" => ent[e].Req = "CTRL")
    BY <1>10, <1>16, <1>17, <1>18, DataHolds
  <1>21. \A y \in Ids : /\ (y # d => SameMsgs(g, h, y))
                        /\ (y = d => /\ Plain(h, y) = Plain(g, y) \cup {n}
                                     /\ Labels(h, y) = Labels(g, y)
                                     /\ News(h, y) = {}
                                     /\ Sent(h, y) = Sent(g, y) \ {p})
    <2> TAKE y \in Ids
    <2>1. CardGives(g, h, p, n, r, m) BY <1>12
    <2>2. r.ReqId = m.RcId /\ m.Ext # "OK_FC" /\ m.Rc # "ASSIGN_OK" BY <1>6, <1>8
    <2>3. /\ (y # m.RcId => SameMsgs(g, h, y))
          /\ (y = m.RcId => /\ Plain(h, y) = Plain(g, y) \cup {n}
                            /\ Labels(h, y) = Labels(g, y) /\ News(h, y) = News(g, y)
                            /\ Sent(h, y) = Sent(g, y) \ {p})
      BY <2>1, <2>2, GivesViews
    <2>4. QED BY <2>3, <1>8, <1>17, <1>19
  <1>22. Refs(h)' /\ r.Reference = 0
    <2>1. CardGives(g, h, p, n, r, m) /\ h.ans = g.ans BY <1>12
    <2>2. r.Req # "ASSIGN" /\ m.Reference = 0 /\ UNCHANGED ref BY <1>3, <1>8, <1>13
    <2>3. QED BY <2>1, <2>2, GivesRefs
  <1>23. \A f : (Removing(h, f)' <=> Removing(g, f)) /\ ent'[f] = ent[f]
    BY <1>13 DEF Removing
  <1>24. \A y : Unowned(y)' <=> Unowned(y) BY <1>23 DEF Unowned
  <1>25. \A y \in Ids : IdAt(h, y)'
    <2> TAKE y \in Ids
    <2>1. IdAt(g, y) BY Parts
    <2>2. CASE y # d
      <3>1. SameMsgs(g, h, y) BY <2>2, <1>21
      <3>2. \A j \in RLive(h) : j \in RLive(g) \/ h.R[j].RcId # y
        BY <2>2, <1>8, <1>15, <1>17
      <3>3. \A x \in held' : x[2] = y => x \in held BY <2>2, <1>20
      <3>4. QED BY <2>1, <3>1, <3>2, <3>3, <1>9, <1>15, <1>23, <1>24, IdFrame
    <2>3. CASE y = d
      <3>1. News(h, y) = {} /\ Sent(h, y) = Sent(g, y) \ {p} BY <2>3, <1>21
      <3>2. \A k \in Sent(h, y) : k \in Sent(g, y) /\ h.Q[k] = g.Q[k]
        BY <3>1, <1>15 DEF SameItems, Sent
      <3>3. y \in cardIds' BY <2>3, <1>9, <1>19
      <3>4. ~Unowned(y)
        <4>1. e \in Entity /\ ent[e].Id = y BY <2>3, <1>19
        <4>2. QED BY <4>1 DEF Unowned
      <3>5. \A k \in Sent(h, y) : 
               h.Q[k].Req = "REMOVE" => \A j \in Sent(h, y) : j = k
        BY <3>2, <2>1 DEF IdAt
      <3>6. ~Unowned(y)' BY <3>4, <1>24
      <3>7. QED BY <3>1, <3>3, <3>5, <3>6 DEF IdAt
    <2>4. QED BY <2>2, <2>3
  <1>26. \A c \in Chan, y \in Ids : <<c, y>> \in held' => HoldAt(h, c, y)'
    <2> TAKE c \in Chan, y \in Ids
    <2> HAVE <<c, y>> \in held'
    <2>1. PICK o : o = Owner[c] OBVIOUS
    <2>2. CASE y # d
      <3>1. <<c, y>> \in held BY <2>2, <1>20
      <3>2. HoldAt(g, c, y) BY <3>1, Parts
      <3>3. y \in cardIds' BY <3>2, <1>9 DEF HoldAt
      <3>4. \A k \in SLive(g) : ref[g.S[k]] # 0 BY <1>1 DEF Assigns
      <3>5. Sent(h, y) = Sent(g, y) BY <2>2, <1>21 DEF SameMsgs
      <3>6. \A k \in RqLive(g) : k \in RqLive(h) \/ g.Q[k].Reference = 0 BY <1>15, <1>22
      <3>7. QED
        BY <2>1, <3>2, <3>3, <3>4, <3>5, <3>6, <1>1, <1>13, <1>15, <1>23, <1>24, HoldFrame
    <2>3. CASE y = d
      <3>1. o = e BY <2>1, <2>3, <1>20
      <3>2. y \in cardIds' /\ ent'[o].Id = y /\ ~Removing(h, o)'
        BY <3>1, <2>3, <1>9, <1>19, <1>23
      <3>3. QED BY <3>2, <2>1 DEF HoldAt
    <2>4. QED BY <2>2, <2>3
  <1>27. UNCHANGED <<ent, wait, clFc, fcPend, clSkip, fcId, noCancel>> BY <1>13
  <1>28. \A y \in Ids : /\ \A f \in Entity : ent[f].Id = y => Msgs(h, f)'
                        /\ \A c \in Chan : ent[Owner[c]].Id = y => Flow(h, c)'
    <2> TAKE y \in Ids
    <2>1. CASE y # d
      <3>1. SameMsgs(g, h, y) BY <2>1, <1>21
      <3>2. \A c \in Chan : <<c, y>> \in held' <=> <<c, y>> \in held BY <2>1, <1>20
      <3>3. SameItems(g, h) /\ h.st = g.st BY <1>13, <1>15
      <3>4. QED BY <3>1, <3>2, <3>3, <1>27, OtherId
    <2>2. CASE y = d
      <3>1. \A f \in Entity : ent[f].Id = y => Msgs(h, f)'
        <4> TAKE f \in Entity
        <4> HAVE ent[f].Id = y
        <4>1. f = e BY <2>2, <1>19, UniqueId
        <4>2. Msgs(h, e)' BY <1>16, <1>17, <1>18, <1>20, <1>27, DataMsgs
        <4>3. QED BY <4>1, <4>2
      <3>2. \A c \in Chan : ent[Owner[c]].Id = y => Flow(h, c)'
        <4> TAKE c \in Chan
        <4> HAVE ent[Owner[c]].Id = y
        <4>1. CASE c = r.ReqCh
          BY <4>1, <1>10, <1>16, <1>17, <1>18, <1>27, DataFlow
        <4>2. CASE c # r.ReqCh
          <5>1. Plain(h, d) = Plain(g, d) \cup {n} /\ Labels(h, d) = Labels(g, d)
            BY <1>19, <1>21
          <5>2. h.R[n].RcCh # c BY <4>2, <1>8, <1>15
          <5>3. Lab(h, c, d) = Lab(g, c, d) BY <5>1, <1>15 DEF Lab, SameItems, Labels
          <5>4. \A k \in Plain(g, d) : h.R[k] = g.R[k] BY <1>15 DEF SameItems, Plain
          <5>5. \A rc0 \in RcCode : Says(h, c, d, rc0) = Says(g, c, d, rc0)
            BY <5>1, <5>2, <5>4 DEF Says
          <5>6. SameLabs(g, h, c, d) BY <5>3, <5>5 DEF SameLabs
          <5>7. Flow(g, c)
            <6>1. Flows(g) BY Parts
            <6>2. QED BY <6>1, <2>2, <1>19 DEF Flows
          <5>8. PICK o : o = Owner[c] OBVIOUS
          <5>9. ent[o].Id = d BY <5>8, <2>2
          <5>10. <<c, d>> \in held' <=> <<c, d>> \in held BY <4>2, <1>19, <1>20
          <5>11. QED BY <5>6, <5>7, <5>8, <5>9, <5>10, <1>27, FlowFrame
        <4>3. QED BY <4>1, <4>2
      <3>3. QED BY <3>1, <3>2
    <2>3. QED BY <2>1, <2>2
  <1>29. \A f \in Entity : Msgs(h, f)'
    <2> TAKE f \in Entity
    <2>1. ent[f].Id \in Ids \cup {0} BY <1>1, EntityTypes
    <2>2. CASE ent[f].Id = 0 BY <2>2, <1>23 DEF Msgs
    <2>3. QED BY <2>1, <2>2, <1>28
  <1>30. \A c \in Chan : ent[Owner[c]].Id # 0 => Flow(h, c)'
    <2> TAKE c \in Chan
    <2> HAVE ent[Owner[c]].Id # 0
    <2>1. Owner[c] \in Entity BY DEF XdiAssumption
    <2>2. ent[Owner[c]].Id \in Ids BY <2>1, <1>1, EntityTypes
    <2>3. QED BY <2>2, <1>28
  <1>31. QED BY <1>12, <1>14, <1>15, <1>20, <1>22, <1>25, <1>26, <1>29, <1>30, CardKeeps

\* The card takes an ASSIGN and answers it with m.
AssignTaken(g, h, p, n, r, m) ==
    /\ CardGives(g, h, p, n, r, m) /\ h.ans = g.ans + 1
    /\ r.Req = "ASSIGN" /\ r.Reference # 0 /\ m.Reference = r.Reference
    /\ m.Ext = "none" /\ m.RcCh = 0
    /\ \/ m.Rc = "ASSIGN_OK" /\ m.RcId \in Ids \ cardIds
       \/ m.Rc = "ASSIGN_FAIL" /\ m.RcId = 0

\* The first ASSIGN in the buffers is the oldest that is not answered.
LEMMA FirstAsk ==
    ASSUME NEW g, Whole(g), NEW p, p \in RqLive(g),
           \A k \in RqLive(g) : k \in Int /\ p <= k,
           NEW f, f = g.Q[p].Reference, f # 0, NEW N, N = g.ans + 1
    PROVE  /\ N \in SLive(g) /\ N <= Len(g.S) /\ ref[g.S[N]] = f
           /\ \A k \in RqLive(g) : g.Q[k].Reference = f => k = p
           /\ \A k \in SLive(g) : ref[g.S[k]] = f => k = N
  <1>1. Assigns(g) /\ Refs(g) /\ GhostType(g) BY Parts
  <1>2. /\ g.ans \in Nat /\ g.done \in Nat /\ g.done <= g.ans /\ Len(g.S) \in Nat
        /\ g.ans <= Len(g.S)
    BY <1>1, GhostParts
  <1>3. PICK l \in N..Len(g.S) : f = ref[g.S[l]] BY <1>1 DEF Refs
  <1>4. /\ N \in N..Len(g.S) /\ N \in SLive(g) /\ l \in SLive(g) /\ N <= Len(g.S)
        /\ N \in Int /\ l \in Int /\ N <= l
    BY <1>2, <1>3 DEF SLive
  <1>5. PICK q \in RqLive(g) : g.Q[q].Reference = ref[g.S[N]] BY <1>1, <1>4 DEF Refs
  <1>6. \A j, k \in SLive(g) : ref[g.S[j]] = ref[g.S[k]] => j = k BY <1>1 DEF Assigns
  <1>7. \A j, k \in RqLive(g), x, y \in N..Len(g.S) : 
          g.Q[j].Reference = ref[g.S[x]] /\ g.Q[k].Reference = ref[g.S[y]] /\ j < k => x < y
    BY <1>1 DEF Refs
  <1>8. l = N
    <2>1. CASE q = p BY <2>1, <1>3, <1>4, <1>5, <1>6
    <2>2. CASE q # p
      <3>1. p < q BY <2>2, <1>5
      <3>2. l < N BY <3>1, <1>3, <1>4, <1>5, <1>7
      <3>3. QED BY <3>2, <1>4
    <2>3. QED BY <2>1, <2>2
  <1>9. \A k \in RqLive(g) : g.Q[k].Reference = f => k = p
    <2> SUFFICES ASSUME NEW k \in RqLive(g), g.Q[k].Reference = f, k # p PROVE FALSE
      OBVIOUS
    <2>1. p < k OBVIOUS
    <2>2. N < N BY <2>1, <1>3, <1>4, <1>7, <1>8
    <2>3. QED BY <2>2, <1>4
  <1>10. QED BY <1>3, <1>4, <1>6, <1>8, <1>9

\* The references, with the one answered
LEMMA TakenRefs ==
    ASSUME XdiAssumption, NEW g, Whole(g), NEW h, NEW p, NEW n, NEW r, NEW m,
           AssignTaken(g, h, p, n, r, m), UNCHANGED ref
    PROVE  Refs(h)'
  <1>1. Assigns(g) /\ Refs(g) /\ GhostType(g) BY Parts
  <1>2. /\ SameItems(g, h) /\ RLive(h) = RLive(g) \cup {n} /\ n \notin RLive(g)
        /\ h.R[n] = m /\ RqLive(h) = RqLive(g) \ {p} /\ p \in RqLive(g) /\ g.Q[p] = r
        /\ h.S = g.S /\ h.done = g.done /\ n \in Int
        /\ \A k \in RLive(g) : k \in Int /\ k < n
        /\ \A k \in RqLive(g) : k \in Int /\ p <= k
    BY DEF AssignTaken, CardGives
  <1>3. PICK N, f, D, L : N = g.ans + 1 /\ f = r.Reference /\ D = g.done + 1 /\ L = Len(g.S)
    OBVIOUS
  <1>4. f # 0 /\ m.Reference = f /\ h.ans = N BY <1>3 DEF AssignTaken
  <1>5. /\ N \in SLive(g) /\ N <= L /\ ref[g.S[N]] = f
        /\ \A k \in RqLive(g) : g.Q[k].Reference = f => k = p
        /\ \A k \in SLive(g) : ref[g.S[k]] = f => k = N
    BY <1>2, <1>3, <1>4, FirstAsk
  <1>6. /\ \A k \in D..N : k = N \/ k \in D..g.ans
        /\ \A k \in D..g.ans : k \in D..N /\ k # N /\ k < N
        /\ \A k \in (N + 1)..L : k \in N..L /\ k # N
        /\ \A k \in N..L : k = N \/ k \in (N + 1)..L
        /\ \A k \in D..N : k \in SLive(g)
        /\ \A k \in N..L : k \in SLive(g)
        /\ N \in D..N /\ D = h.done + 1 /\ L = Len(h.S)
    <2>1. /\ g.ans \in Nat /\ g.done \in Nat /\ g.done <= g.ans /\ L \in Nat
          /\ g.ans <= L
      BY <1>1, <1>3, GhostParts
    <2>2. PICK A, d : A = g.ans /\ d = g.done OBVIOUS
    <2>3. /\ A \in Nat /\ d \in Nat /\ d <= A /\ L \in Nat /\ N <= L
          /\ N = A + 1 /\ D = d + 1
      BY <2>1, <2>2, <1>3, <1>5
    <2>4. /\ \A k \in D..N : k = N \/ k \in D..A
          /\ \A k \in D..A : k \in D..N /\ k # N /\ k < N
          /\ N \in D..N
      BY <2>3
    <2>5. /\ \A k \in (N + 1)..L : k \in N..L /\ k # N
          /\ \A k \in N..L : k = N \/ k \in (N + 1)..L
      BY <2>3
    <2>6. (\A k \in D..N : k \in D..L) /\ \A k \in N..L : k \in D..L BY <2>3
    <2>7. SLive(g) = D..L BY <1>3 DEF SLive
    <2>8. D = h.done + 1 /\ L = Len(h.S) BY <1>2, <1>3
    <2>9. QED BY <2>2, <2>4, <2>5, <2>6, <2>7, <2>8
  <1>7. \A j, k \in SLive(g) : ref[g.S[j]] = ref[g.S[k]] => j = k BY <1>1 DEF Assigns
  <1>8. \A k \in SLive(g) : ref[g.S[k]] # 0 BY <1>1 DEF Assigns
  <1>9. /\ \A k \in RLive(g) : h.R[k] = g.R[k]
        /\ \A k \in RqLive(g) : h.Q[k] = g.Q[k]
    BY <1>2 DEF SameItems
  <1>10. /\ \A x \in D..g.ans : \E q \in RLive(g) : g.R[q].Reference = ref[g.S[x]]
         /\ \A x \in N..L : \E q \in RqLive(g) : g.Q[q].Reference = ref[g.S[x]]
         /\ \A q \in RLive(g) : g.R[q].Reference # 0 =>
                \E x \in D..g.ans : g.R[q].Reference = ref[g.S[x]]
         /\ \A q \in RqLive(g) : g.Q[q].Reference # 0 =>
                \E x \in N..L : g.Q[q].Reference = ref[g.S[x]]
    BY <1>1, <1>3 DEF Refs
  <1>11. \A x \in D..N : \E q \in RLive(h) : h.R[q].Reference = ref[g.S[x]]
    <2> TAKE x \in D..N
    <2>1. CASE x = N BY <2>1, <1>2, <1>4, <1>5
    <2>2. CASE x \in D..g.ans
      <3>1. PICK q \in RLive(g) : g.R[q].Reference = ref[g.S[x]] BY <2>2, <1>10
      <3>2. QED BY <3>1, <1>2, <1>9
    <2>3. QED BY <2>1, <2>2, <1>6
  <1>12. \A x \in (N + 1)..L : \E q \in RqLive(h) : h.Q[q].Reference = ref[g.S[x]]
    <2> TAKE x \in (N + 1)..L
    <2>1. PICK q \in RqLive(g) : g.Q[q].Reference = ref[g.S[x]] BY <1>6, <1>10
    <2>2. q # p BY <2>1, <1>2, <1>3, <1>5, <1>6
    <2>3. QED BY <2>1, <2>2, <1>2, <1>9
  <1>13. \A q \in RLive(h) : h.R[q].Reference # 0 =>
            \E x \in D..N : h.R[q].Reference = ref[g.S[x]]
    <2> TAKE q \in RLive(h)
    <2> HAVE h.R[q].Reference # 0
    <2>1. CASE q = n BY <2>1, <1>2, <1>4, <1>5, <1>6
    <2>2. CASE q \in RLive(g)
      <3>1. PICK x \in D..g.ans : g.R[q].Reference = ref[g.S[x]] BY <2>2, <1>9, <1>10
      <3>2. QED BY <3>1, <2>2, <1>6, <1>9
    <2>3. QED BY <2>1, <2>2, <1>2
  <1>14. \A q \in RqLive(h) : h.Q[q].Reference # 0 =>
            \E x \in (N + 1)..L : h.Q[q].Reference = ref[g.S[x]]
    <2> TAKE q \in RqLive(h)
    <2> HAVE h.Q[q].Reference # 0
    <2>1. q \in RqLive(g) /\ q # p /\ h.Q[q] = g.Q[q] BY <1>2, <1>9
    <2>2. PICK x \in N..L : g.Q[q].Reference = ref[g.S[x]] BY <2>1, <1>10
    <2>3. x # N BY <2>1, <2>2, <1>5
    <2>4. QED BY <2>1, <2>2, <2>3, <1>6
  <1>15. \A q, k \in RLive(h), x, y \in D..N :
          h.R[q].Reference = ref[g.S[x]] /\ h.R[k].Reference = ref[g.S[y]] /\ q < k => x < y
    <2> TAKE q, k \in RLive(h), x, y \in D..N
    <2> HAVE h.R[q].Reference = ref[g.S[x]] /\ h.R[k].Reference = ref[g.S[y]] /\ q < k
    <2>1. x \in SLive(g) /\ y \in SLive(g) /\ ref[g.S[x]] # 0 /\ ref[g.S[y]] # 0
      BY <1>6, <1>8
    <2>2. q # n
      <3>1. k = n \/ k < n BY <1>2
      <3>2. k \in Int /\ n \in Int BY <1>2
      <3>3. QED BY <3>1, <3>2
    <2>3. q \in RLive(g) BY <2>2, <1>2
    <2>4. x \in D..g.ans
      <3>1. g.R[q].Reference = ref[g.S[x]] BY <2>3, <1>9
      <3>2. PICK z \in D..g.ans : g.R[q].Reference = ref[g.S[z]] BY <3>1, <2>1, <2>3, <1>10
      <3>3. z \in SLive(g) BY <3>2, <1>6
      <3>4. z = x BY <3>1, <3>2, <3>3, <2>1, <1>7
      <3>5. QED BY <3>2, <3>4
    <2>5. CASE k = n
      <3>1. y = N BY <2>1, <2>5, <1>2, <1>4, <1>5
      <3>2. QED BY <3>1, <2>4, <1>6
    <2>6. CASE k \in RLive(g)
      <3>1. g.R[k].Reference = ref[g.S[y]] BY <2>6, <1>9
      <3>2. PICK z \in D..g.ans : g.R[k].Reference = ref[g.S[z]] BY <3>1, <2>1, <2>6, <1>10
      <3>3. z \in SLive(g) BY <3>2, <1>6
      <3>4. z = y BY <3>1, <3>2, <3>3, <2>1, <1>7
      <3>5. y \in D..g.ans BY <3>2, <3>4
      <3>6. \A j, l \in RLive(g), a, b \in D..g.ans : 
              g.R[j].Reference = ref[g.S[a]] /\ g.R[l].Reference = ref[g.S[b]] /\ j < l => a < b
        BY <1>1, <1>3 DEF Refs
      <3>7. g.R[q].Reference = ref[g.S[x]] BY <2>3, <1>9
      <3>8. QED BY <3>1, <3>5, <3>6, <3>7, <2>3, <2>4, <2>6
    <2>7. QED BY <2>5, <2>6, <1>2
  <1>16. \A q, k \in RqLive(h), x, y \in (N + 1)..L :
          h.Q[q].Reference = ref[g.S[x]] /\ h.Q[k].Reference = ref[g.S[y]] /\ q < k => x < y
    <2>1. \A q, k \in RqLive(g), x, y \in N..L :
          g.Q[q].Reference = ref[g.S[x]] /\ g.Q[k].Reference = ref[g.S[y]] /\ q < k => x < y
      BY <1>1, <1>3 DEF Refs
    <2>2. \A q \in RqLive(h) : q \in RqLive(g) /\ h.Q[q] = g.Q[q] BY <1>2, <1>9
    <2>3. QED BY <2>1, <2>2, <1>6
  <1>17. /\ h.S = g.S /\ h.done + 1 = D /\ h.ans = N /\ Len(h.S) = L /\ UNCHANGED ref
    BY <1>2, <1>4, <1>6
  <1>18. \A x \in (h.done + 1)..h.ans : \E q \in RLive(h) : h.R[q].Reference = ref'[h.S[x]]
    BY <1>11, <1>17
  <1>19. \A x \in (h.ans + 1)..Len(h.S) :
            \E q \in RqLive(h) : h.Q[q].Reference = ref'[h.S[x]]
    BY <1>12, <1>17
  <1>20. \A q \in RLive(h) : h.R[q].Reference # 0 =>
            \E x \in (h.done + 1)..h.ans : h.R[q].Reference = ref'[h.S[x]]
    BY <1>13, <1>17
  <1>21. \A q \in RqLive(h) : h.Q[q].Reference # 0 =>
            \E x \in (h.ans + 1)..Len(h.S) : h.Q[q].Reference = ref'[h.S[x]]
    BY <1>14, <1>17
  <1>22. \A q, k \in RLive(h), x, y \in (h.done + 1)..h.ans :
            h.R[q].Reference = ref'[h.S[x]] /\ h.R[k].Reference = ref'[h.S[y]] /\ q < k
            => x < y
    BY <1>15, <1>17
  <1>23. \A q, k \in RqLive(h), x, y \in (h.ans + 1)..Len(h.S) :
            h.Q[q].Reference = ref'[h.S[x]] /\ h.Q[k].Reference = ref'[h.S[y]] /\ q < k
            => x < y
    BY <1>16, <1>17
  <1>24. QED BY <1>18, <1>19, <1>20, <1>21, <1>22, <1>23, Zenon DEF Refs

\* What the answer to an ASSIGN changes of the messages
LEMMA TakenViews ==
    ASSUME XdiAssumption, NEW g, NEW h, NEW p, NEW n, NEW r, NEW m,
           AssignTaken(g, h, p, n, r, m), NEW d \in Ids
    PROVE  /\ Plain(h, d) = Plain(g, d) /\ Labels(h, d) = Labels(g, d)
           /\ Sent(h, d) = Sent(g, d) /\ (d # m.RcId => SameMsgs(g, h, d))
           /\ (d = m.RcId => News(h, d) = News(g, d) \cup {n})
  <1>1. d # 0 BY DEF XdiAssumption
  <1>2. /\ SameItems(g, h) /\ RLive(h) = RLive(g) \cup {n} /\ n \notin RLive(g)
        /\ RqLive(h) = RqLive(g) \ {p} /\ p \in RqLive(g) /\ g.Q[p] = r /\ h.R[n] = m
        /\ RqForm(r)
    BY DEF AssignTaken, CardGives
  <1>3. /\ Plain(h, d) = (IF RcKey(h.R[n]) = d THEN Plain(g, d) \cup {n} ELSE Plain(g, d))
        /\ Labels(h, d) = (IF h.R[n].RcId = d /\ h.R[n].Ext = "OK_FC"
                              THEN Labels(g, d) \cup {n} ELSE Labels(g, d))
        /\ News(h, d) = (IF h.R[n].RcId = d /\ h.R[n].Rc = "ASSIGN_OK"
                            THEN News(g, d) \cup {n} ELSE News(g, d))
        /\ Sent(h, d) = Sent(g, d) \ {p}
        /\ (d # 0 /\ h.R[n].RcId # d /\ g.Q[p].ReqId # d => SameMsgs(g, h, d))
    BY <1>2, AnswerView
  <1>4. r.ReqId = 0 BY <1>2 DEF AssignTaken, RqForm
  <1>5. p \notin Sent(g, d) BY <1>1, <1>2, <1>4 DEF Sent
  <1>6. m.Ext # "OK_FC" /\ RcKey(m) = 0 /\ (d = m.RcId => m.Rc = "ASSIGN_OK")
    BY <1>1 DEF AssignTaken, RcKey
  <1>7. QED BY <1>1, <1>2, <1>3, <1>4, <1>5, <1>6

\* The card has taken an ASSIGN, and perhaps given it an Id.
LEMMA TakenKeeps ==
    ASSUME XdiAssumption, NEW g, Whole(g), TypeOK', NEW h, NEW p, NEW n, NEW r, NEW m,
           AssignTaken(g, h, p, n, r, m), Pipes(h)', CardFrame, UNCHANGED <<rcBuf, irq, held>>,
           cardIds' = IF m.Rc = "ASSIGN_OK" THEN cardIds \cup {m.RcId} ELSE cardIds
    PROVE  Whole(h)'
  <1>1. /\ TypeOK /\ GhostType(g) /\ Assigns(g)
        /\ held \subseteq Chan \X Ids /\ 0 \notin Ids
    BY Parts DEF XdiAssumption
  <1>2. CardGives(g, h, p, n, r, m) BY DEF AssignTaken
  <1>3. /\ h.q = g.q /\ h.out = g.out /\ h.S = g.S /\ h.done = g.done /\ h.st = g.st
        /\ UNCHANGED <<wait, fcPend, clFc, clSkip, ent, tbl, next, ref, head, tail, assign,
                   IdTable, fcId, rmPending, noCancel, trapped, pc, phase, cur, rcBuf, irq,
                   batch>>
    BY <1>2, CardFrames DEF CardGives
  <1>4. CardSame(g, h) BY <1>3 DEF CardSame
  <1>5. /\ GhostType(h) /\ Forms(h) /\ SameItems(g, h)
        /\ RLive(h) = RLive(g) \cup {n} /\ h.R[n] = m
        /\ \A k \in RLive(g) : k \in Int /\ k < n
        /\ RqLive(h) = RqLive(g) \ {p} /\ g.Q[p] = r /\ p \in Int /\ n \in Int
        /\ \A k \in RqLive(g) : k \in Int /\ p <= k
    BY <1>2 DEF CardGives
  <1>6. Refs(h)' BY <1>3, TakenRefs
  <1>7. \A d \in Ids : /\ Plain(h, d) = Plain(g, d) /\ Labels(h, d) = Labels(g, d)
                       /\ Sent(h, d) = Sent(g, d) /\ (d # m.RcId => SameMsgs(g, h, d))
                       /\ (d = m.RcId => News(h, d) = News(g, d) \cup {n})
    <2> TAKE d \in Ids
    <2>1. QED BY TakenViews
  <1>8. \A f : (Removing(h, f)' <=> Removing(g, f)) /\ ent'[f] = ent[f]
    BY <1>3 DEF Removing
  <1>9. \A d : Unowned(d)' <=> Unowned(d) BY <1>8 DEF Unowned
  <1>10. m.RcId \in Ids => m.RcId \notin cardIds /\ m.RcId \in cardIds'
    BY <1>1 DEF AssignTaken
  <1>11. \A d \in Ids : d # m.RcId => (d \in cardIds' <=> d \in cardIds) OBVIOUS
  <1>12. \A c \in Chan, d \in Ids : <<c, d>> \in held => HoldAt(g, c, d) /\ d # m.RcId
    <2> TAKE c \in Chan, d \in Ids
    <2> HAVE <<c, d>> \in held
    <2>1. HoldAt(g, c, d) BY Parts
    <2>2. QED BY <2>1, <1>10 DEF HoldAt
  <1>13. \A d \in Ids : IdAt(h, d)'
    <2> TAKE d \in Ids
    <2>1. IdAt(g, d) BY Parts
    <2>2. CASE d # m.RcId
      <3>1. SameMsgs(g, h, d) BY <2>2, <1>7
      <3>2. \A j \in RLive(h) : j \in RLive(g) \/ h.R[j].RcId # d BY <2>2, <1>5
      <3>3. \A x \in held' : x[2] = d => x \in held OBVIOUS
      <3>4. d \in cardIds' <=> d \in cardIds BY <2>2, <1>11
      <3>5. QED BY <2>1, <3>1, <3>2, <3>3, <3>4, <1>5, <1>8, <1>9, IdFrame
    <2>3. CASE d = m.RcId
      <3>1. d \notin cardIds /\ d \in cardIds' BY <2>3, <1>10
      <3>2. Sent(g, d) = {} /\ News(g, d) = {} BY <3>1, <2>1 DEF IdAt
      <3>3. Sent(h, d) = {} /\ News(h, d) = {n} BY <2>3, <3>2, <1>7
      <3>4. \A x \in held' : x[2] # d
        <4> SUFFICES ASSUME NEW x \in held, x[2] = d PROVE FALSE OBVIOUS
        <4>1. x[1] \in Chan /\ x = <<x[1], d>> BY <1>1
        <4>2. QED BY <4>1, <2>3, <1>12
      <3>5. \A j \in RLive(h) : ~(j > n) BY <1>5
      <3>6. \A f \in Entity : ent'[f].Id = d => Removing(h, f)'
        BY <3>1, <2>1, <1>8 DEF IdAt
      <3>7. QED BY <3>1, <3>3, <3>4, <3>5, <3>6 DEF IdAt
    <2>4. QED BY <2>2, <2>3
  <1>14. \A c \in Chan, d \in Ids : <<c, d>> \in held' => HoldAt(h, c, d)'
    <2> TAKE c \in Chan, d \in Ids
    <2> HAVE <<c, d>> \in held'
    <2>1. PICK o : o = Owner[c] OBVIOUS
    <2>2. HoldAt(g, c, d) /\ d # m.RcId BY <1>12
    <2>3. d \in cardIds' BY <2>2, <1>11 DEF HoldAt
    <2>4. Sent(h, d) = Sent(g, d) BY <1>7
    <2>5. CASE ent[o].Id = d /\ (Removing(g, o) => Sent(g, d) # {})
      BY <2>1, <2>3, <2>4, <2>5, <1>8 DEF HoldAt
    <2>6. CASE /\ Unowned(d) /\ ent[o].Id = 0
               /\ \E j \in Sent(g, d) : \A k \in SLive(g) : tbl[g.S[k]] = o =>
                    \E i \in RqLive(g) : i > j /\ g.Q[i].Reference = ref[g.S[k]]
      <3>1. PICK j \in Sent(g, d) : \A k \in SLive(g) : tbl[g.S[k]] = o =>
                    \E i \in RqLive(g) : i > j /\ g.Q[i].Reference = ref[g.S[k]]
        BY <2>6
      <3>2. j \in Int /\ p <= j BY <1>5 DEF Sent
      <3>3. \A i \in RqLive(g) : i > j => i \in RqLive(h) /\ h.Q[i] = g.Q[i]
        <4> TAKE i \in RqLive(g)
        <4> HAVE i > j
        <4>1. i # p BY <3>2, <1>5
        <4>2. QED BY <4>1, <1>5 DEF SameItems
      <3>4. SLive(h) = SLive(g) BY <1>3 DEF SLive
      <3>5. \A k \in SLive(h) : tbl'[h.S[k]] = o =>
                    \E i \in RqLive(h) : i > j /\ h.Q[i].Reference = ref'[h.S[k]]
        <4> TAKE k \in SLive(h)
        <4> HAVE tbl'[h.S[k]] = o
        <4>1. PICK i \in RqLive(g) : i > j /\ g.Q[i].Reference = ref[g.S[k]]
          BY <3>1, <3>4, <1>3
        <4>2. QED BY <4>1, <3>3, <1>3
      <3>6. Unowned(d)' /\ ent'[o].Id = 0 /\ j \in Sent(h, d)
        BY <2>4, <2>6, <1>8, <1>9
      <3>7. QED BY <2>1, <2>3, <3>5, <3>6 DEF HoldAt
    <2>7. QED BY <2>1, <2>2, <2>5, <2>6 DEF HoldAt
  <1>15. \A f \in Entity : Msgs(h, f)'
    <2> TAKE f \in Entity
    <2>1. PICK d : d = ent[f].Id OBVIOUS
    <2>2. d \in Ids \cup {0} BY <2>1, <1>1, EntityTypes
    <2>3. CASE d = 0 BY <2>1, <2>3, <1>8 DEF Msgs
    <2>4. CASE d \in Ids
      <3>1. Msgs(g, f) BY Parts
      <3>2. Plain(h, d) = Plain(g, d) /\ Sent(h, d) = Sent(g, d) /\ Labels(h, d) = Labels(g, d)
        BY <2>4, <1>7
      <3>3. UNCHANGED ent /\ h.st = g.st /\ SameItems(g, h) BY <1>3, <1>5
      <3>4. QED BY <2>1, <3>1, <3>2, <3>3, MsgsSame
    <2>5. QED BY <2>2, <2>3, <2>4
  <1>16. \A c \in Chan : ent[Owner[c]].Id # 0 => Flow(h, c)'
    <2> TAKE c \in Chan
    <2> HAVE ent[Owner[c]].Id # 0
    <2>1. PICK o, d : o = Owner[c] /\ d = ent[o].Id OBVIOUS
    <2>2. o \in Entity BY <2>1 DEF XdiAssumption
    <2>3. d \in Ids BY <2>1, <2>2, <1>1, EntityTypes
    <2>4. Flow(g, c)
      <3>1. Flows(g) BY Parts
      <3>2. QED BY <3>1 DEF Flows
    <2>5. Plain(h, d) = Plain(g, d) /\ Labels(h, d) = Labels(g, d) /\ SameItems(g, h)
      BY <2>3, <1>5, <1>7
    <2>6. SameLabs(g, h, c, d) BY <2>5, LabsSame
    <2>7. UNCHANGED <<ent, wait, clFc, fcPend, clSkip, fcId, noCancel, held>> BY <1>3
    <2>8. QED BY <2>1, <2>4, <2>6, <2>7, FlowFrame
  <1>17. held' \subseteq Chan \X Ids BY <1>1
  <1>18. QED BY <1>4, <1>5, <1>6, <1>13, <1>14, <1>15, <1>16, <1>17, CardKeeps

\* The card takes an ASSIGN.
LEMMA AssignKeeps ==
    ASSUME XdiAssumption, NEW g, Whole(g), TypeOK', CardAssign
    PROVE  \E h : Whole(h)'
  <1>1. TypeOK /\ GhostType(g) /\ Pipes(g) /\ Forms(g) /\ Refs(g) BY Parts
  <1>2. PICK r : r = Head(inbox) OBVIOUS
  <1>3. inbox # <<>> /\ r.Req = "ASSIGN" /\ UNCHANGED held BY <1>2 DEF CardAssign
  <1>4. RqForm(r) /\ r \in REQ BY <1>1, <1>2, <1>3, HeadRq
  <1>5. r.Reference # 0 /\ r.Reference \in Ref BY <1>3, <1>4 DEF RqForm, REQ
  <1>6. PICK m : /\ CardConsume(<<m>>)
                 /\ m.Reference = r.Reference /\ m.Ext = "none" /\ m.RcCh = 0
                 /\ \/ m.Rc = "ASSIGN_OK" /\ m.RcId \in Ids \ cardIds
                    \/ m.Rc = "ASSIGN_FAIL" /\ m.RcId = 0
                 /\ cardIds' = IF m.Rc = "ASSIGN_OK" THEN cardIds \cup {m.RcId} ELSE cardIds
                 /\ m = Answer(m.Rc, m.RcId, 0, m.Reference, "none")
    <2>1. CASE \E d \in Ids \ cardIds :
                 /\ CardConsume(<<Answer("ASSIGN_OK", d, 0, r.Reference, "none")>>)
                 /\ cardIds' = cardIds \cup {d}
      <3>1. PICK d \in Ids \ cardIds :
                 /\ CardConsume(<<Answer("ASSIGN_OK", d, 0, r.Reference, "none")>>)
                 /\ cardIds' = cardIds \cup {d}
        BY <2>1
      <3>2. PICK m : m = Answer("ASSIGN_OK", d, 0, r.Reference, "none") OBVIOUS
      <3>3. /\ m.Rc = "ASSIGN_OK" /\ m.RcId = d /\ m.RcCh = 0 /\ m.Reference = r.Reference
            /\ m.Ext = "none" /\ m = Answer(m.Rc, m.RcId, 0, m.Reference, "none")
        BY <3>2 DEF Answer
      <3>4. CardConsume(<<m>>) BY <3>1, <3>2
      <3>5. QED BY <3>1, <3>3, <3>4
    <2>2. CASE /\ CardConsume(<<Answer("ASSIGN_FAIL", 0, 0, r.Reference, "none")>>)
               /\ UNCHANGED cardIds
      <3>2. PICK m : m = Answer("ASSIGN_FAIL", 0, 0, r.Reference, "none") OBVIOUS
      <3>3. /\ m.Rc = "ASSIGN_FAIL" /\ m.RcId = 0 /\ m.RcCh = 0 /\ m.Reference = r.Reference
            /\ m.Ext = "none" /\ m = Answer(m.Rc, m.RcId, 0, m.Reference, "none")
        BY <3>2 DEF Answer
      <3>4. CardConsume(<<m>>) BY <2>2, <3>2
      <3>5. QED BY <2>2, <3>3, <3>4
    <2>3. QED BY <2>1, <2>2, <1>2 DEF CardAssign
  <1>7. m \in RC
    <2>1. m.Rc \in RcCode /\ m.RcId \in Ids \cup {0} /\ m.Reference \in Ref \cup {0}
      BY <1>5, <1>6 DEF RcCode
    <2>2. Answer(m.Rc, m.RcId, 0, m.Reference, "none") \in RC
      BY <2>1 DEF Answer, RC, RcType, ChanNo
    <2>3. QED BY <2>2, <1>6
  <1>8. RcForm(m)
    <2>1. 0 \notin Ids BY DEF XdiAssumption
    <2>2. QED BY <2>1, <1>5, <1>6 DEF RcForm
  <1>9. PICK A : A = g.ans + 1 OBVIOUS
  <1>10. A <= Len(g.S)
    <2>1. /\ g.done \in Nat /\ g.ans \in Nat /\ Len(g.S) \in Nat /\ g.done <= g.ans
          /\ g.ans <= Len(g.S)
      BY <1>1, GhostParts
    <2>2. PICK h0, p0, n0 : CardGives(g, h0, p0, n0, Head(inbox), m)
      <3>1. PICK B : B = g.ans OBVIOUS
      <3>2. B \in Nat /\ g.done <= B /\ B <= Len(g.S) BY <3>1, <2>1
      <3>3. TypeOK /\ GhostType(g) /\ Pipes(g) /\ Forms(g) BY <1>1
      <3>4. inbox # <<>> /\ CardConsume(<<m>>) BY <1>3, <1>6
      <3>5. \E h, p, n : CardGives(g, h, p, n, Head(inbox), m) /\ Pipes(h)' /\ h.ans = B
        BY <3>2, <3>3, <3>4, <1>7, <1>8, CardAnswers
      <3>6. QED BY <3>5
    <2>3. p0 \in RqLive(g) /\ g.Q[p0] = r BY <2>2, <1>2 DEF CardGives
    <2>4. \E k \in (g.ans + 1)..Len(g.S) : g.Q[p0].Reference = ref[g.S[k]]
      BY <2>3, <1>1, <1>5 DEF Refs
    <2>5. QED BY <2>1, <2>4, <1>9
  <1>11. PICK h, p, n : CardGives(g, h, p, n, r, m) /\ Pipes(h)' /\ h.ans = g.ans + 1
    <2>1. /\ g.done \in Nat /\ g.ans \in Nat /\ g.done <= g.ans
      BY <1>1, GhostParts
    <2>2. A \in Nat /\ g.done <= A /\ A <= Len(g.S) BY <2>1, <1>9, <1>10
    <2>3. TypeOK /\ GhostType(g) /\ Pipes(g) /\ Forms(g) BY <1>1
    <2>4. inbox # <<>> /\ CardConsume(<<m>>) BY <1>3, <1>6
    <2>5. \E h, p, n : CardGives(g, h, p, n, Head(inbox), m) /\ Pipes(h)' /\ h.ans = A
      BY <2>2, <2>3, <2>4, <1>7, <1>8, CardAnswers
    <2>6. QED BY <2>5, <1>2, <1>9
  <1>12. AssignTaken(g, h, p, n, r, m) BY <1>3, <1>5, <1>6, <1>11 DEF AssignTaken
  <1>13. CardFrame /\ UNCHANGED <<rcBuf, irq>> BY <1>6 DEF CardConsume
  <1>14. Whole(h)' BY <1>3, <1>6, <1>11, <1>12, <1>13, TakenKeeps
  <1>15. QED BY <1>14

\* The inductive invariant: there are histories that explain the state.
IInv == \E g : Whole(g)

\* At the start nothing was ever queued.
LEMMA InitWhole ==
    ASSUME XdiAssumption, Init
    PROVE  IInv
  <1>1. TypeOK BY InitType
  <1>2. PICK st, z, o : st = [e \in Entity |-> "none"] /\ z = <<>> /\ o = 0 OBVIOUS
  <1>3. PICK g : g = Mk(z, o, z, o, o, z, o, z, o, st) OBVIOUS
  <1>4. /\ g.q = <<>> /\ g.out = 0 /\ g.S = <<>> /\ g.done = 0 /\ g.ans = 0
        /\ g.R = <<>> /\ g.got = 0 /\ g.Q = <<>> /\ g.tk = 0
        /\ \A e \in Entity : g.st[e] = "none"
    BY <1>2, <1>3 DEF Mk
  <1>5. GhostType(g)
    <2>1. st \in [Entity -> Stage] BY <1>2 DEF Stage
    <2>2. z \in Seq(Slot) /\ z \in Seq(RC) /\ z \in Seq(REQ) /\ o \in Nat BY <1>2
    <2>3. g \in Ghost BY <1>3, <2>1, <2>2, MkParts
    <2>4. QED BY <2>3, <1>4 DEF GhostType
  <1>6. QLive(g) = {} /\ SLive(g) = {} /\ RLive(g) = {} /\ RqLive(g) = {}
    BY <1>4 DEF QLive, SLive, RLive, RqLive
  <1>7. /\ wait = [e \in Entity |-> FALSE] /\ fcPend = {} /\ clFc = {} /\ clSkip = {}
        /\ \A e \in Entity : /\ ent[e].Id = 0 /\ ent[e].No = 0 /\ ent[e].Req = "none"
                             /\ ~wait[e] /\ ent[e].XMOREC = 0
        /\ \A i \in Slot : tbl[i] = Null
        /\ head = 0 /\ tail = 0 /\ assign = 0
        /\ \A d \in Ids : IdTable[d] = 0
        /\ \A c \in ChanNo : fcId[c] = 0
        /\ rmPending = {} /\ noCancel = {} /\ trapped = FALSE
        /\ pc = "idle" /\ phase = 1 /\ batch = <<>> /\ inbox = <<>>
        /\ cur.i = 0 /\ cur.Id = 0 /\ cur.ok = FALSE
        /\ rcBuf = <<>> /\ irq = FALSE /\ outq = <<>> /\ cardIds = {} /\ held = {}
    BY DEF Init
  <1>8. Pipes(g) BY <1>4, <1>7 DEF Pipes
  <1>9. Forms(g) BY <1>6 DEF Forms
  <1>10. \A e \in Entity : Null # e BY DEF XdiAssumption
  <1>11. \A e \in Entity : EntityAt(e, g.st[e])
    <2> TAKE e \in Entity
    <2>1. NoSlot(e) BY <1>7, <1>10 DEF NoSlot
    <2>2. QED BY <2>1, <1>4, <1>7 DEF EntityAt
  <1>12. Queue(g) BY <1>4, <1>6, <1>7 DEF Queue
  <1>13. Assigns(g) BY <1>4, <1>6 DEF Assigns
  <1>14. Refs(g)
    <2>1. (g.done + 1)..g.ans = {} /\ (g.ans + 1)..Len(g.S) = {} BY <1>4
    <2>2. QED BY <2>1, <1>6, Zenon DEF Refs
  <1>15. \A d : Sent(g, d) = {} /\ News(g, d) = {} /\ Plain(g, d) = {} /\ Labels(g, d) = {}
    BY <1>6 DEF Sent, News, Plain, Labels
  <1>16. \A d \in Ids : IdAt(g, d)
    <2>1. 0 \notin Ids BY DEF XdiAssumption
    <2>2. QED BY <2>1, <1>7, <1>15 DEF IdAt
  <1>17. \A c \in Chan, d \in Ids : <<c, d>> \in held => HoldAt(g, c, d) BY <1>7
  <1>18. held \subseteq Chan \X Ids BY <1>7
  <1>19. \A e \in Entity : Msgs(g, e) BY <1>7 DEF Msgs
  <1>20. Pending(g) BY <1>7 DEF Pending
  <1>21. Flows(g)
    <2>1. \A c \in Chan : Owner[c] \in Entity /\ c \in ChanNo
      BY DEF XdiAssumption, ChanNo
    <2>2. 0 \in ChanNo BY DEF ChanNo
    <2>3. QED BY <2>1, <2>2, <1>7 DEF Flows
  <1>22. IdTableSound
    <2>1. \A d \in Ids : IdTable[d] = 0 BY <1>7
    <2>2. QED BY <2>1, <1>7 DEF IdTableSound
  <1>23. Ctl BY <1>7 DEF Ctl
  <1>24. NoTrap BY <1>7 DEF NoTrap
  <1>25. Inv(g)
    BY <1>5, <1>8, <1>9, <1>11, <1>12, <1>13, <1>14, <1>16, <1>17, <1>18, <1>19, <1>20,
       <1>21 DEF Inv
  <1>26. Whole(g) BY <1>1, <1>22, <1>23, <1>24, <1>25 DEF Whole
  <1>27. QED BY <1>26 DEF IInv

\* A step of the DPC in isdn_rc
LEMMA RcWhole ==
    ASSUME XdiAssumption, Marked, NEW g, Whole(g), TypeOK', RcNext
    PROVE  \E h : Whole(h)'
  <1>1. CASE RcReadyInt \/ RcUnknown BY <1>1, UnknownKeeps
  <1>2. CASE RcIgnored BY <1>2, IgnoredKeeps
  <1>3. CASE RcOkFc BY <1>3, OkFcKeeps
  <1>4. CASE RcLabel BY <1>4, LabelKeeps
  <1>5. CASE RcCancel BY <1>5, CancelsKeep
  <1>6. CASE RcCount BY <1>6, CountsKeep
  <1>7. CASE RcAssign
    <2>1. PICK i \in Slot, e \in Entity : AnswerStep(g, Head(rcBuf), i, e)
      BY <1>7, AnswerIs
    <2>2. PICK r : r = Head(rcBuf) OBVIOUS
    <2>3. AnswerStep(g, r, i, e) BY <2>1, <2>2
    <2>4. QED BY <2>3, AnswerKeeps
  <1>8. CASE RcAssignPost BY <1>8, PostKeeps
  <1>9. CASE RcDone BY <1>9, DpcQuiet
  <1>10. QED BY <1>1, <1>2, <1>3, <1>4, <1>5, <1>6, <1>7, <1>8, <1>9 DEF RcNext

\* The histories explain the next state, too.
LEMMA NextWhole ==
    ASSUME XdiAssumption, NoUremove, Marked, NEW g, Whole(g), [Next]_vars
    PROVE  \E h : Whole(h)'
  <1>1. TypeOK' 
    <2>1. TypeOK BY Parts
    <2>2. QED BY <2>1, NextType
  <1>2. CASE ClientNext BY <1>1, <1>2, RequestKeeps
  <1>3. CASE DpcNext
    <2>1. CASE DpcStart \/ ClrIrq BY <2>1, <1>1, DpcQuiet
    <2>2. CASE OutNext
      <3>1. CASE OutLook \/ OutEnd BY <3>1, <1>1, DpcQuiet
      <3>2. CASE OutFragment BY <3>2, <1>1, FragmentKeeps
      <3>3. CASE OutFinal BY <3>3, <1>1, FinalKeeps
      <3>4. CASE OutAssign BY <3>4, <1>1, AssignOutKeeps
      <3>5. QED BY <2>2, <3>1, <3>2, <3>3, <3>4 DEF OutNext
    <2>3. CASE RcNext BY <2>3, <1>1, RcWhole
    <2>4. QED BY <1>3, <2>1, <2>2, <2>3 DEF DpcNext
  <1>4. CASE CardNext
    <2>1. CASE CardAssign BY <2>1, <1>1, AssignKeeps
    <2>2. CASE CardData BY <2>2, <1>1, DataKeeps
    <2>3. CASE CardRemove BY <2>3, <1>1, RemoveKeeps
    <2>4. CASE CardXon BY <2>4, <1>1, XonKeeps
    <2>5. CASE CardReady BY <2>5, <1>1, ReadyKeeps
    <2>6. CASE CardPost BY <2>6, <1>1, DpcQuiet
    <2>7. QED BY <1>4, <2>1, <2>2, <2>3, <2>4, <2>5, <2>6 DEF CardNext, CardTake
  <1>5. CASE UNCHANGED vars
    <2> USE DEF vars, clientVars, tblVars, queueVars, idVars, outVars, ramVars, cardVars
    <2>1. /\ TypeOK /\ Ctl /\ IdTableSound /\ NoTrap
          /\ GhostType(g) /\ Pipes(g) /\ Forms(g)
          /\ \A e \in Entity : EntityAt(e, g.st[e]) /\ Msgs(g, e)
          /\ Queue(g) /\ Assigns(g) /\ Refs(g)
      BY Parts
    <2>2. UNCHANGED <<rcBuf, outq, inbox, batch>> BY <1>5
    <2>3. Pipes(g)' BY <2>1, <2>2 DEF Pipes
    <2>4. Ctl' BY <2>1, <1>5 DEF Ctl
    <2>5. QuietStep BY <1>5 DEF QuietStep
    <2>6. QED BY <1>1, <2>3, <2>4, <2>5, Quiet
  <1>6. QED BY <1>2, <1>3, <1>4, <1>5 DEF Next

\* What isdn_rc, pr_out, request() and the card keep, whatever the entities,
\* slots, Ids and channels.
THEOREM Histories ==
    ASSUME NoUremove, Marked
    PROVE  Spec => []IInv
  <1>1. Init => IInv BY InitWhole, XdiAssumption
  <1>2. IInv /\ [Next]_vars => IInv'
    <2> SUFFICES ASSUME IInv, [Next]_vars PROVE IInv' OBVIOUS
    <2>1. PICK g : Whole(g) BY DEF IInv
    <2>2. \E h : Whole(h)' BY <2>1, NextWhole, XdiAssumption
    <2>3. QED BY <2>2 DEF IInv
  <1>3. QED BY <1>1, <1>2, PTL DEF Spec

-----------------------------------------------------------------------------
(* What the histories say of the queue, the references and the counters *)

\* The request queue is what the history says was queued and not sent.
LEMMA QueueWalk ==
    ASSUME XdiAssumption, NEW g, Whole(g), NEW n, n = Len(g.q) - g.out
    PROVE  /\ n \in Nat /\ n <= EMax /\ (n = 0 <=> head = 0)
           /\ \A k \in 0..(n - 1) : /\ k \in 0..EMax /\ g.out + 1 + k \in QLive(g)
                                    /\ Walk(head)[k] = g.q[g.out + 1 + k]
                                    /\ Walk(head)[k] \in Slot
           /\ \A k \in 0..EMax : k >= n => Walk(head)[k] = 0
           /\ \A k \in QLive(g) : k - g.out - 1 \in 0..(n - 1)
                                  /\ g.out + 1 + (k - g.out - 1) = k
  <1>1. PICK L, o : L = Len(g.q) /\ o = g.out OBVIOUS
  <1>2. Queue(g) /\ GhostType(g) BY Parts
  <1>3. L \in Nat /\ o \in Nat /\ o <= L /\ n = L - o /\ n \in Nat
    BY <1>1, <1>2, GhostParts
  <1>4. PICK s : s = [k \in 0..(n - 1) |-> g.q[o + 1 + k]] OBVIOUS
  <1>5. QLive(g) = (o + 1)..L BY <1>1 DEF QLive
  <1>6. /\ \A k \in 0..(n - 1) : o + 1 + k \in (o + 1)..L
        /\ \A k \in (o + 1)..L : k - o - 1 \in 0..(n - 1) /\ o + 1 + (k - o - 1) = k
    BY <1>3
  <1>7. \A k \in QLive(g) : g.q[k] \in Slot BY <1>2, GhostParts DEF QLive
  <1>8. \A k \in 0..(n - 1) : s[k] \in Slot /\ s[k] = g.q[o + 1 + k]
    BY <1>4, <1>5, <1>6, <1>7
  <1>9. /\ head = (IF o = L THEN 0 ELSE g.q[o + 1])
        /\ \A k \in QLive(g) : next[g.q[k]] = (IF k = L THEN 0 ELSE g.q[k + 1])
        /\ \A j, k \in QLive(g) : g.q[j] = g.q[k] => j = k
    BY <1>1, <1>2 DEF Queue
  <1>10. \A j, k \in 0..(n - 1) : s[j] = s[k] => j = k
    <2> TAKE j, k \in 0..(n - 1)
    <2> HAVE s[j] = s[k]
    <2>1. o + 1 + j \in QLive(g) /\ o + 1 + k \in QLive(g) BY <1>5, <1>6
    <2>2. g.q[o + 1 + j] = g.q[o + 1 + k] BY <1>8
    <2>3. o + 1 + j = o + 1 + k BY <2>1, <2>2, <1>9
    <2>4. QED BY <2>3, <1>3
  <1>11. n > 0 => head = s[0]
    <2> HAVE n > 0
    <2>1. o # L /\ o + 1 + 0 = o + 1 /\ 0 \in 0..(n - 1) BY <1>3
    <2>2. QED BY <2>1, <1>8, <1>9
  <1>12. \A k \in 0..(n - 1) : k + 1 < n => next[s[k]] = s[k + 1]
    <2> TAKE k \in 0..(n - 1)
    <2> HAVE k + 1 < n
    <2>1. /\ k + 1 \in 0..(n - 1) /\ o + 1 + k \in (o + 1)..L /\ o + 1 + k # L
          /\ o + 1 + (k + 1) = o + 1 + k + 1
      BY <1>3
    <2>2. next[g.q[o + 1 + k]] = g.q[o + 1 + k + 1] BY <2>1, <1>5, <1>9
    <2>3. QED BY <2>1, <2>2, <1>8
  <1>13. Linked(next, head, n, s) BY <1>3, <1>8, <1>10, <1>11, <1>12 DEF Linked
  <1>14. n = 0 => head = 0 BY <1>3, <1>9
  <1>15. n > 0 => next[s[n - 1]] = 0
    <2> HAVE n > 0
    <2>1. n - 1 \in 0..(n - 1) /\ o + 1 + (n - 1) = L /\ L \in (o + 1)..L BY <1>3
    <2>2. s[n - 1] = g.q[L] BY <2>1, <1>8
    <2>3. QED BY <2>1, <2>2, <1>5, <1>9
  <1>16. PICK w : w = Walk(head) OBVIOUS
  <1>17. Steps(next, head, EMax, w) BY <1>16, WalkSteps
  <1>18. \A k \in 0..(n - 1) : k \in 0..EMax /\ w[k] = s[k] BY <1>13, <1>17, StepsLinked
  <1>19. \A k \in 0..EMax : k >= n => w[k] = 0 BY <1>13, <1>14, <1>15, <1>17, StepsEnd
  <1>20. n <= EMax BY <1>13, LinkedShort
  <1>21. n # 0 => head # 0
    <2> HAVE n # 0
    <2>1. n > 0 /\ 0 \in 0..(n - 1) BY <1>3
    <2>2. QED BY <2>1, <1>8, <1>11 DEF Slot
  <1>22. \A k \in 0..(n - 1) : /\ k \in 0..EMax /\ g.out + 1 + k \in QLive(g)
                               /\ w[k] = g.q[g.out + 1 + k] /\ w[k] \in Slot
    BY <1>1, <1>5, <1>6, <1>8, <1>18
  <1>23. \A k \in QLive(g) : k - g.out - 1 \in 0..(n - 1) /\ g.out + 1 + (k - g.out - 1) = k
    BY <1>1, <1>5, <1>6
  <1>24. QED BY <1>3, <1>14, <1>16, <1>19, <1>20, <1>21, <1>22, <1>23

\* A slot of the queue is that of an entity whose request waits in it.
LEMMA InQueue ==
    ASSUME XdiAssumption, NEW g, Whole(g), NEW i \in Chain(head)
    PROVE  /\ i \in Slot /\ tbl[i] \in Entity /\ ent[tbl[i]].No = i
           /\ g.st[tbl[i]] \in {"asks", "queued"} /\ wait[tbl[i]]
           /\ ent[tbl[i]].XBUSY
  <1>1. PICK n : n = Len(g.q) - g.out OBVIOUS
  <1>2. /\ n \in Nat
        /\ \A k \in 0..(n - 1) : /\ g.out + 1 + k \in QLive(g)
                                 /\ Walk(head)[k] = g.q[g.out + 1 + k]
                                 /\ Walk(head)[k] \in Slot
        /\ \A k \in 0..EMax : k >= n => Walk(head)[k] = 0
    BY <1>1, QueueWalk
  <1>3. PICK k \in 0..EMax : i = Walk(head)[k] /\ i # 0 BY DEF Chain
  <1>4. k \in 0..(n - 1)
    <2>1. ~(k >= n) BY <1>2, <1>3
    <2>2. k \in Nat /\ n \in Nat BY <1>2
    <2>3. QED BY <2>1, <2>2
  <1>5. PICK j \in QLive(g) : i = g.q[j] /\ i \in Slot BY <1>2, <1>3, <1>4
  <1>6. tbl[i] # Null /\ ent[tbl[i]].No = i /\ g.st[tbl[i]] \in {"asks", "queued"}
    BY <1>5, Parts DEF Queue
  <1>7. tbl[i] \in Entity BY <1>5, <1>6, Parts DEF TypeOK
  <1>8. EntityAt(tbl[i], g.st[tbl[i]]) BY <1>7, Parts
  <1>9. QED BY <1>5, <1>6, <1>7, <1>8 DEF EntityAt

\* The invariant implies that the request queue is a list without a loop.
LEMMA WellFormed ==
    ASSUME XdiAssumption, NEW g, Whole(g)
    PROVE  QueueWellFormed
  <1>1. PICK n, w : n = Len(g.q) - g.out /\ w = Walk(head) OBVIOUS
  <1>2. /\ n \in Nat /\ n <= EMax /\ (n = 0 <=> head = 0)
        /\ \A k \in 0..(n - 1) : /\ k \in 0..EMax /\ w[k] = g.q[g.out + 1 + k]
                                 /\ w[k] \in Slot
        /\ \A k \in 0..EMax : k >= n => w[k] = 0
    BY <1>1, QueueWalk
  <1>3. EMax \in Nat BY DEF XdiAssumption
  <1>4. w[EMax] = 0 BY <1>2, <1>3
  <1>5. tail = IF head = 0 THEN 0 ELSE w[CHOOSE k \in 0..EMax : w[k] # 0 /\ w[k+1] = 0]
    <2>1. Queue(g) /\ GhostType(g) BY Parts
    <2>2. g.out \in Nat /\ Len(g.q) \in Nat BY <2>1, GhostParts
    <2>3. CASE head = 0
      <3>1. g.out = Len(g.q) BY <2>2, <2>3, <1>1, <1>2
      <3>2. QED BY <2>1, <2>3, <3>1 DEF Queue
    <2>4. CASE head # 0
      <3>1. n > 0 /\ n - 1 \in 0..(n - 1) /\ n \in 0..EMax /\ (n - 1) + 1 = n
        BY <2>4, <1>2, <1>3
      <3>2. w[n - 1] # 0 /\ w[(n - 1) + 1] = 0 /\ n - 1 \in 0..EMax
        BY <3>1, <1>2 DEF Slot
      <3>3. \A k \in 0..EMax : w[k] # 0 /\ w[k+1] = 0 => k = n - 1
        <4> TAKE k \in 0..EMax
        <4> HAVE w[k] # 0 /\ w[k+1] = 0
        <4>1. k < n BY <1>2
        <4>2. k + 1 \in 0..(n - 1) => FALSE BY <1>2 DEF Slot
        <4>3. QED BY <4>1, <4>2, <1>2
      <3>4. (CHOOSE k \in 0..EMax : w[k] # 0 /\ w[k+1] = 0) = n - 1
        BY <3>2, <3>3
      <3>5. g.out + 1 + (n - 1) = Len(g.q) /\ g.out # Len(g.q) BY <3>1, <2>2, <1>1, <1>2
      <3>6. tail = w[n - 1] BY <3>1, <3>5, <2>1, <1>2 DEF Queue
      <3>7. QED BY <2>4, <3>4, <3>6
    <2>5. QED BY <2>3, <2>4
  <1>6. \A i \in Chain(head) : tbl[i] # Null /\ ent[tbl[i]].XBUSY /\ ent[tbl[i]].No = i
    BY InQueue DEF XdiAssumption
  <1>7. QED BY <1>1, <1>4, <1>5, <1>6 DEF QueueWellFormed

\* What is between driver and card is in the histories, and the other way round.
LEMMA OnWay ==
    ASSUME TypeOK, NEW g, GhostType(g), Pipes(g)
    PROVE  /\ \A m \in Range_(rcBuf) \cup Range_(outq) : \E k \in RLive(g) : m = g.R[k]
           /\ \A m \in Range_(batch) \cup Range_(inbox) : \E k \in RqLive(g) : m = g.Q[k]
  <1>1. /\ g.got \in Nat /\ Len(g.R) \in Nat /\ g.tk \in Nat /\ Len(g.Q) \in Nat
    BY GhostParts
  <1>2. /\ Len(rcBuf) \in Nat /\ Len(outq) \in Nat /\ Len(inbox) \in Nat /\ Len(batch) \in Nat
    BY DEF TypeOK
  <1>3. PICK G, B, O, T, I, W : /\ G = g.got /\ B = Len(rcBuf) /\ O = Len(outq)
                                /\ T = g.tk /\ I = Len(inbox) /\ W = Len(batch)
    OBVIOUS
  <1>4. /\ G \in Nat /\ B \in Nat /\ O \in Nat /\ T \in Nat /\ I \in Nat /\ W \in Nat
        /\ Len(g.R) = G + B + O /\ Len(g.Q) = T + I + W
    BY <1>1, <1>2, <1>3 DEF Pipes
  <1>5. /\ \A k \in 1..B : G + k \in (G + 1)..(G + B + O)
        /\ \A k \in 1..O : G + B + k \in (G + 1)..(G + B + O)
        /\ \A k \in 1..I : T + k \in (T + 1)..(T + I + W)
        /\ \A k \in 1..W : T + I + k \in (T + 1)..(T + I + W)
    BY <1>4
  <1>6. RLive(g) = (G + 1)..(G + B + O) /\ RqLive(g) = (T + 1)..(T + I + W)
    BY <1>3, <1>4 DEF RLive, RqLive
  <1>7. /\ \A k \in 1..B : rcBuf[k] = g.R[G + k] /\ G + k \in RLive(g)
        /\ \A k \in 1..O : outq[k] = g.R[G + B + k] /\ G + B + k \in RLive(g)
        /\ \A k \in 1..I : inbox[k] = g.Q[T + k] /\ T + k \in RqLive(g)
        /\ \A k \in 1..W : batch[k] = g.Q[T + I + k] /\ T + I + k \in RqLive(g)
    BY <1>3, <1>5, <1>6 DEF Pipes
  <1>8. \A m \in Range_(rcBuf) \cup Range_(outq) : \E k \in RLive(g) : m = g.R[k]
    BY <1>3, <1>7 DEF Range_
  <1>9. \A m \in Range_(batch) \cup Range_(inbox) : \E k \in RqLive(g) : m = g.Q[k]
    BY <1>3, <1>7 DEF Range_
  <1>10. QED BY <1>8, <1>9

\* The invariant implies that isdn_rc() finds the slot of every answered ASSIGN.
LEMMA Found ==
    ASSUME XdiAssumption, NEW g, Whole(g)
    PROVE  AssignFound
  <1>1. /\ TypeOK /\ GhostType(g) /\ Pipes(g) /\ Forms(g) /\ Assigns(g) /\ Refs(g)
    BY Parts
  <1>2. SUFFICES ASSUME NEW q \in PendingAssigns
                 PROVE  LET i == get_assign(q.Reference) IN
                          /\ i # 0 /\ tbl[i] # Null
                          /\ ent[tbl[i]].No = i /\ wait[tbl[i]] /\ ent[tbl[i]].Id = 0
    BY DEF AssignFound
  <1>3. \E n \in SLive(g) : q.Reference = ref[g.S[n]]
    <2>1. /\ \A n \in (g.done + 1)..g.ans : n \in SLive(g)
          /\ \A n \in (g.ans + 1)..Len(g.S) : n \in SLive(g)
      BY <1>1, GhostParts DEF SLive
    <2>2. CASE q \in Range_(batch) \cup Range_(inbox) /\ q.Req = "ASSIGN"
      <3>1. PICK k \in RqLive(g) : q = g.Q[k] BY <2>2, <1>1, OnWay
      <3>2. g.Q[k].Reference # 0 BY <2>2, <3>1, <1>1 DEF Forms, RqForm
      <3>3. PICK n \in (g.ans + 1)..Len(g.S) : g.Q[k].Reference = ref[g.S[n]]
        BY <3>2, <1>1 DEF Refs
      <3>4. QED BY <3>1, <3>3, <2>1
    <2>3. CASE q \in Range_(outq) \cup Range_(rcBuf) /\ q.Rc \in {"ASSIGN_OK", "ASSIGN_FAIL"}
      <3>1. PICK k \in RLive(g) : q = g.R[k] BY <2>3, <1>1, OnWay
      <3>2. g.R[k].Reference # 0 BY <2>3, <3>1, <1>1 DEF Forms, RcForm
      <3>3. PICK n \in (g.done + 1)..g.ans : g.R[k].Reference = ref[g.S[n]]
        BY <3>2, <1>1 DEF Refs
      <3>4. QED BY <3>1, <3>3, <2>1
    <2>4. QED BY <2>2, <2>3 DEF PendingAssigns
  <1>4. PICK n \in SLive(g) : q.Reference = ref[g.S[n]] BY <1>3
  <1>5. PICK i : i = g.S[n] OBVIOUS
  <1>6. get_assign(q.Reference) = i BY <1>4, <1>5, GetAssign
  <1>7. i \in Slot BY <1>1, <1>5, GhostParts DEF SLive
  <1>8. i # 0 BY <1>7 DEF Slot
  <1>9. tbl[i] # Null /\ ent[tbl[i]].No = i /\ g.st[tbl[i]] = "asked"
    BY <1>1, <1>5 DEF Assigns
  <1>10. tbl[i] \in Entity BY <1>1, <1>7, <1>9 DEF TypeOK
  <1>11. EntityAt(tbl[i], "asked") BY <1>9, <1>10, Parts
  <1>12. wait[tbl[i]] /\ ent[tbl[i]].Id = 0 BY <1>11 DEF EntityAt
  <1>13. QED BY <1>6, <1>8, <1>9, <1>12

\* The set X, moved by a
LEMMA Moved ==
    ASSUME NEW X, IsFiniteSet(X), X \subseteq Int, NEW a \in Int, NEW Z,
           Z = {a + k : k \in X}
    PROVE  IsFiniteSet(Z) /\ Cardinality(Z) = Cardinality(X)
  <1>1. PICK f : f = [k \in X |-> a + k] OBVIOUS
  <1>2. f \in [X -> Z] BY <1>1
  <1>3. \A j, k \in X : f[j] = f[k] => j = k
    <2> TAKE j, k \in X
    <2> HAVE f[j] = f[k]
    <2>1. a + j = a + k /\ j \in Int /\ k \in Int BY <1>1
    <2>2. QED BY <2>1
  <1>4. \A z \in Z : \E k \in X : f[k] = z BY <1>1
  <1>5. f \in Bijection(X, Z)
    BY <1>2, <1>3, <1>4 DEF Bijection, Injection, Surjection, IsInjective
  <1>6. ExistsBijection(X, Z) BY <1>5 DEF ExistsBijection
  <1>7. QED BY <1>6, FS_Bijection

\* Z are the positions in two sequences, one behind the other, X and Y those in
\* the first and in the second.
Spliced(G, B, O, Z, X, Y) ==
    /\ G \in Nat /\ B \in Nat /\ O \in Nat /\ Z \subseteq (G + 1)..(G + B + O)
    /\ X \subseteq 1..B /\ Y \subseteq 1..O
    /\ \A k \in 1..B : k \in X <=> G + k \in Z
    /\ \A k \in 1..O : k \in Y <=> G + B + k \in Z

\* Cardinality of a set that is split in two.
LEMMA TwoParts ==
    ASSUME NEW G, NEW B, NEW O, NEW Z, NEW X, NEW Y, Spliced(G, B, O, Z, X, Y)
    PROVE  Cardinality(Z) = Cardinality(X) + Cardinality(Y)
  <1> USE DEF Spliced
  <1>1. PICK U, V : U = {G + k : k \in X} /\ V = {(G + B) + k : k \in Y} OBVIOUS
  <1>2. IsFiniteSet(1..B) /\ IsFiniteSet(1..O) BY FS_Interval
  <1>3. IsFiniteSet(X) /\ IsFiniteSet(Y) BY <1>2, FS_Subset
  <1>4. X \subseteq Int /\ Y \subseteq Int /\ G \in Int /\ G + B \in Int OBVIOUS
  <1>5. IsFiniteSet(U) /\ Cardinality(U) = Cardinality(X) BY <1>1, <1>3, <1>4, Moved
  <1>6. IsFiniteSet(V) /\ Cardinality(V) = Cardinality(Y) BY <1>1, <1>3, <1>4, Moved
  <1>7. /\ \A u \in U : u <= G + B
        /\ \A v \in V : v > G + B
        /\ \A u \in U : u \in Int
    BY <1>1
  <1>8. U \cap V = {} BY <1>7
  <1>9. Z = U \cup V
    <2>1. \A z \in Z : (z - G \in 1..B /\ G + (z - G) = z)
                       \/ (z - G - B \in 1..O /\ G + B + (z - G - B) = z)
      OBVIOUS
    <2>2. \A z \in Z : z \in U \cup V
      <3> TAKE z \in Z
      <3>1. CASE z - G \in 1..B /\ G + (z - G) = z
        <4>1. z - G \in X BY <3>1
        <4>2. QED BY <4>1, <3>1, <1>1
      <3>2. CASE z - G - B \in 1..O /\ G + B + (z - G - B) = z
        <4>1. z - G - B \in Y BY <3>2
        <4>2. QED BY <4>1, <3>2, <1>1
      <3>3. QED BY <2>1, <3>1, <3>2
    <2>3. \A u \in U : u \in Z BY <1>1
    <2>4. \A v \in V : v \in Z BY <1>1
    <2>5. QED BY <2>2, <2>3, <2>4
  <1>10. Cardinality(U \cup V) = Cardinality(U) + Cardinality(V) - Cardinality({})
    BY <1>5, <1>6, <1>8, FS_Union
  <1>11. Cardinality({}) = 0 /\ Cardinality(X) \in Nat /\ Cardinality(Y) \in Nat
    BY <1>3, FS_EmptySet, FS_CardinalityType
  <1>12. QED BY <1>5, <1>6, <1>9, <1>10, <1>11

\* What is on its way for an Id, counted in the histories
LEMMA Counts ==
    ASSUME XdiAssumption, TypeOK, NEW g, GhostType(g), Pipes(g), NEW d, d # 0
    PROVE  OnTheWay(d) = Cardinality(Plain(g, d)) + Cardinality(Sent(g, d))
  <1>1. /\ g.got \in Nat /\ Len(g.R) \in Nat /\ g.tk \in Nat /\ Len(g.Q) \in Nat
    BY GhostParts
  <1>2. /\ Len(rcBuf) \in Nat /\ Len(outq) \in Nat /\ Len(inbox) \in Nat /\ Len(batch) \in Nat
    BY DEF TypeOK
  <1>3. PICK G, B, O, T, I, W : /\ G = g.got /\ B = Len(rcBuf) /\ O = Len(outq)
                                /\ T = g.tk /\ I = Len(inbox) /\ W = Len(batch)
    OBVIOUS
  <1>4. /\ G \in Nat /\ B \in Nat /\ O \in Nat /\ T \in Nat /\ I \in Nat /\ W \in Nat
        /\ Len(g.R) = G + B + O /\ Len(g.Q) = T + I + W
    BY <1>1, <1>2, <1>3 DEF Pipes
  <1>5. /\ \A k \in 1..B : G + k \in (G + 1)..(G + B + O)
        /\ \A k \in 1..O : G + B + k \in (G + 1)..(G + B + O)
        /\ \A k \in 1..I : T + k \in (T + 1)..(T + I + W)
        /\ \A k \in 1..W : T + I + k \in (T + 1)..(T + I + W)
    BY <1>4
  <1>6. RLive(g) = (G + 1)..(G + B + O) /\ RqLive(g) = (T + 1)..(T + I + W)
    BY <1>3, <1>4 DEF RLive, RqLive
  <1>7. /\ \A k \in 1..B : rcBuf[k] = g.R[G + k] /\ G + k \in RLive(g)
        /\ \A k \in 1..O : outq[k] = g.R[G + B + k] /\ G + B + k \in RLive(g)
        /\ \A k \in 1..I : inbox[k] = g.Q[T + k] /\ T + k \in RqLive(g)
        /\ \A k \in 1..W : batch[k] = g.Q[T + I + k] /\ T + I + k \in RqLive(g)
    BY <1>3, <1>5, <1>6 DEF Pipes
  <1>8. PICK X, Y, U, V :
           /\ X = {k \in 1..B : RcKey(rcBuf[k]) = d} /\ Y = {k \in 1..O : RcKey(outq[k]) = d}
           /\ U = {k \in 1..I : inbox[k].ReqId = d} /\ V = {k \in 1..W : batch[k].ReqId = d}
    OBVIOUS
  <1>9. Cardinality(Plain(g, d)) = Cardinality(X) + Cardinality(Y)
    <2>1. PICK Z : Z = Plain(g, d) OBVIOUS
    <2>2. Z \subseteq (G + 1)..(G + B + O) BY <2>1, <1>6 DEF Plain
    <2>3. /\ \A k \in 1..B : k \in X <=> G + k \in Z
          /\ \A k \in 1..O : k \in Y <=> G + B + k \in Z
          /\ X \subseteq 1..B /\ Y \subseteq 1..O
      BY <2>1, <1>7, <1>8 DEF Plain
    <2>4. Spliced(G, B, O, Z, X, Y) BY <2>2, <2>3, <1>4 DEF Spliced
    <2>5. QED BY <2>1, <2>4, TwoParts
  <1>10. Cardinality(Sent(g, d)) = Cardinality(U) + Cardinality(V)
    <2>1. PICK Z : Z = Sent(g, d) OBVIOUS
    <2>2. Z \subseteq (T + 1)..(T + I + W) BY <2>1, <1>6 DEF Sent
    <2>3. /\ \A k \in 1..I : k \in U <=> T + k \in Z
          /\ \A k \in 1..W : k \in V <=> T + I + k \in Z
          /\ U \subseteq 1..I /\ V \subseteq 1..W
      BY <2>1, <1>7, <1>8 DEF Sent
    <2>4. Spliced(T, I, W, Z, U, V) BY <2>2, <2>3, <1>4 DEF Spliced
    <2>5. QED BY <2>1, <2>4, TwoParts
  <1>11. OnTheWay(d) = Cardinality(V) + Cardinality(U) + Cardinality(Y) + Cardinality(X)
    <2>1. PICK a, b, c, e :
             /\ a = [k \in 1..Len(batch) |-> batch[k].ReqId]
             /\ b = [k \in 1..Len(inbox) |-> inbox[k].ReqId]
             /\ c = [k \in 1..Len(outq) |-> IF \/ outq[k].Ext = "OK_FC"
                                               \/ outq[k].Rc = "ASSIGN_OK"
                                            THEN 0 ELSE outq[k].RcId]
             /\ e = [k \in 1..Len(rcBuf) |-> IF \/ rcBuf[k].Ext = "OK_FC"
                                                \/ rcBuf[k].Rc = "ASSIGN_OK"
                                             THEN 0 ELSE rcBuf[k].RcId]
      OBVIOUS
    <2>2. Len(a) = W /\ Len(b) = I /\ Len(c) = O /\ Len(e) = B
      BY <2>1, <1>2, <1>3
    <2>3. /\ {k \in 1..Len(a) : a[k] = d} = V /\ {k \in 1..Len(b) : b[k] = d} = U
          /\ {k \in 1..Len(c) : c[k] = d} = Y /\ {k \in 1..Len(e) : e[k] = d} = X
      BY <2>1, <2>2, <1>3, <1>8 DEF RcKey
    <2>4. QED BY <2>1, <2>3 DEF OnTheWay
  <1>12. /\ Cardinality(X) \in Nat /\ Cardinality(Y) \in Nat
         /\ Cardinality(U) \in Nat /\ Cardinality(V) \in Nat
    <2>1. IsFiniteSet(1..B) /\ IsFiniteSet(1..O) /\ IsFiniteSet(1..I) /\ IsFiniteSet(1..W)
      <3>1. \A n \in Nat : IsFiniteSet(1..n) BY FS_Interval
      <3>2. QED BY <3>1, <1>4
    <2>2. X \subseteq 1..B /\ Y \subseteq 1..O /\ U \subseteq 1..I /\ V \subseteq 1..W BY <1>8
    <2>3. IsFiniteSet(X) /\ IsFiniteSet(Y) /\ IsFiniteSet(U) /\ IsFiniteSet(V)
      BY <2>1, <2>2, FS_Subset
    <2>4. QED BY <2>3, FS_CardinalityType
  <1>13. QED BY <1>9, <1>10, <1>11, <1>12

\* The invariant implies that XMOREC counts what is under way.
LEMMA Exact ==
    ASSUME XdiAssumption, NEW g, Whole(g)
    PROVE  CounterExact
  <1>1. SUFFICES ASSUME NEW e \in Entity, ent[e].Id # 0
                 PROVE  ent[e].XMOREC = OnTheWay(ent[e].Id)
    BY DEF CounterExact
  <1>2. PICK d : d = ent[e].Id OBVIOUS
  <1>3. TypeOK /\ GhostType(g) /\ Pipes(g) BY Parts
  <1>4. ent[e].XMOREC = Cardinality(Plain(g, d)) + Cardinality(Sent(g, d))
    BY <1>1, <1>2, HasRequest
  <1>5. OnTheWay(d) = Cardinality(Plain(g, d)) + Cardinality(Sent(g, d))
    BY <1>1, <1>2, <1>3, Counts
  <1>6. QED BY <1>2, <1>4, <1>5

\* IdTableSound and AssignFound (the second of them: di.c:591-640): the driver
\* finds the entity of every return code, whatever the entities, slots and Ids.
THEOREM AnswersSafe ==
    ASSUME NoUremove, Marked
    PROVE  Spec => []AnswersFound
  <1>1. IInv => AnswersFound
    <2> SUFFICES ASSUME IInv PROVE AnswersFound OBVIOUS
    <2>1. PICK g : Whole(g) BY DEF IInv
    <2>2. IdTableSound BY <2>1, Parts
    <2>3. AssignFound BY <2>1, Found, XdiAssumption
    <2>4. QED BY <2>2, <2>3 DEF AnswersFound
  <1>2. Spec => []IInv BY Histories
  <1>3. QED BY <1>1, <1>2, PTL

\* The queue through e_tbl, the busy flags and XMOREC fit together (io.c:512-585,
\* di.c:165, 664-690), whatever the entities, slots and Ids.
THEOREM QueueSafe ==
    ASSUME NoUremove, Marked
    PROVE  Spec => []QueueSound
  <1>1. IInv => QueueSound
    <2> SUFFICES ASSUME IInv PROVE QueueSound OBVIOUS
    <2>1. PICK g : Whole(g) BY DEF IInv
    <2>2. QueueWellFormed BY <2>1, WellFormed, XdiAssumption
    <2>3. NoTrap BY <2>1, Parts
    <2>4. CounterExact BY <2>1, Exact, XdiAssumption
    <2>5. QED BY <2>2, <2>3, <2>4 DEF QueueSound
  <1>2. Spec => []IInv BY Histories
  <1>3. QED BY <1>1, <1>2, PTL

-----------------------------------------------------------------------------
(* What a step may do: the answers (AnswersHonest) *)

\* The entity f of a return code is still known, or the return code is taken
\* for the answer to its REMOVE.
StillKnown(f) == tbl' = tbl /\ (ent[f].Id = 0 \/ ent'[f].Id = ent[f].Id)

\* isdn_rc() frees the slot of entity f.
LetGo(f) ==
    \E i \in Slot : LET r == Head(rcBuf) IN
        /\ Known(r, i, f) /\ Removes(r, i) /\ ~Ignored(r, i, f)
        /\ rcBuf' = Tail(rcBuf) /\ tbl' = [tbl EXCEPT ![i] = Null]

\* What a return code does: it concerns one entity.
AnswerFor(f) ==
    /\ UNCHANGED <<head, next, inbox, batch, outq>>
    /\ \A e \in Entity : e # f => ent'[e] = ent[e] /\ wait'[e] = wait[e]
    /\ wait'[f] => wait[f]
    /\ StillKnown(f) \/ LetGo(f)

\* A step that no entity and no request notices
Calm ==
    /\ UNCHANGED <<ent, wait, head, next>>
    /\ tbl' = tbl \/ (pc = "post" /\ ~cur.ok /\ tbl' = [tbl EXCEPT ![cur.i] = Null])

\* The step tells the client of f and nobody else.
TellsOnly(f) == /\ \A e \in Entity : e # f => wait'[e] = wait[e]
                /\ wait'[f] => wait[f]

\* The client's callback concerns the client of the entity.
LEMMA CallbackWait ==
    ASSUME TypeOK, NEW f \in Entity, NEW x, NEW rc, NEW c, ClientRc(f, x, rc, c)
    PROVE  TellsOnly(f)
  <1>1. wait \in [Entity -> BOOLEAN] BY DEF TypeOK
  <1>2. wait' = wait \/ wait' = [wait EXCEPT ![f] = FALSE]
    BY DEF ClientRc, clientVars
  <1>3. QED BY <1>1, <1>2 DEF TellsOnly

\* A return code for a known Id (the four ways through isdn_rc)
LEMMA KnownAnswer ==
    ASSUME XdiAssumption, TypeOK, NEW i \in Slot, NEW f \in Entity, NEW r,
           r = Head(rcBuf), Known(r, i, f), Unlink(r, i, f),
           NEW x, ent' = [ent EXCEPT ![f] = x], ~Removes(r, i) => x.Id = ent[f].Id,
           TellsOnly(f)
    PROVE  AnswerFor(f)
  <1>1. UNCHANGED <<head, next, inbox, batch, outq>>
    BY DEF Unlink, RcFrame, queueVars, ramVars, outVars, cardVars
  <1>2. ent \in [Entity -> ENTITY] BY DEF TypeOK
  <1>3. ent'[f] = x /\ \A e \in Entity : e # f => ent'[e] = ent[e] BY <1>2
  <1>4. rcBuf' = Tail(rcBuf) /\ ~Ignored(r, i, f) BY DEF Unlink
  <1>5. CASE Removes(r, i)
    <2>0. tbl' = [tbl EXCEPT ![i] = Null] BY <1>5 DEF Unlink, Forget, free_entity
    <2>1. LetGo(f) BY <2>0, <1>4, <1>5 DEF LetGo
    <2>2. QED BY <2>1, <1>1, <1>3 DEF AnswerFor, TellsOnly
  <1>6. CASE ~Removes(r, i)
    <2>1. tbl' = tbl BY <1>6 DEF Unlink
    <2>2. ent'[f].Id = ent[f].Id BY <1>3, <1>6
    <2>3. StillKnown(f) BY <2>1, <2>2 DEF StillKnown
    <2>4. QED BY <2>3, <1>1, <1>3 DEF AnswerFor, TellsOnly
  <1>7. QED BY <1>5, <1>6

\* The kinds of steps
LEMMA StepKinds ==
    ASSUME XdiAssumption, NoUremove, NEW g, Whole(g), [Next]_vars
    PROVE  \/ ClientNext \/ OutFragment \/ OutFinal \/ OutAssign \/ Calm
           \/ \E f \in Entity : AnswerFor(f)
  <1>1. TypeOK /\ ent \in [Entity -> ENTITY] BY Parts DEF TypeOK
  <1>2. CASE OutEnd
    <2>1. ~Unreturned(this) BY NoneUnreturned
    <2>2. QED BY <2>1, <1>2 DEF OutEnd, Calm, queueVars
  <1>7. CASE CardNext
    <2>0. \A a : CardConsume(a) => CardFrame BY DEF CardConsume
    <2>1. CardFrame
      <3>1. CardAssign => CardFrame BY <2>0 DEF CardAssign
      <3>2. CardData => CardFrame BY <2>0 DEF CardData
      <3>3. CardRemove => CardFrame BY <2>0 DEF CardRemove
      <3>4. CardXon \/ CardReady \/ CardPost => CardFrame
        BY DEF CardXon, CardReady, CardPost
      <3>5. QED BY <3>1, <3>2, <3>3, <3>4, <1>7 DEF CardNext, CardTake
    <2>2. QED BY <2>1 DEF Calm, CardFrame, clientVars, tblVars, queueVars
  <1>8. CASE DpcStart \/ ClrIrq \/ OutLook \/ RcReadyInt \/ RcUnknown \/ RcIgnored
             \/ RcAssignPost \/ RcDone
    <2>1. CASE DpcStart \/ ClrIrq \/ OutLook
      BY <2>1 DEF DpcStart, ClrIrq, OutLook, Calm, clientVars, tblVars, queueVars
    <2>2. CASE RcReadyInt \/ RcUnknown \/ RcIgnored
      BY <2>2 DEF RcReadyInt, RcUnknown, RcIgnored, RcFrame, Calm, clientVars, queueVars
    <2>3. CASE RcAssignPost \/ RcDone
      BY <2>3 DEF RcAssignPost, RcDone, free_entity, Calm, clientVars, tblVars, queueVars
    <2>4. QED BY <1>8, <2>1, <2>2, <2>3
  <1>9. CASE RcOkFc
    <2>1. PICK i \in Slot, e \in Entity : LET r == Head(rcBuf) IN
             /\ Known(r, i, e) /\ r.Rc = "OK_FC" /\ Unlink(r, i, e)
             /\ ent' = [ent EXCEPT ![e] = Accepted(@)]
             /\ ClientRc(e, ent'[e], r.Rc, r.RcCh)
      BY <1>9 DEF RcOkFc
    <2>2. PICK r, x : r = Head(rcBuf) /\ x = Accepted(ent[e]) OBVIOUS
    <2>3. x.Id = ent[e].Id BY <1>1, <2>2 DEF Accepted, ENTITY
    <2>4. TellsOnly(e) BY <1>1, <2>1, CallbackWait
    <2>5. ent' = [ent EXCEPT ![e] = x] BY <2>1, <2>2
    <2>6. Known(r, i, e) /\ Unlink(r, i, e) BY <2>1, <2>2
    <2>7. AnswerFor(e) BY <1>1, <2>2, <2>3, <2>4, <2>5, <2>6, KnownAnswer
    <2>8. QED BY <2>7
  <1>10. CASE RcLabel
    <2>1. PICK i \in Slot, e \in Entity : LET r == Head(rcBuf) IN
             /\ Known(r, i, e) /\ Unlink(r, i, e)
             /\ ent' = [ent EXCEPT ![e] = Untouched(Stripped(r, i, e))]
             /\ ClientRc(e, ent'[e], r.Rc, r.RcCh)
      BY <1>10 DEF RcLabel
    <2>2. PICK r, x : r = Head(rcBuf) /\ x = Untouched(Stripped(r, i, e)) OBVIOUS
    <2>3. ~Removes(r, i) => x.Id = ent[e].Id BY <2>2 DEF Untouched, Stripped
    <2>4. TellsOnly(e) BY <1>1, <2>1, CallbackWait
    <2>5. ent' = [ent EXCEPT ![e] = x] BY <2>1, <2>2
    <2>6. Known(r, i, e) /\ Unlink(r, i, e) BY <2>1, <2>2
    <2>7. AnswerFor(e) BY <1>1, <2>2, <2>3, <2>4, <2>5, <2>6, KnownAnswer
    <2>8. QED BY <2>7
  <1>11. CASE RcCancel
    <2>1. PICK i \in Slot, e \in Entity : LET r == Head(rcBuf) IN
             /\ Known(r, i, e) /\ Unlink(r, i, e)
             /\ IF r.Rc # "OK" \/ r.RcCh \notin fcSkip
                THEN /\ ent' = [ent EXCEPT ![e] = Release(Stripped(r, i, e), r.RcCh)]
                     /\ ClientRc(e, ent'[e], r.Rc, r.RcCh)
                ELSE ent' = [ent EXCEPT ![e] = Stripped(r, i, e)] /\ UNCHANGED clientVars
      BY <1>11 DEF RcCancel
    <2>2. PICK r : r = Head(rcBuf) OBVIOUS
    <2>3. TellsOnly(e) BY <1>1, <2>1, CallbackWait DEF TellsOnly, clientVars
    <2>4. PICK x : /\ ent' = [ent EXCEPT ![e] = x]
                   /\ x = Release(Stripped(r, i, e), r.RcCh) \/ x = Stripped(r, i, e)
      BY <2>1, <2>2
    <2>5. ~Removes(r, i) => x.Id = ent[e].Id
      <3>1. HAVE ~Removes(r, i)
      <3>2. x = ent[e] \/ x = Accepted(ent[e])
        BY <3>1, <2>4 DEF Release, Stripped
      <3>3. Accepted(ent[e]).Id = ent[e].Id BY <1>1 DEF Accepted, ENTITY
      <3>4. QED BY <3>2, <3>3
    <2>6. Known(r, i, e) /\ Unlink(r, i, e) BY <2>1, <2>2
    <2>7. AnswerFor(e) BY <1>1, <2>2, <2>3, <2>4, <2>5, <2>6, KnownAnswer
    <2>8. QED BY <2>7
  <1>12. CASE RcCount
    <2>1. PICK i \in Slot, e \in Entity : LET r == Head(rcBuf) IN
             /\ Known(r, i, e) /\ Unlink(r, i, e)
             /\ LET x == Counted(r, i, e) IN
                IF Answered(x, i, r)
                THEN /\ ent' = [ent EXCEPT ![e] = Completed(x)]
                     /\ ClientRc(e, ent'[e], r.Rc, r.RcCh)
                ELSE ent' = [ent EXCEPT ![e] = x] /\ UNCHANGED clientVars
      BY <1>12 DEF RcCount
    <2>2. PICK r, y : r = Head(rcBuf) /\ y = Counted(r, i, e) OBVIOUS
    <2>3. TellsOnly(e) BY <1>1, <2>1, CallbackWait DEF TellsOnly, clientVars
    <2>4. PICK x : /\ ent' = [ent EXCEPT ![e] = x]
                   /\ x = Completed(y) \/ x = y
      BY <2>1, <2>2
    <2>5. ~Removes(r, i) => x.Id = ent[e].Id
      BY <1>1, <2>2, <2>4 DEF Completed, Counted, Stripped, ENTITY
    <2>6. Known(r, i, e) /\ Unlink(r, i, e) BY <2>1, <2>2
    <2>7. AnswerFor(e) BY <1>1, <2>2, <2>3, <2>4, <2>5, <2>6, KnownAnswer
    <2>8. QED BY <2>7
  <1>13. CASE RcAssign
    <2>1. PICK i \in Slot, e \in Entity : AnswerStep(g, Head(rcBuf), i, e)
      BY <1>13, AnswerIs
    <2>2. /\ UNCHANGED <<head, next, inbox, batch, outq, tbl>> /\ ent[e].Id = 0
          /\ ~wait'[e] /\ \A f \in Entity : f # e => ent'[f] = ent[f] /\ wait'[f] = wait[f]
      BY <2>1 DEF AnswerStep
    <2>3. AnswerFor(e) BY <2>2 DEF AnswerFor, StillKnown
    <2>4. QED BY <2>3
  <1>14. CASE RcNext BY <1>8, <1>9, <1>10, <1>11, <1>12, <1>13, <1>14 DEF RcNext
  <1>15. CASE OutNext BY <1>2, <1>8, <1>15 DEF OutNext
  <1>16. CASE DpcNext BY <1>8, <1>14, <1>15, <1>16 DEF DpcNext
  <1>17. CASE UNCHANGED vars BY <1>17 DEF Calm, vars, clientVars, tblVars, queueVars
  <1>18. QED BY <1>7, <1>16, <1>17 DEF Next

\* Only a return code ends the wait of a client or changes an Id.
LEMMA OnlyAnswers ==
    ASSUME XdiAssumption, NoUremove, NEW g, Whole(g), [Next]_vars
    PROVE  \/ \A e \in Entity : ent'[e].Id = ent[e].Id /\ (wait[e] => wait'[e])
           \/ \E f \in Entity : AnswerFor(f)
  <1> DEFINE Steady == \A e \in Entity : ent'[e].Id = ent[e].Id /\ (wait[e] => wait'[e])
  <1>1. TypeOK /\ ent \in [Entity -> ENTITY] /\ wait \in [Entity -> BOOLEAN]
    BY Parts DEF TypeOK
  <1>2. ASSUME NEW e \in Entity, NEW r, NEW c, NEW n, Request(e, r, c, n) PROVE Steady
    <2>1. /\ wait' = [wait EXCEPT ![e] = TRUE]
          /\ \E x : ent' = [ent EXCEPT ![e] = x] /\ x.Id = ent[e].Id
      <3>1. /\ wait' = [wait EXCEPT ![e] = TRUE]
            /\ \/ Refuse(e, r, c, n, FALSE) \/ Refuse(e, r, c, n, TRUE)
               \/ \E i : Enqueue(e, r, c, n, i)
        BY <1>2 DEF Request
      <3>2. CASE Refuse(e, r, c, n, FALSE) \/ Refuse(e, r, c, n, TRUE)
        <4>1. PICK x : x = Asked(ent[e], r, c, n) OBVIOUS
        <4>2. ent' = [ent EXCEPT ![e] = x] BY <3>2, <4>1 DEF Refuse
        <4>3. x.Id = ent[e].Id BY <1>1, <4>1 DEF Asked, ENTITY
        <4>4. QED BY <3>1, <4>2, <4>3
      <3>3. CASE \E i : Enqueue(e, r, c, n, i)
        <4>0. PICK i : Enqueue(e, r, c, n, i) BY <3>3
        <4>1. PICK x : x = Queued(ent[e], r, c, n, i) OBVIOUS
        <4>2. ent' = [ent EXCEPT ![e] = x] BY <4>0, <4>1 DEF Enqueue
        <4>3. x.Id = ent[e].Id BY <1>1, <4>1 DEF Queued, ENTITY
        <4>4. QED BY <3>1, <4>2, <4>3
      <3>4. QED BY <3>1, <3>2, <3>3
    <2>2. QED BY <2>1, <1>1
  <1>3. ASSUME OutFragment \/ OutFinal \/ OutAssign PROVE Steady
    <2>1. \A y \in ENTITY : /\ PartSent(y).Id = y.Id /\ AllSent(y).Id = y.Id
                            /\ AssignSent(y).Id = y.Id
      BY DEF ENTITY, PartSent, AllSent, AssignSent, MoreInc
    <2>2. UNCHANGED wait BY <1>3 DEF OutFragment, OutFinal, OutAssign, Fill, clientVars
    <2>3. \E e \in Entity : \/ ent' = [ent EXCEPT ![e] = PartSent(ent[e])]
                            \/ ent' = [ent EXCEPT ![e] = AllSent(ent[e])]
                            \/ ent' = [ent EXCEPT ![e] = AssignSent(ent[e])]
      BY <1>3 DEF OutFragment, OutFinal, OutAssign, XdiAssumption
    <2>4. \E e \in Entity : \E x : ent' = [ent EXCEPT ![e] = x] /\ x.Id = ent[e].Id
      BY <2>1, <2>3, <1>1
    <2>5. QED BY <2>2, <2>4, <1>1
  <1>4. CASE ClientNext BY <1>2, <1>4 DEF ClientNext
  <1>5. Calm => Steady BY DEF Calm
  <1>6. QED BY <1>3, <1>4, <1>5, StepKinds

\* The condition under which RemoveAnswered is meant
FcOver(d) == RcExt \/ \A c \in DOMAIN fcId : fcId[c] # d

\* What is left when the answer to a REMOVE is taken: nothing.  A card that does
\* not mark its answers must not have a channel of the Id under flow control.
LEMMA LastAnswer ==
    ASSUME XdiAssumption, NEW g, Whole(g), NEW i \in Slot, NEW e \in Entity, NEW r,
           Known(r, i, e), Removes(r, i), ~Ignored(r, i, e),
           NEW d, d = ent[e].Id, FcOver(d)
    PROVE  /\ r.Ext # "OK_FC" /\ r.RcId = d /\ ent[e].XMOREC = 1 /\ Removing(g, e)
           /\ Plain(g, d) = {g.got + 1} /\ Sent(g, d) = {}
  <1>1. /\ r.RcId = d /\ d # 0
        /\ (r.Ext # "OK_FC" => g.got + 1 \in Plain(g, d))
        /\ (r.Ext = "OK_FC" => /\ g.got + 1 \in Labels(g, d) /\ r = g.R[g.got + 1]
                               /\ r.RcCh \in Chan /\ Owner[r.RcCh] = e)
    BY KnownIs
  <1>2. Removing(g, e) BY RemovesIs
  <1>3. ent[e].XMOREC = 1 BY <1>2, RemovingIs
  <1>4. r.Ext # "OK_FC"
    <2> SUFFICES ASSUME r.Ext = "OK_FC" PROVE FALSE OBVIOUS
    <2>1. PICK c, p : c = r.RcCh /\ p = g.got + 1 OBVIOUS
    <2>2. c \in Chan /\ Owner[c] = e /\ p \in Lab(g, c, d)
      BY <1>1, <2>1 DEF Lab
    <2>3. e \in NL BY <2>2 DEF XdiAssumption
    <2>4. ~RcExt BY <2>3 DEF Ignored
    <2>5. c \in ChanNo BY <2>2 DEF ChanNo
    <2>6. DOMAIN fcId = ChanNo BY Parts DEF TypeOK
    <2>7. fcId[c] # d BY <2>4, <2>5, <2>6 DEF FcOver
    <2>8. Flow(g, c) /\ (c \in clFc => fcId[c] = d)
      <3>1. c \in ChansOf(e) BY <2>2 DEF ChansOf
      <3>2. QED BY <3>1, <1>1, FlowsAt
    <2>9. LabelsFollow(Lab(g, c, d), Says(g, c, d, "OK_FC"), c \in clFc)
      BY <2>2, <2>8, FlowParts
    <2>10. \A k \in RLive(g) : k \in Int /\ p \in Int /\ p <= k
      BY <2>1, Parts, HeadFirst
    <2>11. \A k \in Says(g, c, d, "OK_FC") : ~(k < p)
      <3>1. \A k \in Says(g, c, d, "OK_FC") : k \in RLive(g) BY DEF Says, Plain
      <3>2. QED BY <3>1, <2>10
    <2>12. c \in clFc BY <2>2, <2>9, <2>11 DEF LabelsFollow
    <2>13. QED BY <2>7, <2>8, <2>12
  <1>5. Sent(g, d) = {} BY <1>1, <1>3, <1>4, HasRequest
  <1>6. Plain(g, d) = {g.got + 1}
    <2>1. /\ IsFiniteSet(Plain(g, d)) /\ Cardinality(Plain(g, d)) \in Nat
          /\ Cardinality(Sent(g, d)) = 0
      BY <1>5, Parts, FiniteMsgs, FS_EmptySet
    <2>2. ent[e].XMOREC = Cardinality(Plain(g, d)) + Cardinality(Sent(g, d))
      BY <1>1, HasRequest
    <2>3. Cardinality(Plain(g, d)) = 1 BY <1>3, <2>1, <2>2
    <2>4. PICK z : Plain(g, d) = {z} BY <2>1, <2>3, FS_Singleton
    <2>5. QED BY <2>4, <1>1, <1>4
  <1>7. QED BY <1>1, <1>2, <1>3, <1>4, <1>5, <1>6

\* The counters, in this state and in the next
Counting == \A g, d : TypeOK /\ GhostType(g) /\ Pipes(g) /\ d # 0 =>
               OnTheWay(d) = Cardinality(Plain(g, d)) + Cardinality(Sent(g, d))

\* Counting in this state.
LEMMA CountsNow == Counting
  <1> SUFFICES ASSUME NEW g, NEW d, TypeOK, GhostType(g), Pipes(g), d # 0
               PROVE  OnTheWay(d) = Cardinality(Plain(g, d)) + Cardinality(Sent(g, d))
    BY DEF Counting
  <1>1. QED BY Counts, XdiAssumption

\* Counting in the next state.
LEMMA CountsNext == Counting'
  BY CountsNow, PTL

\* RemoveAnswered, for one step (di.c:591-640)
LEMMA RemoveStep ==
    ASSUME XdiAssumption, NoUremove, NEW g, Whole(g), TypeOK', [Next]_vars,
           NEW e \in Entity, NEW d \in Ids, ent[e].Id = d, ent'[e].Id = 0,
           RcExt \/ \A c \in DOMAIN fcId : fcId[c] # d
    PROVE  ent[e].Req = "REMOVE" /\ OnTheWay(d)' = 0
  <1>1. d # 0 BY DEF XdiAssumption
  <1>2. AnswerFor(e) BY <1>1, OnlyAnswers DEF AnswerFor
  <1>3. LetGo(e) BY <1>1, <1>2 DEF AnswerFor, StillKnown
  <1>4. PICK i \in Slot : LET r == Head(rcBuf) IN
           /\ Known(r, i, e) /\ Removes(r, i) /\ ~Ignored(r, i, e) /\ rcBuf' = Tail(rcBuf)
    BY <1>3 DEF LetGo
  <1>5. PICK r, p, h : r = Head(rcBuf) /\ p = g.got + 1
            /\ h = Mk(g.q, g.out, g.S, g.done, g.ans, g.R, g.got + 1, g.Q, g.tk, g.st)
    OBVIOUS
  <1>6. Known(r, i, e) /\ Removes(r, i) /\ ~Ignored(r, i, e) /\ rcBuf' = Tail(rcBuf)
    BY <1>4, <1>5
  <1>7. /\ r.Ext # "OK_FC" /\ r.RcId = d /\ Removing(g, e)
        /\ Plain(g, d) = {p} /\ Sent(g, d) = {}
    <2>1. FcOver(d) BY DEF FcOver
    <2>2. d = ent[e].Id OBVIOUS
    <2>3. /\ r.Ext # "OK_FC" /\ r.RcId = d /\ Removing(g, e)
          /\ Plain(g, d) = {g.got + 1} /\ Sent(g, d) = {}
      BY <2>1, <2>2, <1>6, LastAnswer
    <2>4. QED BY <2>3, <1>5
  <1>8. TakenStep(g, h, r, i, e, g.st)
    <2>1. g.st \in [Entity -> Stage] BY Parts, GhostParts
    <2>2. UNCHANGED <<outq, inbox, batch>> BY <1>2 DEF AnswerFor
    <2>3. QED BY <2>1, <2>2, <1>5, <1>6 DEF TakenStep, Took
  <1>9. /\ GhostType(h) /\ Pipes(h)' /\ Sent(h, d) = {} /\ Plain(h, d) = {}
    <2>1. /\ GhostType(h) /\ Pipes(h)' /\ Sent(h, d) = Sent(g, d)
          /\ Plain(h, d) = Plain(g, d) \ {p}
      BY <1>5, <1>7, <1>8, Taken
    <2>2. QED BY <2>1, <1>7
  <1>10. OnTheWay(d)' = Cardinality(Plain(h, d)) + Cardinality(Sent(h, d))
    <2>1. \A f, x : TypeOK' /\ GhostType(f)' /\ Pipes(f)' /\ x # 0 =>
               OnTheWay(x)' = Cardinality(Plain(f, x)) + Cardinality(Sent(f, x))
      BY CountsNext DEF Counting
    <2>2. QED BY <1>1, <1>9, <2>1
  <1>11. OnTheWay(d)' = 0 BY <1>9, <1>10, FS_EmptySet
  <1>12. QED BY <1>7, <1>11 DEF Removing

\* Nothing is unfinished for an entity whose request is over.
LEMMA NoneUnfinished ==
    ASSUME XdiAssumption, NEW h, Whole(h), NEW e \in Entity, Unfinished(e)
    PROVE  wait[e]
  <1>1. CASE \E i \in Chain(head) : tbl[i] = e BY <1>1, InQueue
  <1>2. CASE \E q \in Range_(batch) \cup Range_(inbox) :
                q.ReqId # 0 /\ q.ReqId = ent[e].Id
    <2>1. PICK q \in Range_(batch) \cup Range_(inbox) :
              q.ReqId # 0 /\ q.ReqId = ent[e].Id
      BY <1>2
    <2>2. PICK k \in RqLive(h) : q = h.Q[k] BY Parts, OnWay
    <2>3. k \in Sent(h, ent[e].Id) BY <2>1, <2>2 DEF Sent
    <2>4. h.st[e] \in {"queued", "sent"} BY <2>1, <2>3, HasRequest
    <2>5. QED BY <2>4, StageOf
  <1>3. QED BY <1>1, <1>2 DEF Unfinished

\* The client of an unfinished request knows that it waits.
Over == \A h : \A e \in Entity : Whole(h) /\ Unfinished(e) => wait[e]

\* Over in this state.
LEMMA OverNow == Over
  BY NoneUnfinished, XdiAssumption DEF Over

\* Over in the next state.
LEMMA OverNext == Over'
  BY OverNow, PTL

\* CompletionHonest, for one step (di.c:611-690)
LEMMA CompletionStep ==
    ASSUME XdiAssumption, NoUremove, Marked, NEW g, Whole(g), [Next]_vars,
           NEW e \in Entity, wait[e], ~wait'[e], Unfinished(e)
    PROVE  ent[e].Req = "REMOVE" /\ ~RcExt
  <1>1. AnswerFor(e)
    BY OnlyAnswers DEF AnswerFor
  <1>2. CASE StillKnown(e)
    <2>1. PICK h : Whole(h)' BY NextWhole
    <2>2. ~Unfinished(e)'
      <3>1. Whole(h)' /\ Unfinished(e)' => wait'[e] BY OverNext DEF Over
      <3>2. QED BY <2>1, <3>1
    <2>3. UNCHANGED <<head, next, batch, inbox, tbl>> BY <1>1, <1>2 DEF AnswerFor, StillKnown
    <2>4. Chain(head)' = Chain(head) BY <2>3 DEF Chain, Walk
    <2>5. CASE \E i \in Chain(head) : tbl[i] = e
      <3>1. Unfinished(e)' BY <2>3, <2>4, <2>5 DEF Unfinished
      <3>2. QED BY <2>2, <3>1
    <2>6. CASE \E q \in Range_(batch) \cup Range_(inbox) :
                  q.ReqId # 0 /\ q.ReqId = ent[e].Id
      <3>1. ent'[e].Id = ent[e].Id BY <2>6, <1>2 DEF StillKnown
      <3>2. Unfinished(e)' BY <2>3, <2>6, <3>1 DEF Unfinished, Range_
      <3>3. QED BY <2>2, <3>2
    <2>7. QED BY <2>5, <2>6 DEF Unfinished
  <1>3. CASE LetGo(e)
    <2>1. PICK i \in Slot : LET r == Head(rcBuf) IN
             /\ Known(r, i, e) /\ Removes(r, i) /\ ~Ignored(r, i, e)
      BY <1>3 DEF LetGo
    <2>2. PICK r : r = Head(rcBuf) OBVIOUS
    <2>3. Known(r, i, e) /\ Removes(r, i) /\ ~Ignored(r, i, e) BY <2>1, <2>2
    <2>4. Removing(g, e) BY <2>3, RemovesIs
    <2>5. ~RcExt
      <3> SUFFICES ASSUME RcExt PROVE FALSE OBVIOUS
      <3>1. PICK d : d = ent[e].Id OBVIOUS
      <3>0. FcOver(d) BY DEF FcOver
      <3>2. Sent(g, d) = {} BY <2>3, <3>0, <3>1, LastAnswer
      <3>3. CASE \E j \in Chain(head) : tbl[j] = e
        <4>1. g.st[e] \in {"asks", "queued"} BY <3>3, InQueue
        <4>2. QED BY <4>1, <2>4 DEF Removing
      <3>4. CASE \E q \in Range_(batch) \cup Range_(inbox) :
                    q.ReqId # 0 /\ q.ReqId = ent[e].Id
        <4>1. PICK q \in Range_(batch) \cup Range_(inbox) : q.ReqId = d BY <3>1, <3>4
        <4>2. PICK k \in RqLive(g) : q = g.Q[k] BY Parts, OnWay
        <4>3. k \in Sent(g, d) BY <4>1, <4>2 DEF Sent
        <4>4. QED BY <4>3, <3>2
      <3>5. QED BY <3>3, <3>4 DEF Unfinished
    <2>6. QED BY <2>4, <2>5 DEF Removing
  <1>4. QED BY <1>1, <1>2, <1>3 DEF AnswerFor

\* A return code is taken for the answer to the request that it answers, not to
\* an earlier or a later one (di.c:591-690), whatever the entities, slots, Ids
\* and channels.
THEOREM AnswersHonestly ==
    ASSUME NoUremove, Marked
    PROVE  Spec => AnswersHonest
  <1>1. IInv /\ [Next]_vars =>
          [\A e \in Entity, d \in Ids :
              /\ ent[e].Id = d /\ ent'[e].Id = 0 /\ ent[e].Req # "UREMOVE"
              /\ RcExt \/ \A c \in DOMAIN fcId : fcId[c] # d
              => ent[e].Req = "REMOVE" /\ OnTheWay(d)' = 0]_vars
    <2> SUFFICES ASSUME IInv, [Next]_vars,
                        NEW e \in Entity, NEW d \in Ids, ent[e].Id = d, ent'[e].Id = 0,
                        RcExt \/ \A c \in DOMAIN fcId : fcId[c] # d
                 PROVE  ent[e].Req = "REMOVE" /\ OnTheWay(d)' = 0
      OBVIOUS
    <2>1. PICK g : Whole(g) BY DEF IInv
    <2>2. TypeOK'
      <3>1. TypeOK BY <2>1, Parts
      <3>2. QED BY <3>1, NextType, XdiAssumption
    <2>3. QED BY <2>1, <2>2, RemoveStep, XdiAssumption
  <1>2. IInv /\ [Next]_vars =>
          [\A e \in Entity : wait[e] /\ ~wait'[e] /\ Unfinished(e)
             /\ ent[e].Req # "UREMOVE"
             => ent[e].Req = "REMOVE" /\ ~RcExt]_vars
    <2> SUFFICES ASSUME IInv, [Next]_vars,
                        NEW e \in Entity, wait[e], ~wait'[e], Unfinished(e)
                 PROVE  ent[e].Req = "REMOVE" /\ ~RcExt
      OBVIOUS
    <2>1. PICK g : Whole(g) BY DEF IInv
    <2>2. QED BY <2>1, CompletionStep, XdiAssumption
  <1>3. Spec => []IInv BY Histories
  <1>4. QED
    BY <1>1, <1>2, <1>3, PTL DEF Spec, AnswersHonest, RemoveAnswered, CompletionHonest

-----------------------------------------------------------------------------
(* The refinement of ReqFifo *)

\* The entities of the slots q[out+1], ..., when T is the table
Line(T, q, out) == [k \in 1..(Len(q) - out) |-> T[q[out + k]]]

\* What is linked from the head is the queue of ReqFifo.
LEMMA LineIs ==
    ASSUME XdiAssumption, NEW q \in Seq(Slot), NEW out \in Nat, out <= Len(q),
           NEW t, Links(q, out, head, t, next)
    PROVE  QueueOf = Line(tbl, q, out)
  <1>1. PICK L, n : L = Len(q) /\ n = L - out OBVIOUS
  <1>2. L \in Nat /\ out <= L /\ n \in Nat /\ n <= L BY <1>1
  <1>3. /\ head = (IF out = L THEN 0 ELSE q[out + 1])
        /\ \A k \in (out + 1)..L : next[q[k]] = (IF k = L THEN 0 ELSE q[k + 1])
        /\ \A j, k \in (out + 1)..L : q[j] = q[k] => j = k
    BY <1>1 DEF Links
  <1>4. PICK s : s = [k \in 0..(n - 1) |-> q[out + 1 + k]] OBVIOUS
  <1>5. \A k \in 0..(n - 1) : out + 1 + k \in (out + 1)..L /\ out + 1 + k \in 1..L
    BY <1>1, <1>2
  <1>6. \A k \in 0..(n - 1) : s[k] = q[out + 1 + k] /\ s[k] \in Slot
    BY <1>1, <1>4, <1>5
  <1>7. \A j, k \in 0..(n - 1) : s[j] = s[k] => j = k
    <2> TAKE j, k \in 0..(n - 1)
    <2> HAVE s[j] = s[k]
    <2>1. out + 1 + j = out + 1 + k BY <1>3, <1>5, <1>6
    <2>2. QED BY <2>1, <1>2
  <1>8. n > 0 => head = s[0]
    <2> HAVE n > 0
    <2>1. out # L /\ out + 1 + 0 = out + 1 /\ 0 \in 0..(n - 1) BY <1>1, <1>2
    <2>2. QED BY <2>1, <1>3, <1>6
  <1>9. \A k \in 0..(n - 1) : k + 1 < n => next[s[k]] = s[k + 1]
    <2> TAKE k \in 0..(n - 1)
    <2> HAVE k + 1 < n
    <2>1. /\ k + 1 \in 0..(n - 1) /\ out + 1 + k \in (out + 1)..L /\ out + 1 + k # L
          /\ out + 1 + (k + 1) = out + 1 + k + 1
      BY <1>1, <1>2
    <2>2. next[q[out + 1 + k]] = q[out + 1 + k + 1] BY <2>1, <1>3
    <2>3. QED BY <2>1, <2>2, <1>6
  <1>10. Linked(next, head, n, s) BY <1>2, <1>6, <1>7, <1>8, <1>9 DEF Linked
  <1>11. n = 0 => head = 0 BY <1>1, <1>2, <1>3
  <1>12. n > 0 => next[s[n - 1]] = 0
    <2> HAVE n > 0
    <2>1. n - 1 \in 0..(n - 1) /\ out + 1 + (n - 1) = L /\ L \in (out + 1)..L
      BY <1>1, <1>2
    <2>2. s[n - 1] = q[L] BY <2>1, <1>6
    <2>3. QED BY <2>1, <2>2, <1>3
  <1>13. PICK w : w = Walk(head) OBVIOUS
  <1>14. Steps(next, head, EMax, w) BY <1>13, WalkSteps
  <1>15. \A k \in 0..(n - 1) : k \in 0..EMax /\ w[k] = s[k] BY <1>10, <1>14, StepsLinked
  <1>16. \A k \in 0..EMax : k >= n => w[k] = 0 BY <1>10, <1>11, <1>12, <1>14, StepsEnd
  <1>17. {k \in 0..EMax : w[k] # 0} = 0..(n - 1)
    <2>0. 0 \notin Slot BY DEF Slot
    <2>1. \A k \in 0..(n - 1) : w[k] # 0 BY <2>0, <1>6, <1>15
    <2>2. \A k \in 0..EMax : k \in 0..(n - 1) \/ k >= n BY <1>2
    <2>3. QED BY <2>1, <2>2, <1>15, <1>16
  <1>18. Cardinality(0..(n - 1)) = n
    <2>1. 0 \in Int /\ n - 1 \in Int BY <1>2
    <2>2. Cardinality(0..(n - 1)) = IF 0 > n - 1 THEN 0 ELSE (n - 1) - 0 + 1
      BY <2>1, FS_Interval
    <2>3. QED BY <2>2, <1>2
  <1>19. QueueOf = [k \in 1..n |-> tbl[w[k - 1]]]
    BY <1>13, <1>17, <1>18 DEF QueueOf
  <1>20. \A k \in 1..n : tbl[w[k - 1]] = tbl[q[out + k]]
    <2> TAKE k \in 1..n
    <2>1. k - 1 \in 0..(n - 1) /\ out + 1 + (k - 1) = out + k BY <1>2
    <2>2. QED BY <2>1, <1>6, <1>15
  <1>21. QED BY <1>1, <1>19, <1>20 DEF Line

\* The abstract queue is the line of the linked slots, whichever way they are
\* linked.
Lines == \A q \in Seq(Slot), out \in Nat : \A t :
            out <= Len(q) /\ Links(q, out, head, t, next) => QueueOf = Line(tbl, q, out)

\* Lines in this state.
LEMMA LinesNow == Lines
  BY LineIs, XdiAssumption DEF Lines

\* Lines in the next state.
LEMMA LinesNext == Lines'
  BY LinesNow, PTL

\* The line is one of clients, from the one that is served next.
LEMMA LineTail ==
    ASSUME NEW q \in Seq(Slot), NEW out \in Nat, out + 1 <= Len(q),
           NEW T, NEW E, \A k \in (out + 1)..Len(q) : T[q[k]] \in E
    PROVE  /\ Line(T, q, out) # <<>> /\ Line(T, q, out) \in Seq(E)
           /\ Head(Line(T, q, out)) = T[q[out + 1]]
           /\ Line(T, q, out + 1) = Tail(Line(T, q, out))
  <1>1. PICK n, s, z : n = Len(q) - out /\ s = Line(T, q, out) /\ z = Line(T, q, out + 1)
    OBVIOUS
  <1>2. n \in Nat /\ n >= 1 BY <1>1
  <1>3. \A k \in 1..n : out + k \in (out + 1)..Len(q) BY <1>1
  <1>4. s = [k \in 1..n |-> T[q[out + k]]] BY <1>1 DEF Line
  <1>5. \A k \in 1..n : s[k] = T[q[out + k]] /\ s[k] \in E BY <1>3, <1>4
  <1>6. s \in Seq(E) /\ Len(s) = n
    <2>1. s \in [1..n -> E] BY <1>4, <1>5
    <2>2. QED BY <2>1, <1>2
  <1>7. s # <<>> /\ Head(s) = T[q[out + 1]] BY <1>2, <1>5, <1>6
  <1>8. z = [k \in 1..(n - 1) |-> T[q[out + 1 + k]]]
    <2>1. Len(q) - (out + 1) = n - 1 BY <1>1
    <2>2. QED BY <2>1, <1>1 DEF Line
  <1>9. \A k \in 1..(n - 1) : z[k] = s[k + 1] /\ z[k] \in E
    <2> TAKE k \in 1..(n - 1)
    <2>1. k + 1 \in 1..n /\ out + (k + 1) = out + 1 + k BY <1>2
    <2>2. z[k] = T[q[out + 1 + k]] BY <1>1, <1>8
    <2>3. QED BY <2>1, <2>2, <1>5
  <1>10. z \in Seq(E) /\ Len(z) = n - 1
    <2>1. z \in [1..(n - 1) -> E] BY <1>1, <1>8, <1>9
    <2>2. n - 1 \in Nat BY <1>2
    <2>3. QED BY <2>1, <2>2
  <1>11. Tail(s) = z
    <2>1. /\ Tail(s) \in Seq(E) /\ Len(Tail(s)) = n - 1
          /\ \A k \in 1..(n - 1) : Tail(s)[k] = s[k + 1]
      BY <1>6, <1>7
    <2>2. Len(z) = Len(Tail(s)) /\ \A k \in 1..Len(z) : z[k] = Tail(s)[k]
      BY <2>1, <1>9, <1>10
    <2>3. QED BY <2>1, <2>2, <1>10, SeqEqual
  <1>12. QED BY <1>1, <1>6, <1>7, <1>11

\* A slot more behind the others
LEMMA LineAppend ==
    ASSUME NEW q \in Seq(Slot), NEW out \in Nat, out <= Len(q), NEW i \in Slot,
           NEW T, NEW U, NEW E, \A k \in (out + 1)..Len(q) : T[q[k]] \in E /\ U[q[k]] = T[q[k]],
           U[i] \in E
    PROVE  Line(U, Append(q, i), out) = Append(Line(T, q, out), U[i])
  <1>1. PICK n, s, u : n = Len(q) - out /\ s = Line(T, q, out) /\ u = Append(q, i)
    OBVIOUS
  <1>2. n \in Nat BY <1>1
  <1>3. \A k \in 1..n : out + k \in (out + 1)..Len(q) /\ out + k \in 1..Len(q) BY <1>1
  <1>4. s = [k \in 1..n |-> T[q[out + k]]] BY <1>1 DEF Line
  <1>5. \A k \in 1..n : s[k] = T[q[out + k]] /\ s[k] \in E BY <1>3, <1>4
  <1>6. s \in Seq(E) /\ Len(s) = n BY <1>2, <1>4, <1>5
  <1>7. /\ Len(u) = Len(q) + 1 /\ u[Len(q) + 1] = i /\ \A k \in 1..Len(q) : u[k] = q[k]
    BY <1>1
  <1>8. Line(U, u, out) = [k \in 1..(n + 1) |-> U[u[out + k]]]
    <2>1. Len(u) - out = n + 1 BY <1>1, <1>7
    <2>2. QED BY <2>1 DEF Line
  <1>9. \A k \in 1..(n + 1) : U[u[out + k]] = IF k = n + 1 THEN U[i] ELSE s[k]
    <2> TAKE k \in 1..(n + 1)
    <2>1. CASE k = n + 1
      <3>1. out + k = Len(q) + 1 BY <2>1, <1>1
      <3>2. QED BY <3>1, <2>1, <1>7
    <2>2. CASE k # n + 1
      <3>1. k \in 1..n BY <2>2, <1>2
      <3>2. u[out + k] = q[out + k] /\ U[q[out + k]] = T[q[out + k]] BY <3>1, <1>3, <1>7
      <3>3. QED BY <3>1, <3>2, <2>2, <1>5
    <2>3. QED BY <2>1, <2>2
  <1>10. Append(s, U[i]) = [k \in 1..(n + 1) |-> IF k = n + 1 THEN U[i] ELSE s[k]]
    BY <1>6
  <1>11. QED BY <1>1, <1>8, <1>9, <1>10

\* A line looks only at the slots in it.
LEMMA LineSame ==
    ASSUME NEW q \in Seq(Slot), NEW out \in Nat, out <= Len(q), NEW T, NEW U,
           \A k \in (out + 1)..Len(q) : U[q[k]] = T[q[k]]
    PROVE  Line(U, q, out) = Line(T, q, out)
  <1>1. \A k \in 1..(Len(q) - out) : out + k \in (out + 1)..Len(q) OBVIOUS
  <1>2. QED BY <1>1 DEF Line

\* The queue of ReqFifo, in terms of the histories
LEMMA QueueIs ==
    ASSUME XdiAssumption, NEW g, Whole(g)
    PROVE  /\ g.q \in Seq(Slot) /\ g.out \in Nat /\ g.out <= Len(g.q) /\ Len(g.q) \in Nat
           /\ QLive(g) = (g.out + 1)..Len(g.q)
           /\ Links(g.q, g.out, head, tail, next)
           /\ QueueOf = Line(tbl, g.q, g.out)
           /\ \A k \in (g.out + 1)..Len(g.q) :
                /\ g.q[k] \in Slot /\ tbl[g.q[k]] \in Entity
                /\ g.st[tbl[g.q[k]]] \in {"asks", "queued"}
                /\ cur.i # g.q[k] \/ cur.ok
  <1>1. TypeOK /\ GhostType(g) /\ Queue(g) BY Parts
  <1>2. /\ g.q \in Seq(Slot) /\ g.out \in Nat /\ g.out <= Len(g.q) /\ Len(g.q) \in Nat
    BY <1>1, GhostParts
  <1>3. Links(g.q, g.out, head, tail, next) BY <1>1, QueueLinks
  <1>4. QueueOf = Line(tbl, g.q, g.out) BY <1>2, <1>3, LineIs
  <1>5. QLive(g) = (g.out + 1)..Len(g.q) BY DEF QLive
  <1>6. \A k \in (g.out + 1)..Len(g.q) :
           /\ g.q[k] \in Slot /\ tbl[g.q[k]] \in Entity
           /\ g.st[tbl[g.q[k]]] \in {"asks", "queued"}
           /\ cur.i # g.q[k] \/ cur.ok
    <2> TAKE k \in (g.out + 1)..Len(g.q)
    <2>1. g.q[k] \in Slot
      <3>1. k \in 1..Len(g.q) BY <1>2
      <3>2. QED BY <3>1, <1>2
    <2>2. /\ tbl[g.q[k]] # Null /\ g.st[tbl[g.q[k]]] \in {"asks", "queued"}
          /\ cur.i # g.q[k] \/ cur.ok
      BY <1>1, <1>5 DEF Queue
    <2>3. tbl[g.q[k]] \in Entity BY <2>1, <2>2, <1>1 DEF TypeOK
    <2>4. QED BY <2>1, <2>2, <2>3
  <1>7. QED BY <1>2, <1>3, <1>4, <1>5, <1>6

\* An entity without a request that waits is not in the queue.
LEMMA NotInLine ==
    ASSUME XdiAssumption, NEW g, Whole(g), NEW e, g.st[e] \notin {"asks", "queued"}
    PROVE  ~Fifo!InQueue(e)
  <1>1. SUFFICES ASSUME NEW k \in 1..Len(QueueOf), QueueOf[k] = e PROVE FALSE
    BY DEF Fifo!InQueue
  <1>2. PICK n : n = Len(g.q) - g.out OBVIOUS
  <1>3. n \in Nat BY <1>2, QueueIs
  <1>4. QueueOf = [j \in 1..n |-> tbl[g.q[g.out + j]]] BY <1>2, QueueIs DEF Line
  <1>5. Len(QueueOf) = n BY <1>3, <1>4
  <1>6. k \in 1..n /\ e = tbl[g.q[g.out + k]] BY <1>1, <1>4, <1>5
  <1>7. g.out + k \in (g.out + 1)..Len(g.q) BY <1>2, <1>6, QueueIs
  <1>8. QED BY <1>6, <1>7, QueueIs

\* A step that changes neither the links nor the slots of the queue
LEMMA SameLine ==
    ASSUME XdiAssumption, NEW g, Whole(g), UNCHANGED <<head, next>>,
           tbl' = tbl \/ \E i : /\ tbl' = [tbl EXCEPT ![i] = Null]
                                /\ \A k \in QLive(g) : g.q[k] # i
    PROVE  QueueOf' = QueueOf
  <1>1. PICK q, out, t : q = g.q /\ out = g.out /\ t = tail OBVIOUS
  <1>2. /\ q \in Seq(Slot) /\ out \in Nat /\ out <= Len(q)
        /\ Links(q, out, head', t, next') /\ QueueOf = Line(tbl, q, out)
        /\ QLive(g) = (out + 1)..Len(q)
    BY <1>1, QueueIs
  <1>3. QueueOf' = Line(tbl', q, out)
    BY <1>2, LinesNext DEF Lines
  <1>4. \A k \in (out + 1)..Len(q) : tbl'[q[k]] = tbl[q[k]]
    <2>1. tbl \in [Slot -> Entity \cup {Null}] BY Parts DEF TypeOK
    <2>2. \A k \in (out + 1)..Len(q) : q[k] \in Slot BY <1>1, QueueIs
    <2>3. QED BY <2>1, <2>2, <1>1, <1>2
  <1>5. QED BY <1>2, <1>3, <1>4, LineSame

\* request() puts the client behind the others, or nowhere.
LEMMA AskFifo ==
    ASSUME XdiAssumption, NoUremove, NEW g, Whole(g), NEW e \in Entity,
           NEW r \in Reqs \cup {"ASSIGN"}, NEW c \in ChanNo, NEW n \in 1..MaxFrag,
           Request(e, r, c, n)
    PROVE  Fifo!Ask(e)
  <1>1. /\ wait' = [wait EXCEPT ![e] = TRUE] /\ ~wait[e]
        /\ wait \in [Entity -> BOOLEAN] /\ tbl \in [Slot -> Entity \cup {Null}]
        /\ next \in [Slot -> 0..EMax] /\ Null \notin Entity
    BY Parts DEF Request, ClientMay, TypeOK, XdiAssumption
  <1>2. {f \in Entity : wait'[f]} = {f \in Entity : wait[f]} \cup {e} BY <1>1
  <1>3. /\ (ent[e].Id = 0 => g.st[e] = "none")
        /\ (ent[e].Id # 0 => g.st[e] = "idle" /\ HasSlot(e))
    BY RequestIs
  <1>4. ~Fifo!InQueue(e) BY <1>3, NotInLine
  <1>5. CASE Refuse(e, r, c, n, FALSE) \/ Refuse(e, r, c, n, TRUE)
    <2>1. UNCHANGED <<head, next, tbl>> BY <1>5 DEF Refuse, tblVars, queueVars
    <2>2. QueueOf' = QueueOf BY <2>1, SameLine
    <2>3. QED BY <2>2, <1>1, <1>2, <1>4 DEF Fifo!Ask
  <1>6. CASE \E i \in Slot : /\ Enqueue(e, r, c, n, i)
                             /\ IF ent[e].Id = 0 THEN tbl[i] = Null ELSE ent[e].No = i
    <2>1. PICK i \in Slot : /\ Enqueue(e, r, c, n, i)
                            /\ IF ent[e].Id = 0 THEN tbl[i] = Null ELSE ent[e].No = i
      BY <1>6
    <2>2. /\ next' = Append_next(next, head, tail, i)
          /\ head' = (IF head = 0 THEN i ELSE head)
          /\ (ent[e].Id = 0 => tbl' = [tbl EXCEPT ![i] = e])
          /\ (ent[e].Id # 0 => tbl' = tbl)
      BY <2>1 DEF Enqueue
    <2>3. PICK q, out : q = g.q /\ out = g.out OBVIOUS
    <2>4. /\ q \in Seq(Slot) /\ out \in Nat /\ out <= Len(q)
          /\ Links(q, out, head, tail, next) /\ QueueOf = Line(tbl, q, out)
          /\ \A k \in (out + 1)..Len(q) : /\ q[k] \in Slot /\ tbl[q[k]] \in Entity
                                          /\ g.st[tbl[q[k]]] \in {"asks", "queued"}
      BY <2>3, QueueIs
    <2>5. \A k \in (out + 1)..Len(q) : q[k] # i
      <3> SUFFICES ASSUME NEW k \in (out + 1)..Len(q), q[k] = i PROVE FALSE OBVIOUS
      <3>1. CASE ent[e].Id = 0 BY <3>1, <2>1, <2>4, <1>1
      <3>2. CASE ent[e].Id # 0
        <4>1. tbl[i] = e BY <3>2, <2>1, <1>3 DEF HasSlot
        <4>2. QED BY <4>1, <3>2, <2>4, <1>3
      <3>3. QED BY <3>1, <3>2
    <2>6. /\ tbl'[i] = e
          /\ \A k \in (out + 1)..Len(q) : tbl[q[k]] \in Entity /\ tbl'[q[k]] = tbl[q[k]]
      <3>1. CASE ent[e].Id = 0 BY <3>1, <2>2, <2>4, <2>5, <1>1
      <3>2. CASE ent[e].Id # 0
        <4>1. tbl[i] = e BY <3>2, <2>1, <1>3 DEF HasSlot
        <4>2. QED BY <4>1, <3>2, <2>2, <2>4
      <3>3. QED BY <3>1, <3>2
    <2>7. PICK u, t, hd : u = Append(q, i) /\ t = tail /\ hd = head OBVIOUS
    <2>8. Links(u, out, head', i, next') /\ u \in Seq(Slot) /\ Len(u) = Len(q) + 1
      <3>1. Links(q, out, hd, t, next) BY <2>4, <2>7
      <3>2. /\ Links(Append(q, i), out, IF hd = 0 THEN i ELSE hd, i, Append_next(next, hd, t, i))
            /\ Len(Append(q, i)) = Len(q) + 1 /\ Append(q, i) \in Seq(Slot)
        BY <3>1, <2>4, <2>5, <1>1, LinksAppend
      <3>3. QED BY <3>2, <2>2, <2>7
    <2>9. QueueOf' = Line(tbl', u, out)
      <3>1. out <= Len(u) BY <2>4, <2>8
      <3>2. QED BY <3>1, <2>4, <2>8, LinesNext DEF Lines
    <2>10. QueueOf' = Append(QueueOf, e)
      <3>1. Line(tbl', Append(q, i), out) = Append(Line(tbl, q, out), tbl'[i])
        <4>1. PICK T, U : T = tbl /\ U = tbl' OBVIOUS
        <4>2. /\ \A k \in (out + 1)..Len(q) : T[q[k]] \in Entity /\ U[q[k]] = T[q[k]]
              /\ U[i] \in Entity
          BY <4>1, <2>6
        <4>3. q \in Seq(Slot) /\ out \in Nat /\ out <= Len(q) BY <2>4
        <4>4. Line(U, Append(q, i), out) = Append(Line(T, q, out), U[i])
          BY <4>2, <4>3, LineAppend
        <4>5. QED BY <4>1, <4>4
      <3>2. QED BY <3>1, <2>4, <2>6, <2>7, <2>9
    <2>11. QED BY <2>10, <1>1, <1>2, <1>4 DEF Fifo!Ask
  <1>7. QED
    <2>1. CASE ent[e].Id = 0
      <3>1. \/ Refuse(e, r, c, n, FALSE)
            \/ \E i \in Slot : FirstFree(i) /\ Enqueue(e, r, c, n, i)
        BY <2>1 DEF Request
      <3>2. QED BY <3>1, <2>1, <1>5, <1>6 DEF FirstFree
    <2>2. CASE ent[e].Id # 0
      <3>1. Refuse(e, r, c, n, TRUE) \/ Enqueue(e, r, c, n, ent[e].No)
        BY <2>2 DEF Request
      <3>2. ent[e].No \in Slot BY <2>2, <1>3 DEF HasSlot
      <3>3. QED BY <3>1, <3>2, <2>2, <1>5, <1>6
    <2>3. QED BY <2>1, <2>2

\* A client that waits for nothing has nothing in the abstract queue.
Gone == \A h : \A e \in Entity : Whole(h) /\ ~wait[e] => ~Fifo!InQueue(e)

\* Gone in this state.
LEMMA GoneNow == Gone
  <1> SUFFICES ASSUME NEW h, NEW e \in Entity, Whole(h), ~wait[e]
               PROVE  ~Fifo!InQueue(e)
    BY DEF Gone
  <1>1. h.st[e] \notin {"asks", "queued"}
    <2>1. EntityAt(e, h.st[e]) BY Parts
    <2>2. QED BY <2>1 DEF EntityAt
  <1>2. QED BY <1>1, NotInLine, XdiAssumption

\* Gone in the next state.
LEMMA GoneNext == Gone'
  BY GoneNow, PTL

\* pr_out fills a buffer: the head is served, or takes turns with the others.
LEMMA ServeFifo ==
    ASSUME XdiAssumption, NEW g, Whole(g), OutFragment \/ OutFinal \/ OutAssign
    PROVE  Fifo!Serve \/ Fifo!Rotate
  <1>1. PICK q, out : q = g.q /\ out = g.out OBVIOUS
  <1>2. Looping /\ UNCHANGED <<wait, tbl>>
    BY DEF OutFragment, OutFinal, OutAssign, Fill, clientVars
  <1>3. /\ q \in Seq(Slot) /\ out \in Nat /\ out + 1 \in Nat /\ out + 1 <= Len(q) /\ out <= Len(q)
        /\ head \in Slot /\ head # 0 /\ head = q[out + 1]
        /\ tbl[head] \in Entity /\ ent[tbl[head]].No = head
        /\ Links(q, out, head, tail, next) /\ QueueOf = Line(tbl, q, out)
        /\ \A k \in (out + 1)..Len(q) : q[k] \in Slot /\ tbl[q[k]] \in Entity
    <2>1. head # 0 BY <1>2 DEF Looping
    <2>2. QED BY <2>1, <1>1, <1>2, QueueIs, TakeHead
  <1>4. PICK h, t, T : h = head /\ t = tail /\ T = tbl OBVIOUS
  <1>5. /\ Line(T, q, out) # <<>> /\ Line(T, q, out) \in Seq(Entity)
        /\ Head(Line(T, q, out)) = T[q[out + 1]]
        /\ Line(T, q, out + 1) = Tail(Line(T, q, out))
    <2>1. \A k \in (out + 1)..Len(q) : T[q[k]] \in Entity BY <1>3, <1>4
    <2>2. QED BY <2>1, <1>3, LineTail
  <1>6. /\ Links(q, out + 1, next[head], tail, next)
        /\ \A k \in (out + 2)..Len(q) : q[k] # head
        /\ (next[head] = 0 <=> out + 1 = Len(q))
    <2>1. Links(q, out, h, t, next) BY <1>3, <1>4
    <2>2. /\ Links(q, out + 1, next[h], t, next)
          /\ \A k \in (out + 2)..Len(q) : q[k] # h
          /\ (next[h] = 0 <=> out + 1 = Len(q))
      BY <2>1, <1>3, <1>4, LinksTake
    <2>3. QED BY <2>2, <1>4
  <1>7. \A k \in (out + 1 + 1)..Len(q) : k \in (out + 2)..Len(q) /\ k \in (out + 1)..Len(q)
    BY <1>3
  <1>8. {f \in Entity : wait'[f]} = {f \in Entity : wait[f]} BY <1>2
  <1>9. CASE OutFinal \/ OutAssign
    <2>1. head' = next[head] BY <1>9 DEF OutFinal, OutAssign, NextReq
    <2>2. Links(q, out + 1, head', tail, next')
      <3>1. next' = next \/ next' = [next EXCEPT ![head] = assign]
        <4>1. CASE OutFinal BY <4>1 DEF OutFinal
        <4>2. CASE OutAssign
          <5>1. PICK e \in Entity, r \in Ref : e = tbl[head] /\ assign_queue(ent[e].No, r)
            BY <4>2 DEF OutAssign
          <5>2. QED BY <5>1, <1>3 DEF assign_queue
        <4>3. QED BY <1>9, <4>1, <4>2
      <3>2. next \in [Slot -> 0..EMax] BY Parts DEF TypeOK
      <3>3. \A k \in (out + 1 + 1)..Len(q) : next'[q[k]] = next[q[k]]
        BY <3>1, <3>2, <1>3, <1>6, <1>7
      <3>4. QED BY <3>3, <2>1, <1>6 DEF Links
    <2>3. QueueOf' = Line(tbl', q, out + 1) BY <2>2, <1>3, LinesNext DEF Lines
    <2>4. QueueOf # <<>> /\ QueueOf' = Tail(QueueOf) BY <2>3, <1>2, <1>3, <1>4, <1>5
    <2>5. Fifo!Serve BY <2>4, <1>8 DEF Fifo!Serve
    <2>6. QED BY <2>5
  <1>10. CASE OutFragment
    <2>1. PICK i, hd : i = head /\ hd = next[head] OBVIOUS
    <2>2. /\ next' = Append_next(next, hd, tail, i)
          /\ head' = (IF hd = 0 THEN i ELSE hd)
      <3>1. PICK e \in NL : LET x == ent[e] IN
               /\ e = tbl[head]
               /\ LET j == next[head] IN
                  /\ next' = Append_next(next, j, tail, x.No)
                  /\ head' = IF j = 0 THEN x.No ELSE j
        BY <1>10 DEF OutFragment
      <3>2. QED BY <3>1, <2>1, <1>3
    <2>3. PICK u : u = Append(q, i) OBVIOUS
    <2>4. Links(u, out + 1, head', i, next') /\ u \in Seq(Slot) /\ Len(u) = Len(q) + 1
      <3>1. Links(q, out + 1, hd, t, next) BY <2>1, <1>4, <1>6
      <3>2. \A k \in (out + 1 + 1)..Len(q) : q[k] # i BY <2>1, <1>6, <1>7
      <3>3. next \in [Slot -> 0..EMax] BY Parts DEF TypeOK
      <3>4. i \in Slot BY <2>1, <1>3
      <3>5. /\ Links(Append(q, i), out + 1, IF hd = 0 THEN i ELSE hd, i, Append_next(next, hd, t, i))
            /\ Len(Append(q, i)) = Len(q) + 1 /\ Append(q, i) \in Seq(Slot)
        BY <3>1, <3>2, <3>3, <3>4, <1>3, LinksAppend
      <3>6. QED BY <3>5, <2>2, <2>3, <1>4
    <2>5. QueueOf' = Line(tbl', u, out + 1)
      <3>1. out + 1 <= Len(u) BY <2>4, <1>3
      <3>2. QED BY <3>1, <2>4, <1>3, LinesNext DEF Lines
    <2>6. Line(T, Append(q, i), out + 1) = Append(Line(T, q, out + 1), T[i])
      <3>1. \A k \in (out + 1 + 1)..Len(q) : T[q[k]] \in Entity /\ T[q[k]] = T[q[k]]
        BY <1>3, <1>4, <1>7
      <3>2. T[i] \in Entity /\ i \in Slot BY <2>1, <1>3, <1>4
      <3>3. QED BY <3>1, <3>2, <1>3, LineAppend
    <2>7. Head(Line(T, q, out)) = T[i] BY <2>1, <1>3, <1>5
    <2>8. QueueOf # <<>> /\ QueueOf' = Append(Tail(QueueOf), Head(QueueOf))
      BY <2>3, <2>5, <2>6, <2>7, <1>2, <1>3, <1>4, <1>5
    <2>9. Fifo!Rotate BY <2>8, <1>8 DEF Fifo!Rotate
    <2>10. QED BY <2>9
  <1>11. QED BY <1>9, <1>10

\* A return code: the client is told of the end of its request, or of nothing.
LEMMA AnswerFifo ==
    ASSUME XdiAssumption, NoUremove, Marked, NEW g, Whole(g), [Next]_vars,
           NEW f \in Entity, AnswerFor(f)
    PROVE  Fifo!Complete(f) \/ UNCHANGED <<QueueOf, {e \in Entity : wait[e]}>>
  <1>1. wait \in [Entity -> BOOLEAN] /\ wait' \in [Entity -> BOOLEAN]
    <2>1. TypeOK BY Parts
    <2>2. TypeOK' BY <2>1, NextType
    <2>3. QED BY <2>1, <2>2 DEF TypeOK
  <1>2. /\ UNCHANGED <<head, next>> /\ \A e \in Entity : e # f => wait'[e] = wait[e]
        /\ wait'[f] => wait[f]
    BY DEF AnswerFor
  <1>3. CASE StillKnown(f)
    <2>1. tbl' = tbl BY <1>3 DEF StillKnown
    <2>2. QueueOf' = QueueOf BY <2>1, <1>2, SameLine
    <2>3. CASE wait'[f] = wait[f]
      <3>1. {e \in Entity : wait'[e]} = {e \in Entity : wait[e]} BY <2>3, <1>1, <1>2
      <3>2. QED BY <3>1, <2>2
    <2>4. CASE wait[f] /\ ~wait'[f]
      <3>1. {e \in Entity : wait'[e]} = {e \in Entity : wait[e]} \ {f} BY <2>4, <1>1, <1>2
      <3>2. ~Fifo!InQueue(f)
        <4>1. PICK h : Whole(h)' BY NextWhole
        <4>2. ~Fifo!InQueue(f)' BY <4>1, <2>4, GoneNext DEF Gone
        <4>3. QED BY <4>2, <2>2 DEF Fifo!InQueue
      <3>3. Fifo!Complete(f) BY <3>1, <3>2, <2>2, <2>4 DEF Fifo!Complete
      <3>4. QED BY <3>3
    <2>5. QED BY <2>3, <2>4, <1>1, <1>2
  <1>4. CASE LetGo(f)
    <2>1. PICK i \in Slot : LET r == Head(rcBuf) IN
             /\ Known(r, i, f) /\ Removes(r, i) /\ tbl' = [tbl EXCEPT ![i] = Null]
      BY <1>4 DEF LetGo
    <2>2. PICK r : r = Head(rcBuf) OBVIOUS
    <2>3. Known(r, i, f) /\ Removes(r, i) BY <2>1, <2>2
    <2>4. Removing(g, f) BY <2>3, RemovesIs
    <2>5. wait[f] /\ g.st[f] = "sent" BY <2>4, RemovingIs DEF Removing
    <2>6. ~Fifo!InQueue(f) BY <2>5, NotInLine
    <2>7. QueueOf' = QueueOf
      <3>1. tbl[i] = f BY <2>3 DEF Known
      <3>2. \A k \in QLive(g) : g.q[k] # i BY <3>1, <2>5, QueueIs
      <3>3. QED BY <3>2, <2>1, <1>2, SameLine
    <2>8. CASE wait'[f]
      <3>1. {e \in Entity : wait'[e]} = {e \in Entity : wait[e]} BY <2>5, <2>8, <1>1, <1>2
      <3>2. QED BY <3>1, <2>7
    <2>9. CASE ~wait'[f]
      <3>1. {e \in Entity : wait'[e]} = {e \in Entity : wait[e]} \ {f} BY <2>9, <1>1, <1>2
      <3>2. Fifo!Complete(f) BY <3>1, <2>5, <2>6, <2>7 DEF Fifo!Complete
      <3>3. QED BY <3>2
    <2>10. QED BY <2>8, <2>9
  <1>5. QED BY <1>3, <1>4 DEF AnswerFor

\* Nothing else is noticed.
LEMMA CalmFifo ==
    ASSUME XdiAssumption, NEW g, Whole(g), Calm
    PROVE  UNCHANGED <<QueueOf, {e \in Entity : wait[e]}>>
  <1>1. UNCHANGED <<wait, head, next>> BY DEF Calm
  <1>2. CASE tbl' = tbl
    <2>1. QueueOf' = QueueOf BY <1>1, <1>2, SameLine
    <2>2. QED BY <2>1, <1>1
  <1>3. CASE ~cur.ok /\ tbl' = [tbl EXCEPT ![cur.i] = Null]
    <2>1. \A k \in QLive(g) : g.q[k] # cur.i BY <1>3, QueueIs
    <2>2. QueueOf' = QueueOf BY <2>1, <1>1, <1>3, SameLine
    <2>3. QED BY <2>2, <1>1
  <1>4. QED BY <1>2, <1>3 DEF Calm

\* The initial states are initial states of ReqFifo.
LEMMA InitFifo ==
    ASSUME XdiAssumption, Init
    PROVE  Fifo!Init
  <1>1. PICK g : Whole(g) BY InitWhole DEF IInv
  <1>2. head = 0 /\ \A e \in Entity : ~wait[e] BY DEF Init
  <1>3. PICK n : n = Len(g.q) - g.out OBVIOUS
  <1>4. n = 0 BY <1>1, <1>2, <1>3, QueueWalk
  <1>5. QueueOf = [k \in 1..n |-> tbl[g.q[g.out + k]]] BY <1>1, <1>3, QueueIs DEF Line
  <1>6. QueueOf = <<>> BY <1>4, <1>5
  <1>7. {e \in Entity : wait[e]} = {} BY <1>2
  <1>8. QED BY <1>6, <1>7 DEF Fifo!Init

\* The list through e_tbl, the busy flags and the answers keep the promise of
\* ReqFifo (io.c:512-585, di.c:165-250, 591-690): first come first served, and
\* told of the end of a request only when it has left the queue.
THEOREM IsFifo ==
    ASSUME NoUremove, Marked
    PROVE  Spec => ImplementsFifo
  <1>1. Init => Fifo!Init BY InitFifo, XdiAssumption
  <1>2. IInv /\ [Next]_vars => [Fifo!Next]_<<QueueOf, {e \in Entity : wait[e]}>>
    <2> SUFFICES ASSUME IInv, [Next]_vars
                 PROVE  Fifo!Next \/ UNCHANGED <<QueueOf, {e \in Entity : wait[e]}>>
      OBVIOUS
    <2>1. PICK g : Whole(g) BY DEF IInv
    <2>2. CASE ClientNext
      <3>1. PICK e \in Entity, r \in Reqs \cup {"ASSIGN"}, c \in ChanNo, n \in 1..MaxFrag :
               Request(e, r, c, n)
        BY <2>2 DEF ClientNext
      <3>2. Fifo!Ask(e) BY <2>1, <3>1, AskFifo, XdiAssumption
      <3>3. QED BY <3>2 DEF Fifo!Next
    <2>3. CASE OutFragment \/ OutFinal \/ OutAssign
      <3>1. Fifo!Serve \/ Fifo!Rotate BY <2>1, <2>3, ServeFifo, XdiAssumption
      <3>2. QED BY <3>1 DEF Fifo!Next
    <2>4. CASE Calm BY <2>1, <2>4, CalmFifo, XdiAssumption
    <2>5. CASE \E f \in Entity : AnswerFor(f)
      <3>1. PICK f \in Entity : AnswerFor(f) BY <2>5
      <3>2. Fifo!Complete(f) \/ UNCHANGED <<QueueOf, {e \in Entity : wait[e]}>>
        BY <2>1, <3>1, AnswerFifo, XdiAssumption
      <3>3. QED BY <3>2 DEF Fifo!Next
    <2>6. QED BY <2>1, <2>2, <2>3, <2>4, <2>5, StepKinds, XdiAssumption
  <1>3. Spec => []IInv BY Histories
  <1>4. QED BY <1>1, <1>2, <1>3, PTL DEF Spec, ImplementsFifo, Fifo!Spec

=============================================================================
