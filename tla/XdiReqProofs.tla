---------------------------- MODULE XdiReqProofs ----------------------------
(*****************************************************************************)
(* Theorems about XdiReq, for every value of its constants: types, request   *)
(* buffers and slots; then the histories of XdiReq, what the queue of        *)
(* requests, the list of ASSIGNs and the messages between driver and card    *)
(* have held.  A walk through next[] cannot be reasoned about step by step;  *)
(* a sequence that only grows and a count of what has left it can.  The      *)
(* inductive invariant relates each history to the tables, and the module    *)
(* ends with the proof that isdn_rc keeps it (kernel/di.c).                  *)
(*****************************************************************************)
EXTENDS XdiReq, FiniteSetTheorems, TLAPS

(* Arithmetic modulo the range of a byte counter. *)
LEMMA ModRange ==
    ASSUME NEW M \in Nat \ {0}, NEW a \in Int PROVE a % M \in 0..(M-1)
  OBVIOUS

\* The difference of two byte counters, as ReqInput - ReqOutput wraps it.
LEMMA ModDiff ==
    ASSUME NEW M \in Nat \ {0}, NEW a \in 0..(M-1), NEW b \in 0..(M-1)
    PROVE  (a - b) % M = IF a >= b THEN a - b ELSE a - b + M
  OBVIOUS

\* The sum of two byte counters.
LEMMA ModSum ==
    ASSUME NEW M \in Nat \ {0}, NEW a \in 0..(M-1), NEW b \in 0..(M-1)
    PROVE  (a + b) % M = IF a + b < M THEN a + b ELSE a + b - M
  OBVIOUS

-----------------------------------------------------------------------------
(* The operators on entities and tables stay in their types *)

\* What clients and pr_out do to an entity keeps it an entity.
LEMMA EntityOps ==
    ASSUME XdiAssumption, NEW x \in ENTITY
    PROVE  /\ \A r \in ReqCode, c \in ChanNo, n \in 1..MaxFrag, i \in 0..EMax :
                 Queued(x, r, c, n, i) \in ENTITY
           /\ \A r \in ReqCode, c \in ChanNo, n \in 1..MaxFrag :
                 Asked(x, r, c, n) \in ENTITY
           /\ x.XNum > 1 => PartSent(x) \in ENTITY
           /\ AllSent(x) \in ENTITY
           /\ AssignSent(x) \in ENTITY
           /\ \A d \in Ids \cup {0} : WithId(x, d) \in ENTITY
           /\ Accepted(x) \in ENTITY
           /\ Completed(x) \in ENTITY
           /\ Untouched(x) \in ENTITY
           /\ \A c \in ChanNo : Release(x, c) \in ENTITY
  <1>1. /\ 0 \in 0..XMOREC /\ 0 \in 0..MaxFrag
        /\ \A k \in 1..MaxFrag : k \in 0..MaxFrag
        /\ \A k \in 0..XMOREC : k < XMOREC => k + 1 \in 0..XMOREC
        /\ \A k \in 0..MaxFrag : k > 1 => k - 1 \in 0..MaxFrag
    BY DEF XdiAssumption
  <1>2. ASSUME NEW r \in ReqCode, NEW c \in ChanNo, NEW n \in 1..MaxFrag,
               NEW i \in 0..EMax
        PROVE  Queued(x, r, c, n, i) \in ENTITY
    BY <1>1, ZenonT(60) DEF Queued, ENTITY
  <1>3. ASSUME NEW r \in ReqCode, NEW c \in ChanNo, NEW n \in 1..MaxFrag
        PROVE  Asked(x, r, c, n) \in ENTITY
    BY <1>1, Zenon DEF Asked, ENTITY
  <1>4. MoreInc(x) \in ENTITY
    BY <1>1, ZenonT(60) DEF MoreInc, ENTITY
  <1>5. MoreInc(x).XNum = x.XNum
    BY DEF ENTITY, MoreInc
  <1>6. x.XNum > 1 => PartSent(x) \in ENTITY
    BY <1>1, <1>4, <1>5, ZenonT(60) DEF PartSent, ENTITY
  <1>7. AllSent(x) \in ENTITY
    BY <1>1, <1>4, Zenon DEF AllSent, ENTITY
  <1>8. AssignSent(x) \in ENTITY
    BY <1>1, Zenon DEF AssignSent, ENTITY
  <1>9. Accepted(x) \in ENTITY /\ Completed(x) \in ENTITY
    BY <1>1, Zenon DEF Accepted, Completed, ENTITY
  <1>10. \A d \in Ids \cup {0} : WithId(x, d) \in ENTITY
    BY Zenon DEF WithId, ENTITY
  <1>11. Untouched(x) \in ENTITY /\ \A c \in ChanNo : Release(x, c) \in ENTITY
    BY <1>9 DEF Untouched, Release
  <1>. QED BY <1>2, <1>3, <1>6, <1>7, <1>8, <1>9, <1>10, <1>11

\* What a return code does to an entity keeps it an entity.
LEMMA EntityRcOps ==
    ASSUME XdiAssumption, TypeOK, NEW r \in RC, NEW i \in Slot, NEW e \in Entity
    PROVE  Stripped(r, i, e) \in ENTITY /\ Counted(r, i, e) \in ENTITY
  <1>1. /\ 0 \in Ids \cup {0} /\ 1 \in 0..XMOREC
        /\ \A k \in 0..XMOREC : k > 0 => k - 1 \in 0..XMOREC
    BY DEF XdiAssumption
  <1>2. ent[e] \in ENTITY
    BY DEF TypeOK
  <1>3. Stripped(r, i, e) \in ENTITY
    BY <1>1, <1>2, ZenonT(60) DEF Stripped, ENTITY
  <1>4. Counted(r, i, e) \in ENTITY
    BY <1>1, <1>3, ZenonT(60) DEF Counted, ENTITY
  <1>5. QED BY <1>3, <1>4

\* What isdn_rc does to the flow control and id tables keeps their types.
LEMMA TableOps ==
    ASSUME XdiAssumption, TypeOK
    PROVE  /\ \A d \in Ids : ForgetFc(d) \in [ChanNo -> Ids \cup {0}]
           /\ \A r \in RC, i \in Slot : r.RcId # 0 =>
                FcLeft(r, i) \in [ChanNo -> Ids \cup {0}]
           /\ \A r \in RC, i \in Slot : NoCancelLeft(r, i) \subseteq Slot
           /\ \A h, t, i \in 0..EMax :
                Append_next(next, h, t, i) \in [Slot -> 0..EMax]
           /\ Ready \in 0..(ByteMod - 1)
  <1>1. \A d \in Ids : ForgetFc(d) \in [ChanNo -> Ids \cup {0}]
    BY DEF TypeOK, ForgetFc
  <1>2. \A r \in RC, i \in Slot : r.RcId # 0 =>
                FcLeft(r, i) \in [ChanNo -> Ids \cup {0}]
    BY <1>1 DEF FcLeft, RC, TypeOK
  <1>3. \A r \in RC, i \in Slot : NoCancelLeft(r, i) \subseteq Slot
    BY DEF NoCancelLeft, TypeOK
  <1>4. \A h, t, i \in 0..EMax :
                Append_next(next, h, t, i) \in [Slot -> 0..EMax]
    <2>1. 0 \in 0..EMax /\ next \in [Slot -> 0..EMax]
      BY DEF XdiAssumption, TypeOK
    <2>2. QED
      BY <2>1 DEF Append_next
  <1>5. Ready \in 0..(ByteMod - 1)
    BY ModRange DEF Ready, TypeOK, XdiAssumption
  <1>6. QED BY <1>1, <1>2, <1>3, <1>4, <1>5

\* The buffer of return codes is taken from the front.
LEMMA ReturnCode ==
    ASSUME TypeOK, rcBuf # <<>>
    PROVE  Head(rcBuf) \in RC /\ Tail(rcBuf) \in Seq(RC)
  BY DEF TypeOK

\* A request buffer of the shared RAM, filled or taken.
LEMMA RequestBuffer ==
    ASSUME TypeOK, inbox # <<>>
    PROVE  Head(inbox) \in REQ /\ Tail(inbox) \in Seq(REQ)
  BY DEF TypeOK

\* Whatever the card answers is a return code.
LEMMA Answers ==
    ASSUME TypeOK
    PROVE  /\ \A rc \in RcCode, d \in Ids \cup {0}, c \in ChanNo,
                r \in Ref \cup {0}, x \in RcType :
                Answer(rc, d, c, r, x) \in RC
           /\ \A a \in RC : outq \o <<a>> \in Seq(RC) /\ Append(outq, a) \in Seq(RC)
           /\ outq \o <<>> \in Seq(RC)
  BY DEF TypeOK, Answer, RC

ClientTypeOK ==
    /\ wait \in [Entity -> BOOLEAN]
    /\ fcPend \subseteq ChanNo /\ clFc \subseteq ChanNo
    /\ clSkip \subseteq ChanNo

\* A client's callback changes the client's own variables only.
LEMMA ClientCallback ==
    ASSUME TypeOK, NEW e \in Entity, NEW x, NEW rc, NEW c \in ChanNo,
           ClientRc(e, x, rc, c) \/ UNCHANGED clientVars
    PROVE  ClientTypeOK'
  <1>1. CASE UNCHANGED clientVars
    BY <1>1 DEF ClientTypeOK, clientVars, TypeOK
  <1>2. CASE ClientRc(e, x, rc, c)
    BY <1>2 DEF ClientRc, ClientTypeOK, clientVars, TypeOK, ChanNo
  <1>3. QED BY <1>1, <1>2

(* TypeOK is preserved by every action, one party after the other. *)

\* request() keeps the types, accepted or refused.
LEMMA RequestType ==
    ASSUME XdiAssumption, TypeOK, NEW e \in Entity,
           NEW r \in Reqs \cup {"ASSIGN"}, NEW c \in ChanNo,
           NEW n \in 1..MaxFrag, Request(e, r, c, n)
    PROVE  TypeOK'
  <1>1. r \in ReqCode
    BY DEF XdiAssumption, ReqCode
  <1>2. ClientTypeOK'
    BY DEF Request, DIRequest, ClientTypeOK, TypeOK
  <1>3. UNCHANGED <<idVars, ReadyInt, pc, phase, outVars, cur, ramVars, rcBuf,
                    irq, cardVars, cardRI>>
    BY DEF Request
  <1>4. ent[e] \in ENTITY /\ Slot \subseteq 0..EMax
    BY DEF TypeOK, Slot, XdiAssumption
  <1>5. ASSUME NEW busy \in BOOLEAN, Refuse(e, r, c, n, busy)
        PROVE  TypeOK'
    <2>1. Asked(ent[e], r, c, n) \in ENTITY
      BY <1>1, <1>4, EntityOps
    <2>2. ent' \in [Entity -> ENTITY] /\ trapped' \in BOOLEAN
      BY <1>5, <2>1 DEF Refuse, TypeOK
    <2>3. QED
      BY <1>2, <1>3, <1>5, <2>2 DEF Refuse, TypeOK, ClientTypeOK, tblVars,
         queueVars, idVars, outVars, ramVars, cardVars
  <1>6. ASSUME NEW i \in 0..EMax, Enqueue(e, r, c, n, i)
        PROVE  TypeOK'
    <2>1. Queued(ent[e], r, c, n, i) \in ENTITY
      BY <1>1, <1>4, EntityOps
    <2>2. ent' \in [Entity -> ENTITY]
      BY <1>6, <2>1 DEF Enqueue, TypeOK
    <2>3. tbl' \in [Slot -> Entity \cup {Null}]
      BY <1>6 DEF Enqueue, TypeOK
    <2>4. e_count' \in Int
      BY <1>6 DEF Enqueue, TypeOK
    <2>5. next' \in [Slot -> 0..EMax] /\ head' \in 0..EMax /\ tail' \in 0..EMax
      BY <1>6, TableOps DEF Enqueue, TypeOK
    <2>6. QED
      BY <1>2, <1>3, <1>6, <2>2, <2>3, <2>4, <2>5 DEF Enqueue, Schedule,
         TypeOK, ClientTypeOK, idVars, outVars, ramVars, cardVars
  <1>7. CASE ent[e].Id = 0
    BY <1>4, <1>5, <1>6, <1>7 DEF Request
  <1>8. CASE ent[e].Id # 0 /\ ent[e].XBUSY
    BY <1>5, <1>8 DEF Request
  <1>9. CASE ent[e].Id # 0 /\ ~ent[e].XBUSY
    <2>1. ent[e].No \in 0..EMax
      BY <1>4 DEF ENTITY
    <2>2. QED BY <1>6, <1>9, <2>1 DEF Request
  <1>10. QED BY <1>7, <1>8, <1>9

\* The steps of the DPC around the two loops keep the types.
LEMMA DpcType ==
    ASSUME XdiAssumption, TypeOK, DpcStart \/ ClrIrq \/ OutLook
    PROVE  TypeOK'
  <1>1. CASE DpcStart
    BY <1>1 DEF DpcStart, TypeOK, clientVars, tblVars, queueVars, idVars,
       outVars, ramVars, cardVars
  <1>2. CASE ClrIrq
    BY <1>2 DEF ClrIrq, TypeOK, clientVars, tblVars, queueVars, idVars,
       outVars, ramVars, cardVars
  <1>3. CASE OutLook
    <2>1. Ready \in Nat
      BY TableOps, ModRange DEF XdiAssumption
    <2>2. ReadyCount' \in Nat /\ this' \in Entity \cup {Null}
          /\ pc' \in {"idle", "take", "clr"}
      BY <1>3, <2>1 DEF OutLook, TypeOK, AfterOut
    <2>3. ReadyInt' \in 0..1 /\ cardRI' \in Nat
      BY <1>3 DEF OutLook, AskReady, TypeOK
    <2>4. QED
      BY <1>3, <2>2, <2>3 DEF OutLook, TypeOK, clientVars, tblVars, queueVars,
         idVars, ramVars, cardVars
  <1>4. QED BY <1>1, <1>2, <1>3

\* Writing one request buffer of the shared RAM keeps the types.
LEMMA FillType ==
    ASSUME XdiAssumption, TypeOK, Looping, NEW q \in REQ, Fill(q)
    PROVE  /\ batch' \in Seq(REQ)
           /\ ReadyCount' \in Nat
           /\ this' \in Entity \cup {Null}
  <1>1. head \in Slot
    BY DEF TypeOK, Looping, Slot, XdiAssumption
  <1>2. batch' \in Seq(REQ)
    BY DEF TypeOK, Fill
  <1>3. ReadyCount' \in Nat
    BY DEF TypeOK, Looping, Fill
  <1>4. this' \in Entity \cup {Null}
    BY <1>1 DEF TypeOK, Fill
  <1>5. QED BY <1>2, <1>3, <1>4

\* pr_out's three ways to send from an entity keep the types.
LEMMA SendType ==
    ASSUME XdiAssumption, TypeOK, OutFragment \/ OutFinal \/ OutAssign
    PROVE  TypeOK'
  <1>1. Looping /\ head \in Slot
    BY DEF OutFragment, OutFinal, OutAssign, Looping, TypeOK, Slot, XdiAssumption
  <1>2. next[head] \in 0..EMax
    BY <1>1 DEF TypeOK
  <1>3. CASE OutFragment
    <2>1. PICK e \in NL : OutFragment!2!(e)
      BY <1>3 DEF OutFragment
    <2>2. e \in Entity /\ ent[e] \in ENTITY
      BY DEF XdiAssumption, TypeOK
    <2>3. PartSent(ent[e]) \in ENTITY
      BY <2>1, <2>2, EntityOps
    <2>4. ent' \in [Entity -> ENTITY]
      BY <2>1, <2>2, <2>3 DEF TypeOK
    <2>5. ent[e].No \in 0..EMax /\ ent[e].Id \in Ids \cup {0} /\ ent[e].ReqCh \in ChanNo
      BY <2>2 DEF ENTITY
    <2>6. [Req |-> "MDATA", ReqId |-> ent[e].Id, ReqCh |-> ent[e].ReqCh,
           Reference |-> 0, NLType |-> TRUE] \in REQ
      BY <2>5 DEF REQ, ReqCode
    <2>7. /\ batch' \in Seq(REQ) /\ ReadyCount' \in Nat
          /\ this' \in Entity \cup {Null}
      BY <1>1, <2>1, <2>6, FillType
    <2>8. next' \in [Slot -> 0..EMax] /\ head' \in 0..EMax /\ tail' \in 0..EMax
      BY <1>2, <2>1, <2>5, TableOps DEF TypeOK
    <2>9. QED
      BY <1>3, <2>1, <2>4, <2>7, <2>8 DEF OutFragment, Fill, TypeOK,
         clientVars, ramVars, cardVars
  <1>4. NextReq => head' \in 0..EMax /\ tail' \in 0..EMax
    BY <1>2 DEF NextReq, TypeOK
  <1>5. CASE OutFinal
    <2>1. PICK e \in Entity : OutFinal!2!(e)
      BY <1>5 DEF OutFinal
    <2>2. ent[e] \in ENTITY
      BY DEF TypeOK
    <2>3. ent' \in [Entity -> ENTITY]
      BY <2>1, <2>2, EntityOps DEF TypeOK
    <2>4. /\ ent[e].Req \in ReqCode /\ ent[e].Id \in Ids \cup {0}
          /\ ent[e].ReqCh \in ChanNo
      BY <2>2 DEF ENTITY
    <2>5. [Req |-> ent[e].Req, ReqId |-> ent[e].Id, ReqCh |-> ent[e].ReqCh,
           Reference |-> 0, NLType |-> e \in NL] \in REQ
      BY <2>4 DEF REQ
    <2>6. /\ batch' \in Seq(REQ) /\ ReadyCount' \in Nat
          /\ this' \in Entity \cup {Null}
      BY <1>1, <2>1, <2>5, FillType
    <2>7. fcSkip' \subseteq ChanNo /\ rmPending' \subseteq Slot
      BY <1>1, <2>1, <2>4 DEF TypeOK
    <2>8. QED
      BY <1>4, <1>5, <2>1, <2>3, <2>6, <2>7 DEF OutFinal, Fill, TypeOK,
         clientVars, ramVars, cardVars
  <1>6. CASE OutAssign
    <2>1. PICK e \in Entity, r \in Ref : OutAssign!2!(e, r)
      BY <1>6 DEF OutAssign
    <2>2. ent[e] \in ENTITY
      BY DEF TypeOK
    <2>3. ent' \in [Entity -> ENTITY]
      BY <2>1, <2>2, EntityOps DEF TypeOK
    <2>4. ent[e].ReqCh \in ChanNo /\ ent[e].No \in 0..EMax
      BY <2>2 DEF ENTITY
    <2>5. [Req |-> "ASSIGN", ReqId |-> 0, ReqCh |-> ent[e].ReqCh,
           Reference |-> r, NLType |-> e \in NL] \in REQ
      BY <2>4 DEF REQ, ReqCode
    <2>6. /\ batch' \in Seq(REQ) /\ ReadyCount' \in Nat
          /\ this' \in Entity \cup {Null}
      BY <1>1, <2>1, <2>5, FillType
    <2>7. ref' \in [Slot -> Ref \cup {0}] /\ next' \in [Slot -> 0..EMax]
          /\ assign' \in 0..EMax
      BY <2>1, <2>4 DEF assign_queue, TypeOK
    <2>8. QED
      BY <1>4, <1>6, <2>1, <2>3, <2>6, <2>7 DEF OutAssign, Fill, TypeOK,
         clientVars, ramVars, cardVars
  <1>7. QED BY <1>3, <1>5, <1>6

\* Publishing the batch, the byte counter ReqInput included, keeps the types.
LEMMA OutEndType ==
    ASSUME XdiAssumption, TypeOK, OutEnd
    PROVE  TypeOK'
  <1>1. inbox' \in Seq(REQ) /\ batch' \in Seq(REQ) /\ ReadyCount' \in Nat
    BY DEF OutEnd, TypeOK
  <1>2. ReqInput' \in 0..(ByteMod - 1)
    <2>1. ReqInput + Len(batch) \in Int
      BY DEF TypeOK
    <2>2. QED BY <2>1, ModRange DEF OutEnd, XdiAssumption
  <1>3. pc' \in {"idle", "clr"} /\ this' = Null
    BY DEF OutEnd, AfterOut
  <1>4. /\ tbl' \in [Slot -> Entity \cup {Null}] /\ e_count' \in Int
        /\ fcId' \in [ChanNo -> Ids \cup {0}] /\ IdTable' \in [Ids -> 0..EMax]
        /\ ent' \in [Entity -> ENTITY] /\ wait' \in [Entity -> BOOLEAN]
    <2>1. CASE ~Unreturned(this)
      BY <2>1 DEF OutEnd, TypeOK
    <2>2. CASE Unreturned(this)
      <3>1. this \in Entity /\ ent[this] \in ENTITY /\ ent[this].Id # 0
        BY <2>2 DEF Unreturned, TypeOK
      <3>2. ent[this].Id \in Ids
        BY <3>1 DEF ENTITY
      <3>3. WithId(ent[this], 0) \in ENTITY
        BY <3>1, EntityOps
      <3>4. ForgetFc(ent[this].Id) \in [ChanNo -> Ids \cup {0}]
        BY <3>2, TableOps
      <3>5. 0 \in 0..EMax
        BY DEF XdiAssumption
      <3>6. PICK i \in Slot :
              /\ free_entity(i)
              /\ fcId' = ForgetFc(ent[this].Id)
              /\ IdTable' = [IdTable EXCEPT ![ent[this].Id] = 0]
              /\ ent' = [ent EXCEPT ![this] = WithId(@, 0)]
              /\ wait' = [wait EXCEPT ![this] = FALSE]
        BY <2>2 DEF OutEnd
      <3>7. tbl' \in [Slot -> Entity \cup {Null}] /\ e_count' \in Int
        BY <3>6 DEF free_entity, TypeOK
      <3>8. QED BY <3>1, <3>3, <3>4, <3>5, <3>6, <3>7 DEF TypeOK
    <2>3. QED BY <2>1, <2>2
  <1>5. QED
    BY <1>1, <1>2, <1>3, <1>4 DEF OutEnd, TypeOK, queueVars, cardVars

\* What isdn_rc does first with a known return code keeps the types.
LEMMA UnlinkType ==
    ASSUME XdiAssumption, TypeOK, NEW i \in Slot, NEW e \in Entity,
           Known(Head(rcBuf), i, e), Unlink(Head(rcBuf), i, e)
    PROVE  /\ Head(rcBuf) \in RC /\ Head(rcBuf).RcId \in Ids
           /\ Head(rcBuf).RcCh \in ChanNo
           /\ tbl' \in [Slot -> Entity \cup {Null}] /\ e_count' \in Int
           /\ IdTable' \in [Ids -> 0..EMax] /\ rmPending' \subseteq Slot
           /\ RcExt' \in BOOLEAN /\ rcBuf' \in Seq(RC)
  <1>1. Head(rcBuf) \in RC /\ Tail(rcBuf) \in Seq(RC)
    BY ReturnCode DEF Known, InRc
  <1>2. Head(rcBuf).RcId \in Ids /\ Head(rcBuf).RcCh \in ChanNo
    BY <1>1 DEF RC, Known
  <1>3. 0 \in 0..EMax
    BY DEF XdiAssumption
  <1>4. CASE Removes(Head(rcBuf), i)
    <2>1. /\ Forget(Head(rcBuf), i, e)
          /\ RcExt' = (RcExt \/ (e \in NL /\ Head(rcBuf).Ext = "REMOVE_COMPLETE"))
          /\ rcBuf' = Tail(rcBuf)
      BY <1>4 DEF Unlink
    <2>2. tbl' \in [Slot -> Entity \cup {Null}]
      BY <2>1 DEF Forget, free_entity, TypeOK
    <2>3. e_count' \in Int
      BY <2>1 DEF Forget, free_entity, TypeOK
    <2>4. IdTable' \in [Ids -> 0..EMax]
      BY <2>1, <1>2, <1>3 DEF Forget, TypeOK
    <2>5. rmPending' \subseteq Slot
      BY <2>1 DEF Forget, TypeOK
    <2>6. RcExt' \in BOOLEAN
      BY <2>1, Zenon DEF TypeOK
    <2>7. QED BY <1>1, <1>2, <2>1, <2>2, <2>3, <2>4, <2>5, <2>6
  <1>5. CASE ~Removes(Head(rcBuf), i)
    BY <1>1, <1>2, <1>5 DEF Unlink, TypeOK
  <1>6. QED BY <1>4, <1>5

\* What is left to show for a return code of a known Id.
LEMMA KnownType ==
    ASSUME XdiAssumption, TypeOK, NEW i \in Slot, NEW e \in Entity,
           Known(Head(rcBuf), i, e), Unlink(Head(rcBuf), i, e),
           NEW x \in ENTITY, ent' = [ent EXCEPT ![e] = x],
           ClientTypeOK',
           fcId' \in [ChanNo -> Ids \cup {0}], noCancel' \subseteq Slot,
           fcSkip' \subseteq fcSkip
    PROVE  TypeOK'
  <1>1. ent' \in [Entity -> ENTITY]
    BY DEF TypeOK
  <1>2. /\ tbl' \in [Slot -> Entity \cup {Null}] /\ e_count' \in Int
        /\ IdTable' \in [Ids -> 0..EMax] /\ rmPending' \subseteq Slot
        /\ RcExt' \in BOOLEAN /\ rcBuf' \in Seq(RC)
    BY UnlinkType
  <1>3. fcSkip' \subseteq ChanNo
    BY DEF TypeOK
  <1>4. ReadyInt' = ReadyInt /\ RcFrame
    BY DEF Unlink
  <1>5. QED
    BY <1>1, <1>2, <1>3, <1>4 DEF RcFrame, TypeOK, ClientTypeOK, queueVars,
       outVars, ramVars, cardVars

\* The four ways isdn_rc ends for a known entity keep the types.
LEMMA KnownRcType ==
    ASSUME XdiAssumption, TypeOK, RcOkFc \/ RcLabel \/ RcCancel \/ RcCount
    PROVE  TypeOK'
  <1>. DEFINE r == Head(rcBuf)
  <1>1. \A i \in Slot, e \in Entity : Known(r, i, e) =>
            r \in RC /\ r.RcId \in Ids /\ r.RcCh \in ChanNo
    BY ReturnCode DEF Known, InRc, RC
  <1>2. \A i \in Slot, e \in Entity : Known(r, i, e) =>
            /\ Stripped(r, i, e) \in ENTITY /\ Counted(r, i, e) \in ENTITY
            /\ FcLeft(r, i) \in [ChanNo -> Ids \cup {0}]
            /\ NoCancelLeft(r, i) \subseteq Slot
    <2>1. SUFFICES ASSUME NEW i \in Slot, NEW e \in Entity, Known(r, i, e)
                   PROVE  /\ Stripped(r, i, e) \in ENTITY
                          /\ Counted(r, i, e) \in ENTITY
                          /\ FcLeft(r, i) \in [ChanNo -> Ids \cup {0}]
                          /\ NoCancelLeft(r, i) \subseteq Slot
      OBVIOUS
    <2>2. r \in RC /\ r.RcId # 0
      BY <1>1, <2>1 DEF Known
    <2>3. QED BY <2>2, EntityRcOps, TableOps
  <1>3. CASE RcOkFc
    <2>1. PICK i \in Slot, e \in Entity :
            /\ Known(r, i, e) /\ Unlink(r, i, e)
            /\ fcId' = [fcId EXCEPT ![r.RcCh] = r.RcId]
            /\ fcSkip' = fcSkip \ {r.RcCh}
            /\ ent' = [ent EXCEPT ![e] = Accepted(ent[e])]
            /\ ClientRc(e, ent'[e], r.Rc, r.RcCh)
            /\ noCancel' = noCancel
      BY <1>3 DEF RcOkFc
    <2>2. ent[e] \in ENTITY
      BY DEF TypeOK
    <2>3. Accepted(ent[e]) \in ENTITY
      BY <2>2, EntityOps
    <2>4. ClientTypeOK'
      BY <1>1, <2>1, ClientCallback
    <2>5. fcId' \in [ChanNo -> Ids \cup {0}] /\ noCancel' \subseteq Slot
      BY <1>1, <2>1 DEF TypeOK
    <2>6. fcSkip' \subseteq fcSkip
      BY <2>1
    <2>7. QED BY <2>1, <2>3, <2>4, <2>5, <2>6, KnownType
  <1>4. CASE RcLabel
    <2>1. PICK i \in Slot, e \in Entity :
            /\ Known(r, i, e) /\ Unlink(r, i, e)
            /\ fcId' = FcLeft(r, i)
            /\ noCancel' = NoCancelLeft(r, i) \cup {i}
            /\ ent' = [ent EXCEPT ![e] = Stripped(r, i, e)]
            /\ ClientRc(e, ent'[e], r.Rc, r.RcCh)
            /\ fcSkip' = fcSkip
      BY <1>4 DEF RcLabel, Untouched
    <2>2. Stripped(r, i, e) \in ENTITY
      BY <1>2, <2>1
    <2>3. ClientTypeOK'
      BY <1>1, <2>1, ClientCallback
    <2>4. fcId' \in [ChanNo -> Ids \cup {0}] /\ noCancel' \subseteq Slot
      BY <1>2, <2>1
    <2>5. fcSkip' \subseteq fcSkip
      BY <2>1
    <2>6. QED BY <2>1, <2>2, <2>3, <2>4, <2>5, KnownType
  <1>5. CASE RcCancel
    <2>1. PICK i \in Slot, e \in Entity :
            /\ Known(r, i, e) /\ Unlink(r, i, e)
            /\ fcId' = [FcLeft(r, i) EXCEPT ![r.RcCh] = 0]
            /\ noCancel' = NoCancelLeft(r, i)
            /\ \/ /\ ent' = [ent EXCEPT ![e] = Release(Stripped(r, i, e), r.RcCh)]
                  /\ ClientRc(e, ent'[e], r.Rc, r.RcCh)
               \/ /\ ent' = [ent EXCEPT ![e] = Stripped(r, i, e)]
                  /\ UNCHANGED clientVars
            /\ fcSkip' = fcSkip
      BY <1>5 DEF RcCancel
    <2>2. Stripped(r, i, e) \in ENTITY
      BY <1>2, <2>1
    <2>3. Release(Stripped(r, i, e), r.RcCh) \in ENTITY
      BY <1>1, <2>1, <2>2, EntityOps
    <2>4. ClientTypeOK'
      BY <1>1, <2>1, ClientCallback
    <2>5. fcId' \in [ChanNo -> Ids \cup {0}] /\ noCancel' \subseteq Slot
      BY <1>2, <2>1
    <2>6. fcSkip' \subseteq fcSkip
      BY <2>1
    <2>7. QED BY <2>1, <2>2, <2>3, <2>4, <2>5, <2>6, KnownType
  <1>6. CASE RcCount
    <2>1. PICK i \in Slot, e \in Entity :
            /\ Known(r, i, e) /\ Unlink(r, i, e)
            /\ fcId' = FcLeft(r, i)
            /\ noCancel' = NoCancelLeft(r, i)
            /\ \/ /\ ent' = [ent EXCEPT ![e] = Completed(Counted(r, i, e))]
                  /\ ClientRc(e, ent'[e], r.Rc, r.RcCh)
               \/ /\ ent' = [ent EXCEPT ![e] = Counted(r, i, e)]
                  /\ UNCHANGED clientVars
            /\ fcSkip' = fcSkip
      BY <1>6 DEF RcCount
    <2>2. Counted(r, i, e) \in ENTITY
      BY <1>2, <2>1
    <2>3. Completed(Counted(r, i, e)) \in ENTITY
      BY <2>2, EntityOps
    <2>4. ClientTypeOK'
      BY <1>1, <2>1, ClientCallback
    <2>5. fcId' \in [ChanNo -> Ids \cup {0}] /\ noCancel' \subseteq Slot
      BY <1>2, <2>1
    <2>6. fcSkip' \subseteq fcSkip
      BY <2>1
    <2>7. QED BY <2>1, <2>2, <2>3, <2>4, <2>5, <2>6, KnownType
  <1>7. QED BY <1>3, <1>4, <1>5, <1>6

\* The other return codes, the ASSIGN ones included, keep the types.
LEMMA OtherRcType ==
    ASSUME XdiAssumption, TypeOK,
           \/ RcReadyInt \/ RcIgnored \/ RcAssign \/ RcAssignPost
           \/ RcUnknown \/ RcDone
    PROVE  TypeOK'
  <1>. DEFINE r == Head(rcBuf)
  <1>1. rcBuf # <<>> => r \in RC /\ Tail(rcBuf) \in Seq(RC)
    BY ReturnCode
  <1>2. CASE RcReadyInt \/ RcIgnored \/ RcUnknown
    <2>1. rcBuf # <<>>
      BY <1>2 DEF RcReadyInt, RcIgnored, RcUnknown, Known, IdUnknown, InRc
    <2>2. ReadyInt' \in 0..1
      <3>1. ReadyInt \in 0..1
        BY DEF TypeOK
      <3>2. ReadyInt' = ReadyInt \/ (ReadyInt > 0 /\ ReadyInt' = ReadyInt - 1)
        BY <1>2 DEF RcReadyInt, RcIgnored, RcUnknown
      <3>3. QED BY <3>1, <3>2
    <2>3. /\ rcBuf' = Tail(rcBuf) /\ RcFrame
          /\ UNCHANGED <<clientVars, ent, tbl, e_count, idVars>>
      BY <1>2 DEF RcReadyInt, RcIgnored, RcUnknown
    <2>4. QED
      BY <1>1, <2>1, <2>2, <2>3 DEF RcFrame, TypeOK, clientVars, idVars,
         queueVars, outVars, ramVars, cardVars
  <1>3. CASE RcAssign
    <2>1. PICK i \in Slot, e \in Entity :
            /\ IdUnknown(r)
            /\ ent' = [ent EXCEPT ![e] = Completed(WithId(ent[e], r.RcId))]
            /\ ClientRc(e, ent'[e], r.Rc, r.RcCh)
            /\ cur' = [i |-> i, Id |-> r.RcId, ok |-> r.Rc = "ASSIGN_OK"]
      BY <1>3 DEF RcAssign
    <2>2. /\ r \in RC /\ Tail(rcBuf) \in Seq(RC)
          /\ r.RcId \in Ids \cup {0} /\ r.RcCh \in ChanNo
      BY <1>1, <2>1 DEF IdUnknown, InRc, RC
    <2>3. ent[e] \in ENTITY
      BY DEF TypeOK
    <2>4. WithId(ent[e], r.RcId) \in ENTITY
      BY <2>2, <2>3, EntityOps
    <2>5. Completed(WithId(ent[e], r.RcId)) \in ENTITY
      BY <2>4, EntityOps
    <2>6. ent' \in [Entity -> ENTITY]
      BY <2>1, <2>5 DEF TypeOK
    <2>7. ClientTypeOK'
      BY <2>1, <2>2, ClientCallback
    <2>8. i \in 0..EMax /\ (r.Rc = "ASSIGN_OK") \in BOOLEAN
      BY DEF Slot, XdiAssumption
    <2>9. cur' \in CUR
      BY <2>1, <2>2, <2>8, Zenon DEF CUR
    <2>10. QED
      BY <1>3, <2>2, <2>6, <2>7, <2>9 DEF RcAssign, TypeOK, ClientTypeOK,
         tblVars, idVars, queueVars, outVars, ramVars, cardVars
  <1>4. CASE RcAssignPost
    <2>1. cur.i \in 0..EMax
      BY DEF TypeOK, CUR
    <2>2. IdTable' \in [Ids -> 0..EMax]
      BY <1>4, <2>1 DEF RcAssignPost, TypeOK
    <2>3. tbl' \in [Slot -> Entity \cup {Null}]
      BY <1>4 DEF RcAssignPost, free_entity, TypeOK
    <2>4. e_count' \in Int
      BY <1>4 DEF RcAssignPost, free_entity, TypeOK
    <2>5. 0 \in 0..EMax
      BY DEF XdiAssumption
    <2>6. cur' \in CUR
      BY <1>4, <2>5, Zenon DEF RcAssignPost, CUR
    <2>7. QED
      BY <1>4, <2>2, <2>3, <2>4, <2>6 DEF RcAssignPost, TypeOK, clientVars,
         queueVars, outVars, ramVars, cardVars
  <1>5. CASE RcDone
    BY <1>5 DEF RcDone, TypeOK, clientVars, tblVars, queueVars, idVars,
       outVars, ramVars, cardVars
  <1>6. QED BY <1>2, <1>3, <1>4, <1>5

\* Consuming a request buffer, with the answers a.
LEMMA ConsumeType ==
    ASSUME XdiAssumption, TypeOK, inbox # <<>>, NEW a, CardConsume(a),
           outq \o a \in Seq(RC), cardIds' \subseteq Ids,
           held' \subseteq Chan \X (Ids \cup {0})
    PROVE  TypeOK'
  <1>1. inbox' \in Seq(REQ)
    BY RequestBuffer DEF CardConsume
  <1>2. ReqOutput + 1 \in Int
    BY DEF TypeOK
  <1>3. ReqOutput' \in 0..(ByteMod - 1)
    BY <1>2, ModRange DEF CardConsume, XdiAssumption
  <1>4. outq' \in Seq(RC)
    BY DEF CardConsume
  <1>5. QED
    BY <1>1, <1>3, <1>4 DEF CardConsume, CardFrame, TypeOK, clientVars,
       tblVars, queueVars, idVars, outVars

\* The card's steps keep the types.
LEMMA CardType ==
    ASSUME XdiAssumption, TypeOK, CardNext
    PROVE  TypeOK'
  <1>1. /\ {"OK", "OK_FC", "ERR", "ASSIGN_OK", "ASSIGN_FAIL", "READY_INT"}
             \subseteq RcCode
        /\ "none" \in RcType /\ "OK_FC" \in RcType /\ "REMOVE_COMPLETE" \in RcType
        /\ 0 \in Ref \cup {0} /\ 0 \in ChanNo /\ 0 \in Ids \cup {0}
    BY DEF RcCode, RcType, ChanNo
  <1>2. inbox # <<>> => /\ Head(inbox).ReqId \in Ids \cup {0}
                        /\ Head(inbox).ReqCh \in ChanNo
                        /\ Head(inbox).Reference \in Ref \cup {0}
    BY RequestBuffer DEF REQ
  <1>3. cardIds \subseteq Ids /\ held \subseteq Chan \X (Ids \cup {0})
    BY DEF TypeOK
  <1>4. CASE CardAssign
    <2>1. PICK d \in Ids \cup {0}, rc \in {"ASSIGN_OK", "ASSIGN_FAIL"} :
            /\ CardConsume(<<Answer(rc, d, 0, Head(inbox).Reference, "none")>>)
            /\ cardIds' = cardIds \cup {d} \/ cardIds' = cardIds
            /\ cardIds' \subseteq Ids
      BY <1>3, <1>4 DEF CardAssign
    <2>2. Answer(rc, d, 0, Head(inbox).Reference, "none") \in RC
      BY <1>1, <1>2, <1>4, <2>1, Answers DEF CardAssign
    <2>3. outq \o <<Answer(rc, d, 0, Head(inbox).Reference, "none")>> \in Seq(RC)
      BY <2>2, Answers
    <2>4. QED BY <1>3, <1>4, <2>1, <2>3, ConsumeType DEF CardAssign
  <1>5. CASE CardData
    <2>0. inbox # <<>> BY <1>5 DEF CardData
    <2>1. PICK rc \in {"OK", "OK_FC", "ERR"} :
            CardConsume(<<Answer(rc, Head(inbox).ReqId, Head(inbox).ReqCh, 0,
                                 "none")>>)
      BY <1>5 DEF CardData
    <2>2. Answer(rc, Head(inbox).ReqId, Head(inbox).ReqCh, 0, "none") \in RC
      BY <1>1, <1>2, <2>0, Answers
    <2>3. outq \o <<Answer(rc, Head(inbox).ReqId, Head(inbox).ReqCh, 0,
                           "none")>> \in Seq(RC)
      BY <2>2, Answers
    <2>4. cardIds' = cardIds
      BY <1>5 DEF CardData
    <2>5. held' \subseteq Chan \X (Ids \cup {0})
      <3>1. \/ held' = held
            \/ \E c \in Chan : held' = held \cup {<<c, Head(inbox).ReqId>>}
            \/ held' \subseteq held
        BY <1>5 DEF CardData
      <3>2. QED BY <1>2, <1>3, <2>0, <3>1
    <2>6. QED BY <1>3, <2>0, <2>1, <2>3, <2>4, <2>5, ConsumeType
  <1>6. CASE CardRemove
    <2>0. inbox # <<>> BY <1>6 DEF CardRemove
    <2>1. cardIds' \subseteq Ids /\ held' \subseteq Chan \X (Ids \cup {0})
      BY <1>3, <1>6 DEF CardRemove
    <2>2. CASE Head(inbox).Req = "UREMOVE"
      <3>1. CardConsume(<<>>)
        BY <1>6, <2>2 DEF CardRemove
      <3>2. QED BY <2>0, <2>1, <3>1, Answers, ConsumeType
    <2>3. CASE Head(inbox).Req # "UREMOVE"
      <3>1. PICK x \in {"REMOVE_COMPLETE", "none"} :
              CardConsume(<<Answer("OK", Head(inbox).ReqId, Head(inbox).ReqCh,
                                   0, x)>>)
        BY <1>6, <2>3 DEF CardRemove
      <3>2. Answer("OK", Head(inbox).ReqId, Head(inbox).ReqCh, 0, x) \in RC
        BY <1>1, <1>2, <2>0, Answers
      <3>3. outq \o <<Answer("OK", Head(inbox).ReqId, Head(inbox).ReqCh, 0, x)>>
              \in Seq(RC)
        BY <3>2, Answers
      <3>4. QED BY <2>0, <2>1, <3>1, <3>3, ConsumeType
    <2>4. QED BY <2>2, <2>3
  <1>7. CASE CardXon
    <2>1. PICK h \in held, x \in {"OK_FC", "none"} :
            /\ held' = held \ {h}
            /\ outq' = Append(outq, Answer("OK", h[2], h[1], 0, x))
      BY <1>7 DEF CardXon
    <2>2. h[2] \in Ids \cup {0} /\ h[1] \in ChanNo
      BY <1>3 DEF ChanNo
    <2>3. Answer("OK", h[2], h[1], 0, x) \in RC
      BY <1>1, <2>2, Answers
    <2>4. outq' \in Seq(RC)
      BY <2>1, <2>3, Answers
    <2>5. held' \subseteq Chan \X (Ids \cup {0})
      BY <1>3, <2>1
    <2>6. QED
      BY <1>7, <2>4, <2>5 DEF CardXon, CardFrame, TypeOK, clientVars, tblVars,
         queueVars, idVars, outVars
  <1>8. CASE CardReady
    <2>1. Answer("READY_INT", 0, 0, 0, "none") \in RC
      BY <1>1, Answers
    <2>2. outq' \in Seq(RC)
      BY <1>8, <2>1, Answers DEF CardReady
    <2>3. cardRI' \in Nat
      BY <1>8 DEF CardReady, TypeOK
    <2>4. QED
      BY <1>8, <2>2, <2>3 DEF CardReady, CardFrame, TypeOK, clientVars,
         tblVars, queueVars, idVars, outVars
  <1>9. CASE CardPost
    BY <1>9 DEF CardPost, CardFrame, TypeOK, clientVars, tblVars, queueVars,
       idVars, outVars
  <1>10. QED BY <1>4, <1>5, <1>6, <1>7, <1>8, <1>9 DEF CardNext, CardTake

\* The initial state has the types.
LEMMA InitType ==
    ASSUME XdiAssumption, Init
    PROVE  TypeOK
  <1>1. /\ 0 \in 0..EMax /\ 0 \in 0..MaxFrag /\ 0 \in 0..XMOREC
        /\ 0 \in ChanNo /\ 0 \in Ids \cup {0} /\ "none" \in ReqCode
        /\ NReq \in 0..(ByteMod - 1) /\ 0 \in 0..(ByteMod - 1)
    BY DEF XdiAssumption, ChanNo, ReqCode
  <1>2. ent \in [Entity -> ENTITY]
    BY <1>1, Zenon DEF Init, ENTITY
  <1>3. cur \in CUR
    BY <1>1, Zenon DEF Init, CUR
  <1>4. /\ tbl \in [Slot -> Entity \cup {Null}] /\ next \in [Slot -> 0..EMax]
        /\ ref \in [Slot -> Ref \cup {0}] /\ IdTable \in [Ids -> 0..EMax]
        /\ fcId \in [ChanNo -> Ids \cup {0}] /\ wait \in [Entity -> BOOLEAN]
    BY <1>1 DEF Init
  <1>5. /\ batch \in Seq(REQ) /\ inbox \in Seq(REQ)
        /\ rcBuf \in Seq(RC) /\ outq \in Seq(RC)
    BY DEF Init
  <1>6. /\ ReqInput \in 0..(ByteMod - 1) /\ ReqOutput \in 0..(ByteMod - 1)
        /\ head \in 0..EMax /\ tail \in 0..EMax /\ assign \in 0..EMax
        /\ e_count \in Int /\ ReadyInt \in 0..1 /\ cardRI \in Nat
        /\ ReadyCount \in Nat
    BY <1>1 DEF Init
  <1>7. QED BY <1>2, <1>3, <1>4, <1>5, <1>6 DEF Init, TypeOK

\* Every step keeps the types.
LEMMA NextType ==
    ASSUME XdiAssumption, TypeOK, [Next]_vars
    PROVE  TypeOK'
  <1>1. CASE ClientNext
    BY <1>1, RequestType DEF ClientNext
  <1>2. CASE DpcNext
    BY <1>2, DpcType, SendType, OutEndType, KnownRcType, OtherRcType
       DEF DpcNext, OutNext, RcNext
  <1>3. CASE CardNext
    BY <1>3, CardType
  <1>4. CASE UNCHANGED vars
    BY <1>4 DEF vars, TypeOK, clientVars, tblVars, queueVars, idVars, outVars,
       ramVars, cardVars
  <1>5. QED BY <1>1, <1>2, <1>3, <1>4 DEF Next

\* Every variable of the request path stays in its type, whatever the sizes of
\* the tables, the number of clients and the Ids of the card.
THEOREM TypeCorrect == Spec => []TypeOK
  <1>1. Init => TypeOK
    BY InitType, XdiAssumption
  <1>2. TypeOK /\ [Next]_vars => TypeOK'
    BY NextType, XdiAssumption
  <1>3. QED BY <1>1, <1>2, PTL DEF Spec

-----------------------------------------------------------------------------
(* BuffersAccounted.  By itself it is not inductive: pr_out can only start   *)
(* filling buffers with none filled already.                                 *)

BufInv ==
    /\ TypeOK
    /\ BuffersAccounted
    /\ pc # "take" => batch = <<>>

bufVars == <<ReqInput, ReqOutput, inbox, batch, ReadyCount>>

\* What an action that neither fills, passes nor consumes buffers leaves alone.
BufFrame == UNCHANGED bufVars /\ (pc = "take" <=> pc' = "take")

\* What the arithmetic on the request buffers needs of the types.
LEMMA BufTypes ==
    ASSUME BufInv
    PROVE  /\ inbox \in Seq(REQ) /\ Len(inbox) \in Nat
           /\ batch \in Seq(REQ) /\ Len(batch) \in Nat
           /\ ReadyCount \in Nat
           /\ ReqInput \in 0..(ByteMod - 1) /\ ReqOutput \in 0..(ByteMod - 1)
  <1>1. /\ inbox \in Seq(REQ) /\ batch \in Seq(REQ) /\ ReadyCount \in Nat
        /\ ReqInput \in 0..(ByteMod - 1) /\ ReqOutput \in 0..(ByteMod - 1)
    BY DEF BufInv, TypeOK
  <1>2. QED BY <1>1

\* A step that leaves the buffer variables alone keeps the count.
LEMMA BufFrameKeeps ==
    ASSUME BufInv, TypeOK', BufFrame
    PROVE  BufInv'
  BY DEF BufInv, BufFrame, bufVars, BuffersAccounted, Ready

\* pr_out's first look at ReqOutput can only underestimate the free buffers.
LEMMA BufLook ==
    ASSUME XdiAssumption, BufInv, TypeOK', OutLook
    PROVE  BufInv'
  <1>1. UNCHANGED <<ReqInput, ReqOutput, inbox, batch>> /\ batch = <<>>
        /\ pc # "take"
    BY DEF OutLook, BufInv, ramVars
  <1>2. Ready' = Ready
    BY <1>1 DEF Ready
  <1>3. pc' = "take" => ReadyCount' = Ready
    BY DEF OutLook, AfterOut
  <1>4. Ready = NReq - Len(inbox)
    BY DEF BufInv, BuffersAccounted
  <1>5. Ready \in 0..(ByteMod - 1)
    BY TableOps DEF BufInv
  <1>6. QED
    BY <1>1, <1>2, <1>3, <1>4, <1>5, BufTypes DEF BufInv, BuffersAccounted,
       XdiAssumption

\* A request written into a free buffer is one buffer less to use.
LEMMA BufFill ==
    ASSUME XdiAssumption, BufInv, TypeOK', Looping, NEW q, Fill(q)
    PROVE  BufInv'
  <1>1. UNCHANGED <<ReqInput, ReqOutput, inbox, pc>> /\ pc = "take"
    BY DEF Fill, Looping, ramVars
  <1>2. Ready' = Ready
    BY <1>1 DEF Ready
  <1>3. Len(batch') = Len(batch) + 1 /\ ReadyCount' = ReadyCount - 1
    BY BufTypes DEF Fill
  <1>4. QED BY <1>1, <1>2, <1>3, BufTypes DEF BufInv, BuffersAccounted, XdiAssumption

\* Publishing the batch moves it, buffer by buffer, to the card.
LEMMA BufEnd ==
    ASSUME XdiAssumption, BufInv, TypeOK', OutEnd
    PROVE  BufInv'
  <1>1. /\ inbox' = inbox \o batch /\ batch' = <<>> /\ ReqOutput' = ReqOutput
        /\ ReqInput' = (ReqInput + Len(batch)) % ByteMod
        /\ pc = "take" /\ pc' # "take"
    BY DEF OutEnd, AfterOut
  <1>2. Len(inbox') = Len(inbox) + Len(batch)
        /\ Len(inbox) \in Nat /\ Len(batch) \in Nat
    BY <1>1, BufTypes
  <1>3. /\ Ready = NReq - Len(inbox) /\ ReadyCount \in Nat
        /\ ReadyCount + Len(batch) <= NReq - Len(inbox)
    BY <1>1, BufTypes DEF BufInv, BuffersAccounted
  <1>4. /\ ReqInput \in 0..(ByteMod - 1) /\ ReqOutput \in 0..(ByteMod - 1)
        /\ ByteMod \in Nat \ {0} /\ NReq \in 1..(ByteMod - 1)
    BY DEF BufInv, TypeOK, XdiAssumption
  <1>5. Len(batch) \in 0..(ByteMod - 1)
    BY <1>2, <1>3, <1>4
  <1>6. Ready = IF ReqOutput >= ReqInput THEN ReqOutput - ReqInput
                ELSE ReqOutput - ReqInput + ByteMod
    BY <1>4, ModDiff DEF Ready
  <1>7. ReqInput' = IF ReqInput + Len(batch) < ByteMod THEN ReqInput + Len(batch)
                    ELSE ReqInput + Len(batch) - ByteMod
    BY <1>1, <1>4, <1>5, ModSum
  <1>8. ReqInput' \in 0..(ByteMod - 1)
    BY <1>4, <1>5, <1>7
  <1>9. Ready' = IF ReqOutput >= ReqInput' THEN ReqOutput - ReqInput'
                 ELSE ReqOutput - ReqInput' + ByteMod
    BY <1>1, <1>4, <1>8, ModDiff DEF Ready
  <1>10. Ready' = NReq - Len(inbox')
    BY <1>2, <1>3, <1>4, <1>6, <1>7, <1>9
  <1>11. QED BY <1>1, <1>10 DEF BufInv, BuffersAccounted

\* A request that the card takes frees one buffer.
LEMMA BufConsume ==
    ASSUME XdiAssumption, BufInv, TypeOK', inbox # <<>>, NEW a, CardConsume(a)
    PROVE  BufInv'
  <1>1. /\ inbox' = Tail(inbox) /\ ReqInput' = ReqInput
        /\ ReqOutput' = (ReqOutput + 1) % ByteMod
        /\ UNCHANGED <<batch, ReadyCount, pc>>
    BY DEF CardConsume, CardFrame, outVars
  <1>2. Len(inbox') = Len(inbox) - 1 /\ Len(inbox) \in Nat
        /\ Len(inbox) >= 1 /\ Len(batch) \in Nat /\ ReadyCount \in Nat
    BY <1>1, BufTypes
  <1>3. /\ ReqInput \in 0..(ByteMod - 1) /\ ReqOutput \in 0..(ByteMod - 1)
        /\ ByteMod \in Nat \ {0} /\ NReq \in 1..(ByteMod - 1)
        /\ 1 \in 0..(ByteMod - 1)
    BY DEF BufInv, TypeOK, XdiAssumption
  <1>4. Ready = NReq - Len(inbox)
    BY DEF BufInv, BuffersAccounted
  <1>5. Ready = IF ReqOutput >= ReqInput THEN ReqOutput - ReqInput
                ELSE ReqOutput - ReqInput + ByteMod
    BY <1>3, ModDiff DEF Ready
  <1>6. ReqOutput' = IF ReqOutput + 1 < ByteMod THEN ReqOutput + 1
                     ELSE ReqOutput + 1 - ByteMod
    BY <1>1, <1>3, ModSum
  <1>7. ReqOutput' \in 0..(ByteMod - 1)
    BY <1>3, <1>6
  <1>8. Ready' = IF ReqOutput' >= ReqInput THEN ReqOutput' - ReqInput
                 ELSE ReqOutput' - ReqInput + ByteMod
    BY <1>1, <1>3, <1>7, ModDiff DEF Ready
  <1>9. Ready' = NReq - Len(inbox')
    BY <1>2, <1>3, <1>4, <1>5, <1>6, <1>8
  <1>10. pc' = "take" => ReadyCount' + Len(batch') <= NReq - Len(inbox')
    BY <1>1, <1>2, <1>3 DEF BufInv, BuffersAccounted
  <1>11. QED BY <1>1, <1>9, <1>10 DEF BufInv, BuffersAccounted

\* Every step keeps the account of the request buffers.
LEMMA BufNext ==
    ASSUME XdiAssumption, BufInv, [Next]_vars
    PROVE  BufInv'
  <1>1. TypeOK'
    BY NextType DEF BufInv
  <1>2. CASE ClientNext
    BY <1>1, <1>2, BufFrameKeeps DEF ClientNext, Request, BufFrame, bufVars,
       outVars, ramVars
  <1>3. CASE DpcStart \/ ClrIrq
    BY <1>1, <1>3, BufFrameKeeps DEF DpcStart, ClrIrq, BufFrame, bufVars,
       outVars, ramVars
  <1>4. CASE OutLook
    BY <1>1, <1>4, BufLook
  <1>5. CASE OutFragment \/ OutFinal \/ OutAssign
    <2>1. Looping /\ \E q : Fill(q)
      BY <1>5 DEF OutFragment, OutFinal, OutAssign
    <2>2. QED BY <1>1, <2>1, BufFill
  <1>6. CASE OutEnd
    BY <1>1, <1>6, BufEnd
  <1>7. CASE RcReadyInt \/ RcIgnored \/ RcUnknown
    BY <1>1, <1>7, BufFrameKeeps DEF RcReadyInt, RcIgnored, RcUnknown, RcFrame,
       BufFrame, bufVars, outVars, ramVars
  <1>8. CASE RcOkFc \/ RcLabel \/ RcCancel \/ RcCount
    <2>1. RcFrame
      BY <1>8 DEF RcOkFc, RcLabel, RcCancel, RcCount, Unlink
    <2>2. QED BY <1>1, <2>1, BufFrameKeeps DEF RcFrame, BufFrame, bufVars,
              outVars, ramVars
  <1>9. CASE RcAssign \/ RcAssignPost \/ RcDone
    BY <1>1, <1>9, BufFrameKeeps DEF RcAssign, IdUnknown, InRc, RcAssignPost,
       RcDone, BufFrame, bufVars, outVars, ramVars
  <1>10. CASE CardTake
    <2>1. inbox # <<>> /\ \E a : CardConsume(a)
      BY <1>10 DEF CardTake, CardAssign, CardData, CardRemove
    <2>2. QED BY <1>1, <2>1, BufConsume
  <1>11. CASE CardXon \/ CardReady \/ CardPost
    BY <1>1, <1>11, BufFrameKeeps DEF CardXon, CardReady, CardPost, CardFrame,
       BufFrame, bufVars, outVars
  <1>12. CASE UNCHANGED vars
    BY <1>1, <1>12, BufFrameKeeps DEF vars, BufFrame, bufVars, outVars, ramVars
  <1>13. QED
    BY <1>2, <1>3, <1>4, <1>5, <1>6, <1>7, <1>8, <1>9, <1>10, <1>11, <1>12
       DEF Next, DpcNext, OutNext, RcNext, CardNext

\* However many request buffers the shared memory has and however often its
\* byte counters wrap around, pr_ready() counts the free ones exactly and
\* pr_out never fills one that the card still owns.
THEOREM BuffersSafe == Spec => []BuffersAccounted
  <1>1. Init => BufInv
    <2>1. SUFFICES ASSUME Init PROVE BufInv
      OBVIOUS
    <2>2. TypeOK
      BY <2>1, InitType, XdiAssumption
    <2>3. (NReq - 0) % ByteMod = NReq
      BY ModDiff, XdiAssumption DEF XdiAssumption
    <2>4. Ready = NReq /\ Len(inbox) = 0 /\ batch = <<>> /\ pc = "idle"
      BY <2>1, <2>3 DEF Init, Ready
    <2>5. NReq \in Nat
      BY XdiAssumption DEF XdiAssumption
    <2>6. QED BY <2>2, <2>4, <2>5 DEF BufInv, BuffersAccounted
  <1>2. BufInv /\ [Next]_vars => BufInv'
    BY BufNext, XdiAssumption
  <1>3. BufInv => BuffersAccounted
    BY DEF BufInv
  <1>4. QED BY <1>1, <1>2, <1>3, PTL DEF Spec

-----------------------------------------------------------------------------
(* SlotsCounted, for clients that use no UREMOVE: with it the code loses     *)
(* slots (the run XdiReqUremoveBatch shows how).                             *)

Used == {i \in Slot : tbl[i] # Null}

SlotInv ==
    /\ TypeOK
    /\ SlotsCounted
    /\ pc = "post" => tbl[cur.i] # Null /\ cur.i \in Slot
    /\ \A e \in Entity : ent[e].Req # "UREMOVE"

\* A slot that is taken, or given back, counts for one.
LEMMA TakeSlot ==
    ASSUME XdiAssumption, TypeOK, NEW i \in Slot, NEW x, x # Null,
           tbl[i] = Null, tbl' = [tbl EXCEPT ![i] = x]
    PROVE  Cardinality(Used') = Cardinality(Used) + 1
  <1>1. IsFiniteSet(Slot)
    BY FS_Interval DEF Slot, XdiAssumption
  <1>2. IsFiniteSet(Used) /\ i \notin Used
    BY <1>1, FS_Subset DEF Used
  <1>3. Used' = Used \cup {i}
    BY DEF Used, TypeOK
  <1>4. QED BY <1>2, <1>3, FS_AddElement

\* Emptying one used slot leaves one used slot less.
LEMMA FreeSlot ==
    ASSUME XdiAssumption, TypeOK, NEW i \in Slot, tbl[i] # Null,
           tbl' = [tbl EXCEPT ![i] = Null]
    PROVE  Cardinality(Used') = Cardinality(Used) - 1
  <1>1. IsFiniteSet(Slot)
    BY FS_Interval DEF Slot, XdiAssumption
  <1>2. IsFiniteSet(Used) /\ i \in Used
    BY <1>1, FS_Subset DEF Used
  <1>3. Used' = Used \ {i}
    BY DEF Used, TypeOK
  <1>4. QED BY <1>2, <1>3, FS_RemoveElement

\* free_entity clears one slot and decrements e_count once.
LEMMA FreeCounts ==
    ASSUME XdiAssumption, TypeOK, SlotsCounted, NEW i \in Slot, tbl[i] # Null,
           free_entity(i)
    PROVE  SlotsCounted'
  <1>1. /\ tbl' = [tbl EXCEPT ![i] = Null] /\ e_count' = e_count - 1
        /\ e_count = Cardinality(Used)
    BY DEF free_entity, SlotsCounted, Used
  <1>2. e_count' = Cardinality(Used')
    BY <1>1, FreeSlot
  <1>3. QED BY <1>2 DEF SlotsCounted, Used

\* The last request of an entity stays, or is the one of the client.
ReqKept == \A e \in Entity : ent'[e].Req = ent[e].Req

\* Sending and return codes do not change an entity's Req.
LEMMA OpsKeepReq ==
    ASSUME NEW x \in ENTITY
    PROVE  /\ PartSent(x).Req = x.Req /\ AllSent(x).Req = x.Req
           /\ AssignSent(x).Req = x.Req /\ Accepted(x).Req = x.Req
           /\ Completed(x).Req = x.Req
           /\ \A c : Release(x, c).Req = x.Req
           /\ \A d : Completed(WithId(x, d)).Req = x.Req
  BY DEF PartSent, AllSent, AssignSent, Accepted, Completed, Release, WithId,
     MoreInc, ENTITY

\* A step that leaves the table alone keeps the invariant of the slots.
LEMMA SlotFrame ==
    ASSUME SlotInv, TypeOK', UNCHANGED <<tbl, e_count, cur>>,
           pc' = "post" => pc = "post", ReqKept
    PROVE  SlotInv'
  BY DEF SlotInv, SlotsCounted, ReqKept

\* A request takes a free slot for an ASSIGN and counts it.
LEMMA SlotRequest ==
    ASSUME XdiAssumption, SlotInv, TypeOK', "UREMOVE" \notin Reqs, ClientNext
    PROVE  SlotInv'
  <1>1. PICK e \in Entity, r \in Reqs \cup {"ASSIGN"}, c \in ChanNo,
             n \in 1..MaxFrag : Request(e, r, c, n)
    BY DEF ClientNext
  <1>2. r # "UREMOVE" /\ pc' = pc /\ cur' = cur
    BY <1>1 DEF Request
  <1>3. TypeOK /\ ent[e] \in ENTITY
    BY DEF SlotInv, TypeOK
  <1>4. ASSUME NEW x, x.Req = r, ent' = [ent EXCEPT ![e] = x]
        PROVE  \A f \in Entity : ent'[f].Req # "UREMOVE"
    BY <1>2, <1>4 DEF SlotInv, TypeOK
  <1>5. \A i : Queued(ent[e], r, c, n, i).Req = r /\ Asked(ent[e], r, c, n).Req = r
    BY <1>3 DEF Queued, Asked, ENTITY
  <1>6. ASSUME UNCHANGED <<tbl, e_count>>,
               \/ \E i : Enqueue(e, r, c, n, i)
               \/ \E busy : Refuse(e, r, c, n, busy)
        PROVE  SlotInv'
    <2>1. \A f \in Entity : ent'[f].Req # "UREMOVE"
      BY <1>4, <1>5, <1>6 DEF Enqueue, Refuse
    <2>2. QED BY <1>2, <1>6, <2>1 DEF SlotInv, SlotsCounted
  <1>7. ASSUME NEW i \in Slot, ent[e].Id = 0, FirstFree(i), Enqueue(e, r, c, n, i)
        PROVE  SlotInv'
    <2>1. tbl[i] = Null /\ tbl' = [tbl EXCEPT ![i] = e] /\ e_count' = e_count + 1
      BY <1>7 DEF FirstFree, Enqueue
    <2>2. e # Null
      BY DEF XdiAssumption
    <2>3. Cardinality(Used') = Cardinality(Used) + 1
      BY <1>3, <2>1, <2>2, TakeSlot
    <2>4. SlotsCounted'
      BY <2>1, <2>3 DEF SlotInv, SlotsCounted, Used
    <2>5. \A f \in Entity : ent'[f].Req # "UREMOVE"
      BY <1>4, <1>5, <1>7 DEF Enqueue
    <2>6. tbl \in [Slot -> Entity \cup {Null}]
      BY <1>3 DEF TypeOK
    <2>7. pc' = "post" => tbl'[cur'.i] # Null /\ cur'.i \in Slot
      BY <1>2, <2>1, <2>2, <2>6 DEF SlotInv
    <2>8. QED BY <2>4, <2>5, <2>7 DEF SlotInv
  <1>8. CASE ent[e].Id = 0
    BY <1>1, <1>6, <1>7, <1>8 DEF Request, Refuse, tblVars
  <1>9. CASE ent[e].Id # 0
    BY <1>1, <1>6, <1>9 DEF Request, Refuse, Enqueue, tblVars
  <1>10. QED BY <1>8, <1>9

\* Sending keeps the slots.
LEMMA SlotSend ==
    ASSUME XdiAssumption, SlotInv, TypeOK', OutNext
    PROVE  SlotInv'
  <1>1. ReqKept
    <2>1. ent \in [Entity -> ENTITY]
      BY DEF SlotInv, TypeOK
    <2>2. CASE OutFragment \/ OutFinal \/ OutAssign
      <3>1. \A e \in Entity : /\ PartSent(ent[e]).Req = ent[e].Req
                              /\ AllSent(ent[e]).Req = ent[e].Req
                              /\ AssignSent(ent[e]).Req = ent[e].Req
        BY <2>1, OpsKeepReq
      <3>2. PICK e \in Entity :
              \/ ent' = [ent EXCEPT ![e] = PartSent(ent[e])]
              \/ ent' = [ent EXCEPT ![e] = AllSent(ent[e])]
              \/ ent' = [ent EXCEPT ![e] = AssignSent(ent[e])]
        <4>1. CASE OutFragment
          BY <4>1 DEF OutFragment, XdiAssumption
        <4>2. CASE OutFinal
          BY <4>2 DEF OutFinal
        <4>3. CASE OutAssign
          BY <4>3 DEF OutAssign
        <4>4. QED BY <2>2, <4>1, <4>2, <4>3
      <3>3. QED BY <2>1, <3>1, <3>2 DEF ReqKept
    <2>3. CASE OutLook
      BY <2>3 DEF OutLook, ReqKept
    <2>4. CASE OutEnd
      <3>1. ~Unreturned(this)
        BY DEF SlotInv, Unreturned
      <3>2. QED BY <2>4, <3>1 DEF OutEnd, ReqKept
    <2>5. QED BY <2>2, <2>3, <2>4 DEF OutNext
  <1>2. UNCHANGED <<tbl, e_count, cur>>
    <2>1. CASE OutEnd
      <3>1. ~Unreturned(this)
        BY DEF SlotInv, Unreturned
      <3>2. QED BY <2>1, <3>1 DEF OutEnd
    <2>2. QED
      BY <2>1 DEF OutNext, OutLook, OutFragment, OutFinal, OutAssign, Fill,
         tblVars
  <1>3. pc' # "post" \/ pc = "post"
    BY DEF OutNext, OutLook, OutFragment, OutFinal, OutAssign, OutEnd, Fill,
       AfterOut
  <1>4. QED BY <1>1, <1>2, <1>3, SlotFrame

\* The return code of a known entity frees its slot at most once.
LEMMA SlotKnownRc ==
    ASSUME XdiAssumption, SlotInv, TypeOK',
           RcOkFc \/ RcLabel \/ RcCancel \/ RcCount
    PROVE  SlotInv'
  <1>. DEFINE r == Head(rcBuf)
  <1>0. PICK i \in Slot, e \in Entity :
          /\ Known(r, i, e) /\ Unlink(r, i, e)
          /\ \E x \in {Accepted(ent[e]), Stripped(r, i, e),
                    Release(Stripped(r, i, e), r.RcCh),
                    Completed(Counted(r, i, e)), Counted(r, i, e)} :
                ent' = [ent EXCEPT ![e] = x]
    BY DEF RcOkFc, RcLabel, RcCancel, RcCount, Untouched
  <1>1. PICK x \in {Accepted(ent[e]), Stripped(r, i, e),
                    Release(Stripped(r, i, e), r.RcCh),
                    Completed(Counted(r, i, e)), Counted(r, i, e)} :
          /\ Known(r, i, e) /\ Unlink(r, i, e)
          /\ ent' = [ent EXCEPT ![e] = x]
    BY <1>0
  <1>2. TypeOK /\ ent \in [Entity -> ENTITY] /\ r \in RC
    BY <1>1, ReturnCode DEF SlotInv, TypeOK, Known, InRc
  <1>3. Stripped(r, i, e) \in ENTITY /\ Counted(r, i, e) \in ENTITY
    BY <1>2, EntityRcOps
  <1>4. Stripped(r, i, e).Req = ent[e].Req
    BY <1>2 DEF Stripped, ENTITY
  <1>5. Counted(r, i, e).Req = ent[e].Req
    BY <1>3, <1>4 DEF Counted, ENTITY
  <1>6. x.Req = ent[e].Req
    BY <1>1, <1>2, <1>3, <1>4, <1>5, OpsKeepReq
  <1>7. \A f \in Entity : ent'[f].Req # "UREMOVE"
    BY <1>1, <1>2, <1>6 DEF SlotInv
  <1>8. SlotsCounted'
    <2>1. CASE Removes(r, i)
      <3>1. free_entity(i)
        BY <1>1, <2>1 DEF Unlink, Forget
      <3>2. tbl[i] # Null
        BY <1>1 DEF Known, XdiAssumption
      <3>3. QED BY <1>2, <3>1, <3>2, FreeCounts DEF SlotInv
    <2>2. CASE ~Removes(r, i)
      BY <1>1, <2>2 DEF Unlink, SlotInv, SlotsCounted
    <2>3. QED BY <2>1, <2>2
  <1>9. pc' # "post"
    BY <1>1 DEF Unlink, RcFrame, Known, InRc
  <1>10. QED BY <1>7, <1>8, <1>9 DEF SlotInv

\* The return code of an ASSIGN frees the slot only when it failed.
LEMMA SlotAssignRc ==
    ASSUME XdiAssumption, SlotInv, TypeOK', RcAssign \/ RcAssignPost
    PROVE  SlotInv'
  <1>1. TypeOK /\ ent \in [Entity -> ENTITY]
    BY DEF SlotInv, TypeOK
  <1>2. CASE RcAssign
    <2>1. PICK i \in Slot, e \in Entity :
            /\ e = tbl[i]
            /\ ent' = [ent EXCEPT ![e] =
                             Completed(WithId(ent[e], Head(rcBuf).RcId))]
            /\ cur' = [i |-> i, Id |-> Head(rcBuf).RcId,
                       ok |-> Head(rcBuf).Rc = "ASSIGN_OK"]
      BY <1>2 DEF RcAssign
    <2>2. ReqKept
      BY <1>1, <2>1, OpsKeepReq DEF ReqKept
    <2>3. tbl' = tbl /\ e_count' = e_count /\ tbl[i] # Null
      BY <1>2, <2>1 DEF RcAssign, tblVars, XdiAssumption
    <2>4. cur'.i = i
      BY <2>1
    <2>5. QED BY <2>2, <2>3, <2>4 DEF SlotInv, SlotsCounted, ReqKept
  <1>3. CASE RcAssignPost
    <2>1. pc' # "post" /\ ent' = ent /\ cur.i \in Slot /\ tbl[cur.i] # Null
      BY <1>3 DEF RcAssignPost, SlotInv
    <2>2. SlotsCounted'
      <3>1. CASE cur.ok
        BY <1>3, <3>1 DEF RcAssignPost, SlotInv, SlotsCounted
      <3>2. CASE ~cur.ok
        BY <1>1, <1>3, <2>1, <3>2, FreeCounts DEF RcAssignPost, SlotInv
      <3>3. QED BY <3>1, <3>2
    <2>3. QED BY <2>1, <2>2 DEF SlotInv
  <1>4. QED BY <1>2, <1>3

\* Every step keeps the invariant of the slots.
LEMMA SlotNext ==
    ASSUME XdiAssumption, "UREMOVE" \notin Reqs, SlotInv, [Next]_vars
    PROVE  SlotInv'
  <1>1. TypeOK'
    BY NextType DEF SlotInv
  <1>2. CASE ClientNext
    BY <1>1, <1>2, SlotRequest
  <1>3. CASE OutNext
    BY <1>1, <1>3, SlotSend
  <1>4. CASE RcOkFc \/ RcLabel \/ RcCancel \/ RcCount
    BY <1>1, <1>4, SlotKnownRc
  <1>5. CASE RcAssign \/ RcAssignPost
    BY <1>1, <1>5, SlotAssignRc
  <1>6. CASE \/ DpcStart \/ ClrIrq \/ RcReadyInt \/ RcIgnored \/ RcUnknown
             \/ RcDone
    <2>1. UNCHANGED <<ent, tbl, e_count, cur>>
      BY <1>6 DEF DpcStart, ClrIrq, RcReadyInt, RcIgnored, RcUnknown, RcDone,
         RcFrame, tblVars
    <2>2. pc' # "post" \/ pc = "post"
      BY <1>6 DEF DpcStart, ClrIrq, RcReadyInt, RcIgnored, RcUnknown, RcDone,
         RcFrame
    <2>3. QED BY <1>1, <2>1, <2>2, SlotFrame DEF ReqKept
  <1>7. CASE CardNext
    <2>1. UNCHANGED <<ent, tbl, e_count, cur, pc>>
      BY <1>7 DEF CardNext, CardTake, CardAssign, CardData, CardRemove,
         CardXon, CardReady, CardPost, CardConsume, CardFrame, tblVars
    <2>2. QED BY <1>1, <2>1, SlotFrame DEF ReqKept
  <1>8. CASE UNCHANGED vars
    BY <1>1, <1>8, SlotFrame DEF vars, tblVars, ReqKept
  <1>9. QED
    BY <1>2, <1>3, <1>4, <1>5, <1>6, <1>7, <1>8 DEF Next, DpcNext, RcNext

\* As long as no client uses UREMOVE, e_count is the number of slots in use,
\* so request() finds a free slot whenever it looks for one.
THEOREM SlotsSafe ==
    ASSUME "UREMOVE" \notin Reqs
    PROVE  Spec => []SlotsCounted
  <1>1. Init => SlotInv
    <2>1. SUFFICES ASSUME Init PROVE SlotInv
      OBVIOUS
    <2>2. TypeOK
      BY <2>1, InitType, XdiAssumption
    <2>3. {i \in Slot : tbl[i] # Null} = {}
      BY <2>1 DEF Init
    <2>4. e_count = 0 /\ pc = "idle"
      BY <2>1 DEF Init
    <2>5. SlotsCounted
      BY <2>3, <2>4, FS_EmptySet DEF SlotsCounted
    <2>6. \A e \in Entity : ent[e].Req = "none"
      BY <2>1 DEF Init
    <2>7. QED BY <2>2, <2>4, <2>5, <2>6 DEF SlotInv
  <1>2. SlotInv /\ [Next]_vars => SlotInv'
    BY SlotNext, XdiAssumption
  <1>3. SlotInv => SlotsCounted
    BY DEF SlotInv
  <1>4. QED BY <1>1, <1>2, <1>3, PTL DEF Spec

-----------------------------------------------------------------------------
(* Histories *)

\* The first hypothesis: no client gives its entity up without waiting for the
\* card (UREMOVE).  After one, the next entity takes the slot while answers to
\* the old one are on their way.
NoUremove == "UREMOVE" \notin Reqs

\* The second: the card labels the return code that ends flow control, or no
\* channel is under flow control.  Without labels XMOREC may count a return code
\* that isdn_rc() has taken for the end of flow control (di.c:671).
Marked == Labelled \/ Chan = {}

-----------------------------------------------------------------------------
(* The histories.  A record g remembers what was ever put into a queue and   *)
(* how much of it was taken out again:                                       *)
(*   g.q, g.out          slots linked into the request queue                 *)
(*   g.S, g.done         slots pushed on the assign list, ASSIGNs processed; *)
(*   g.ans               ASSIGNs answered by the card                        *)
(*   g.Q, g.tk           requests written into buffers, taken by the card    *)
(*   g.R, g.got          return codes of the card, taken by isdn_rc          *)
(* and g.st is the stage of the request of each entity.                      *)
Stage == {"none", "refused", "asks", "asked", "idle", "queued", "sent"}

\* What is still on its way in each history: positions not yet taken out.
QLive(g) == (g.out + 1)..Len(g.q)
SLive(g) == (g.done + 1)..Len(g.S)
RLive(g) == (g.got + 1)..Len(g.R)
RqLive(g) == (g.tk + 1)..Len(g.Q)

\* A history, and what makes one well formed.
Ghost == [q : Seq(Slot), out : Nat, S : Seq(Slot), done : Nat, ans : Nat,
          R : Seq(RC), got : Nat, Q : Seq(REQ), tk : Nat,
          st : [Entity -> Stage]]

GhostType(g) ==
    /\ g \in Ghost
    /\ g.out <= Len(g.q) /\ g.done <= g.ans /\ g.ans <= Len(g.S)
    /\ g.got <= Len(g.R) /\ g.tk <= Len(g.Q)

\* The return codes under way are those between the card and isdn_rc(), and the
\* requests under way those between look_req() and the card, in order.
Pipes(g) ==
    /\ Len(g.R) = g.got + Len(rcBuf) + Len(outq)
    /\ Len(g.Q) = g.tk + Len(inbox) + Len(batch)
    /\ \A k \in 1..Len(rcBuf) : rcBuf[k] = g.R[g.got + k]
    /\ \A k \in 1..Len(outq) : outq[k] = g.R[g.got + Len(rcBuf) + k]
    /\ \A k \in 1..Len(inbox) : inbox[k] = g.Q[g.tk + k]
    /\ \A k \in 1..Len(batch) : batch[k] = g.Q[g.tk + Len(inbox) + k]

\* The form of the card's return codes and of the requests in the buffers.
RcForm(m) == 
    /\ (m.Reference # 0 <=> m.Rc \in {"ASSIGN_OK", "ASSIGN_FAIL"})
    /\ (m.Rc = "READY_INT" => m.RcId = 0 /\ m.Ext = "none")
    /\ (m.Rc = "ASSIGN_OK" => m.RcId # 0 /\ m.Ext = "none" /\ m.RcCh = 0)
    /\ (m.Rc = "ASSIGN_FAIL" => m.RcId = 0 /\ m.Ext = "none" /\ m.RcCh = 0)
    /\ (m.Rc \in {"OK", "OK_FC", "ERR"} => m.RcId # 0)
    /\ (m.Ext = "OK_FC" => m.Rc = "OK" /\ m.RcCh \in Chan)
    /\ (m.Rc \in {"OK_FC", "ERR"} => m.RcCh \in Chan)
RqForm(m) ==
    /\ (m.Reference # 0 <=> m.Req = "ASSIGN")
    /\ (m.ReqId = 0 <=> m.Req = "ASSIGN")
    /\ m.Req \in {"ASSIGN", "MDATA", "DATA", "CTRL", "REMOVE"}
    /\ (m.Req = "REMOVE" => m.ReqCh = 0)
    /\ (m.Req = "ASSIGN" => m.ReqCh = 0)
Forms(g) == /\ \A k \in RLive(g) : RcForm(g.R[k])
            /\ \A k \in RqLive(g) : RqForm(g.Q[k])

\* What is on its way for Id d: answers, ends of flow control, ASSIGN_OKs, requests
RcKey(m) == IF m.Ext = "OK_FC" \/ m.Rc = "ASSIGN_OK" THEN 0 ELSE m.RcId
Plain(g, d) == {k \in RLive(g) : RcKey(g.R[k]) = d}
Labels(g, d) == {k \in RLive(g) : g.R[k].RcId = d /\ g.R[k].Ext = "OK_FC"}
News(g, d) == {k \in RLive(g) : g.R[k].RcId = d /\ g.R[k].Rc = "ASSIGN_OK"}
Sent(g, d) == {k \in RqLive(g) : g.Q[k].ReqId = d}

-----------------------------------------------------------------------------

\* The slot of an entity: e_tbl[] names it, or nothing but the slot that
\* isdn_rc() is about to free does.
HasSlot(e) == ent[e].No \in Slot /\ tbl[ent[e].No] = e
NoSlot(e) == \A i \in Slot : tbl[i] = e => cur.i = i

\* What the stage of a request says of the fields of its entity.
EntityAt(e, s) ==
    LET x == ent[e] IN
    /\ x.Req # "UREMOVE"
    /\ (s = "none" => x.Id = 0 /\ ~wait[e] /\ NoSlot(e))
    /\ (s = "refused" => x.Id = 0 /\ wait[e] /\ NoSlot(e))
    /\ (s \in {"asks", "asked"} =>
          /\ x.Id = 0 /\ wait[e] /\ HasSlot(e) /\ x.Req = "ASSIGN" /\ x.ReqCh = 0
          /\ x.XBUSY /\ x.XMOREC = 0 /\ ~x.XMOREP)
    /\ (s \in {"idle", "queued", "sent"} => x.Id # 0 /\ HasSlot(e))
    /\ (s = "idle" => /\ ~wait[e] /\ ~x.XBUSY /\ x.XMOREC = 0
                      /\ ~x.XMOREP /\ x.Req # "REMOVE")
    /\ (s \in {"queued", "sent"} =>
          /\ wait[e] /\ x.XBUSY /\ x.Req \in {"DATA", "CTRL", "REMOVE"}
          /\ x.ReqCh \in ChansOf(e) \cup {0}
          /\ (x.Req = "REMOVE" => x.ReqCh = 0))
    /\ (s = "queued" => 
         /\ ~x.XMOREF
         /\ x.XMOREP \/ x.XMOREC = 0
         /\ x.XNum >= 1 /\ x.XMOREC + x.XNum <= MaxFrag
         /\ (x.Req # "DATA" => x.XNum = 1 /\ ~x.XMOREP))
    /\ (s = "sent" => /\ x.XMOREF /\ ~x.XMOREP /\ x.XMOREC >= 1
                      /\ (x.Req # "DATA" => x.XMOREC = 1))

\* The control state of the DPC: where it stands and what isdn_rc() carries
\* from the table update to the callback.
Ctl ==
    /\ (~irq => rcBuf = <<>>)
    /\ (pc \in {"rc", "post", "clr"} \/ (pc \in {"look", "take"} /\ phase = 1) => irq)
    /\ (pc = "clr" \/ (pc \in {"look", "take"} /\ phase = 1) => rcBuf = <<>>)
    /\ (pc # "post" => cur.i = 0 /\ ~cur.ok)
    /\ (pc = "post" => 
          /\ cur.i \in Slot /\ tbl[cur.i] # Null
          /\ (cur.ok => /\ cur.Id \in Ids /\ IdTable[cur.Id] = 0
                        /\ ent[tbl[cur.i]].Id = cur.Id
                        /\ ent[tbl[cur.i]].No = cur.i)
          /\ (~cur.ok => ent[tbl[cur.i]].Id = 0))

\* The request queue: head, tail and next link the live part of g.q, each slot
\* once, and each belongs to an entity whose request waits to be sent.
Queue(g) ==
    /\ head = (IF g.out = Len(g.q) THEN 0 ELSE g.q[g.out + 1])
    /\ tail = (IF g.out = Len(g.q) THEN 0 ELSE g.q[Len(g.q)])
    /\ \A k \in QLive(g) : next[g.q[k]] = (IF k = Len(g.q) THEN 0 ELSE g.q[k+1])
    /\ \A j, k \in QLive(g) : g.q[j] = g.q[k] => j = k
    /\ \A k \in QLive(g) : 
          /\ tbl[g.q[k]] # Null /\ ent[tbl[g.q[k]]].No = g.q[k]
          /\ g.st[tbl[g.q[k]]] \in {"asks", "queued"}
          /\ cur.i # g.q[k] \/ cur.ok
    /\ \A e \in Entity : g.st[e] \in {"asks", "queued"} =>
          \E k \in QLive(g) : g.q[k] = ent[e].No

\* The assign list: assign and next link the live part of g.S backwards, each
\* slot once under a reference of its own, and each belongs to an entity whose
\* ASSIGN the card has not answered.
Assigns(g) ==
    /\ (g.done # Len(g.S) => assign = g.S[Len(g.S)])
    /\ \A k \in SLive(g) : k - 1 \in SLive(g) => next[g.S[k]] = g.S[k-1]
    /\ \A j, k \in SLive(g) : ref[g.S[j]] = ref[g.S[k]] => j = k
    /\ \A k \in SLive(g) : 
          /\ tbl[g.S[k]] # Null /\ ent[tbl[g.S[k]]].No = g.S[k] /\ ref[g.S[k]] # 0
          /\ g.st[tbl[g.S[k]]] = "asked"
          /\ cur.i # g.S[k] 
    /\ \A e \in Entity : g.st[e] = "asked" => \E k \in SLive(g) : g.S[k] = ent[e].No

\* The ASSIGNs done+1..ans are answered, ans+1..Len(S) are not.
Refs(g) ==
    /\ \A n \in (g.done+1)..g.ans : \E p \in RLive(g) : g.R[p].Reference = ref[g.S[n]]
    /\ \A n \in (g.ans+1)..Len(g.S) : \E p \in RqLive(g) : g.Q[p].Reference = ref[g.S[n]]
    /\ \A p \in RLive(g) : g.R[p].Reference # 0 =>
           \E n \in (g.done+1)..g.ans : g.R[p].Reference = ref[g.S[n]]
    /\ \A p \in RqLive(g) : g.Q[p].Reference # 0 =>
           \E n \in (g.ans+1)..Len(g.S) : g.Q[p].Reference = ref[g.S[n]]
    /\ \A p, r \in RLive(g), m, n \in (g.done+1)..g.ans : 
          g.R[p].Reference = ref[g.S[m]] /\ g.R[r].Reference = ref[g.S[n]] /\ p < r => m < n
    /\ \A p, r \in RqLive(g), m, n \in (g.ans+1)..Len(g.S) : 
          g.Q[p].Reference = ref[g.S[m]] /\ g.Q[r].Reference = ref[g.S[n]] /\ p < r => m < n

\* The entity's REMOVE is with the card; nobody has the card's id d.
Removing(g, e) == g.st[e] = "sent" /\ ent[e].Req = "REMOVE"
Unowned(d) == \A e \in Entity : ent[e].Id # d

\* Ids as host and card see them
IdAt(g, d) ==
    /\ \A k \in Sent(g, d) : 
           /\ d \in cardIds
           /\ (Unowned(d) => g.Q[k].Req = "REMOVE")
           /\ (g.Q[k].Req = "REMOVE" => \A j \in Sent(g, d) : j = k)
    /\ \A k \in News(g, d) :
         /\ d \in cardIds /\ Sent(g, d) = {}
         /\ \A h \in held : h[2] # d
         /\ \A j \in RLive(g) : j > k => g.R[j].RcId # d
    /\ \A e \in Entity : 
         ent[e].Id = d /\ (d \notin cardIds \/ News(g, d) # {})
            => Removing(g, e)
    
\* A channel held by the card: its entity has the Id, or the REMOVE is before
\* the ASSIGN of the entity in the request buffers.
HoldAt(g, c, d) ==
    LET e == Owner[c] IN
    /\ c \in Chan /\ d \in cardIds
    /\ \/ ent[e].Id = d /\ (Removing(g, e) => Sent(g, d) # {})
       \/ /\ Unowned(d) /\ ent[e].Id = 0
          /\ \E p \in Sent(g, d) : \A k \in SLive(g) : tbl[g.S[k]] = e =>
                \E r \in RqLive(g) : r > p /\ g.Q[r].Reference = ref[g.S[k]]

\* What a request in a buffer, and a return code on its way, says of the stage
\* of the entity that owns its id.
SentAt(g, e, k) ==
    LET m == g.Q[k] x == ent[e] IN
    /\ g.st[e] \in {"queued", "sent"} /\ m.ReqCh = x.ReqCh
    /\ (m.NLType <=> e \in NL)
    /\ (m.Req = "MDATA" => x.Req = "DATA")
    /\ (m.Req # "MDATA" => /\ m.Req = x.Req /\ g.st[e] = "sent"
                           /\ \A j \in Sent(g, x.Id) : j <= k)
PlainAt(g, e, k) ==
    LET m == g.R[k] x == ent[e] IN
    /\ g.st[e] \in {"queued", "sent"} /\ m.RcCh = x.ReqCh
    /\ (m.Rc # "OK" => /\ g.st[e] = "sent" /\ Sent(g, x.Id) = {}
                       /\ \A j \in Plain(g, x.Id) : j <= k
                       /\ x.Req # "REMOVE")
    /\ (m.Rc = "ERR" => x.Req = "CTRL")
    /\ (m.Ext = "REMOVE_COMPLETE" <=> Removing(g, e) /\ e \in NL)

\* XMOREC counts exactly the requests of the entity that the card holds and the
\* return codes on their way back.
Msgs(g, e) == LET d == ent[e].Id IN d # 0 =>
    /\ \A k \in Sent(g, d) : SentAt(g, e, k)
    /\ \A k \in Plain(g, d) : PlainAt(g, e, k)
    /\ \A k \in Labels(g, d) : Owner[g.R[k].RcCh] = e
    /\ ent[e].XMOREC = Cardinality(Plain(g, d)) + Cardinality(Sent(g, d))

\* The slots whose REMOVE is pending are those of entities that wait for it.
Pending(g) == \A i \in Slot : i \in rmPending <=>
                  (tbl[i] # Null /\ ent[tbl[i]].No = i /\ Removing(g, tbl[i]))

\* The labelled and the plain return codes of a channel.
Lab(g, c, d) == {k \in Labels(g, d) : g.R[k].RcCh = c}
Says(g, c, d, rc) == {k \in Plain(g, d) : g.R[k].RcCh = c /\ g.R[k].Rc = rc}

\* Flow control of channel c of an entity with Id d
Flow(g, c) ==
    LET e == Owner[c] x == ent[e] d == x.Id
        LabC == Lab(g, c, d)
        OkFc == Says(g, c, d, "OK_FC")
    IN
    /\ \A j \in LabC :
         \/ \E k \in OkFc : k < j /\ \A l \in LabC : l > k => l >= j
         \/ c \in clFc /\ \A l \in LabC : l >= j
    /\ (<<c, d>> \in held =>
         \/ \E k \in OkFc : \A l \in LabC : l < k
         \/ c \in clFc /\ LabC = {})
    /\ \A k \in Says(g, c, d, "ERR") : c \in clFc /\ LabC = {} /\ <<c, d>> \notin held
    /\ \A k \in Says(g, c, d, "OK") : c \in clFc => \E j \in LabC : j < k
    /\ \A k \in OkFc : <<c, d>> \in held \/ \E j \in LabC : j > k
    /\ (c \in clFc => \/ <<c, d>> \in held \/ LabC # {} \/ Says(g, c, d, "ERR") # {}
                      \/ wait[e] /\ x.Req = "REMOVE")
    /\ (fcId[c] = d /\ x.No \notin noCancel => c \in clFc)
    /\ (wait[e] /\ x.ReqCh = c /\ x.Req = "DATA" => c \notin fcPend)
    /\ (wait[e] /\ x.ReqCh = c /\ c \in clFc => c \in clSkip)

\* The flow control table names the owner of each channel, and every channel
\* is in one of the states of Flow.
Flows(g) == 
    /\ clFc \subseteq fcPend /\ 0 \notin fcPend
    /\ fcId[0] = 0
    /\ \A c \in Chan :
         /\ (c \in fcPend => ent[Owner[c]].Id # 0)
         /\ (c \in clFc => fcId[c] = ent[Owner[c]].Id)
         /\ (fcId[c] # 0 => fcId[c] = ent[Owner[c]].Id)
         /\ (ent[Owner[c]].Id # 0 => Flow(g, c))

\* All of it, for one history.
Inv(g) ==
    /\ GhostType(g) /\ Pipes(g) /\ Forms(g)
    /\ \A e \in Entity : EntityAt(e, g.st[e])
    /\ Queue(g) /\ Assigns(g) /\ Refs(g)
    /\ \A d \in Ids : IdAt(g, d)
    /\ \A c \in Chan, d \in Ids : <<c, d>> \in held => HoldAt(g, c, d)
    /\ held \subseteq Chan \X Ids
    /\ \A e \in Entity : Msgs(g, e)
    /\ Pending(g) /\ Flows(g)

-----------------------------------------------------------------------------

\* h has the items of g that are still live.
SameItems(g, h) ==
    /\ \A k \in RLive(g) : h.R[k] = g.R[k]
    /\ \A k \in RqLive(g) : h.Q[k] = g.Q[k]

\* A history from its parts.
Mk(q, out, S, done, ans, R, got, Q, tk, st) ==
    [q |-> q, out |-> out, S |-> S, done |-> done, ans |-> ans, R |-> R,
     got |-> got, Q |-> Q, tk |-> tk, st |-> st]

\* The parts of a history that Mk built, and its type.
LEMMA MkParts ==
    ASSUME NEW q, NEW out, NEW S, NEW done, NEW ans, NEW R, NEW got, NEW Q,
           NEW tk, NEW st, NEW h, h = Mk(q, out, S, done, ans, R, got, Q, tk, st)
    PROVE  /\ h.q = q /\ h.out = out /\ h.S = S /\ h.done = done /\ h.ans = ans
           /\ h.R = R /\ h.got = got /\ h.Q = Q /\ h.tk = tk /\ h.st = st
           /\ /\ q \in Seq(Slot) /\ out \in Nat /\ S \in Seq(Slot) /\ done \in Nat
              /\ ans \in Nat /\ R \in Seq(RC) /\ got \in Nat /\ Q \in Seq(REQ)
              /\ tk \in Nat /\ st \in [Entity -> Stage]
              => h \in Ghost
  BY DEF Mk, Ghost

\* The types of the parts of a history.
LEMMA GhostParts ==
    ASSUME NEW g, GhostType(g)
    PROVE  /\ g.q \in Seq(Slot) /\ g.out \in Nat /\ Len(g.q) \in Nat
           /\ g.S \in Seq(Slot) /\ g.done \in Nat /\ Len(g.S) \in Nat /\ g.ans \in Nat
           /\ g.R \in Seq(RC) /\ g.got \in Nat /\ Len(g.R) \in Nat
           /\ g.Q \in Seq(REQ) /\ g.tk \in Nat /\ Len(g.Q) \in Nat
           /\ g.st \in [Entity -> Stage]
           /\ g.out <= Len(g.q) /\ g.done <= g.ans /\ g.ans <= Len(g.S)
           /\ g.got <= Len(g.R) /\ g.tk <= Len(g.Q)
  <1>1. g \in Ghost BY DEF GhostType
  <1>2. /\ g.q \in Seq(Slot) /\ g.out \in Nat
        /\ g.S \in Seq(Slot) /\ g.done \in Nat /\ g.ans \in Nat
        /\ g.R \in Seq(RC) /\ g.got \in Nat
        /\ g.Q \in Seq(REQ) /\ g.tk \in Nat
        /\ g.st \in [Entity -> Stage]
    BY <1>1 DEF Ghost
  <1>3. QED BY <1>2 DEF GhostType

\* Arithmetic of positions
LEMMA Positions ==
    /\ \A a, b \in Int : a + (b + 1) = (a + 1) + b
    /\ \A n \in Nat : \A k \in 1..(n + 1) : k \in 1..n \/ k = n + 1
    /\ \A a, b, c \in Int : a + b + (c + 1) = a + b + c + 1
  OBVIOUS

\* isdn_rc takes the next return code.
LEMMA TakeRc ==
    ASSUME TypeOK, NEW g, GhostType(g), Pipes(g), rcBuf # <<>>,
           rcBuf' = Tail(rcBuf), UNCHANGED <<outq, inbox, batch>>,
           NEW h, h.R = g.R, h.got = g.got + 1, h.Q = g.Q, h.tk = g.tk
    PROVE  /\ Pipes(h)' /\ SameItems(g, h)
           /\ g.got + 1 \in RLive(g) /\ Head(rcBuf) = g.R[g.got + 1]
           /\ RLive(h) = RLive(g) \ {g.got + 1} /\ RqLive(h) = RqLive(g)
           /\ \A k \in RLive(g) : g.got + 1 <= k
           /\ h.got \in Nat /\ h.got <= Len(h.R)
  <1>0. rcBuf \in Seq(RC) /\ outq \in Seq(RC) BY DEF TypeOK
  <1>1. Len(rcBuf) \in Nat /\ Len(rcBuf) >= 1 /\ Len(outq) \in Nat BY <1>0
  <1>4. Len(g.R) = g.got + Len(rcBuf) + Len(outq) BY DEF Pipes
  <1>6. /\ Len(Tail(rcBuf)) = Len(rcBuf) - 1
        /\ \A k \in 1..Len(Tail(rcBuf)) : Tail(rcBuf)[k] = rcBuf[k + 1]
        /\ Head(rcBuf) = rcBuf[1]
    BY <1>0
  <1>7. Pipes(h)'
    <2>1. \A k \in 1..Len(rcBuf') : rcBuf'[k] = h.R[h.got + k]
      <3> TAKE k \in 1..Len(rcBuf')
      <3>1. k + 1 \in 1..Len(rcBuf) /\ rcBuf'[k] = rcBuf[k + 1] BY <1>1, <1>6
      <3>2. rcBuf[k + 1] = g.R[g.got + (k + 1)] BY <3>1 DEF Pipes
      <3>3. g.got + (k + 1) = h.got + k
        <4>1. g.got \in Int /\ k \in Int BY GhostParts
        <4>2. g.got + (k + 1) = (g.got + 1) + k BY <4>1, Positions, Zenon
        <4>3. QED BY <4>2
      <3>4. QED BY <3>1, <3>2, <3>3
    <2>2. \A k \in 1..Len(outq') : outq'[k] = h.R[h.got + Len(rcBuf') + k]
      <3> TAKE k \in 1..Len(outq')
      <3>1. outq'[k] = g.R[g.got + Len(rcBuf) + k] BY DEF Pipes
      <3>2. g.got + Len(rcBuf) + k = h.got + Len(rcBuf') + k
        BY <1>1, <1>6, GhostParts
      <3>3. QED BY <3>1, <3>2
    <2>3. Len(h.R) = h.got + Len(rcBuf') + Len(outq')
      <3>1. Len(g.R) = (g.got + 1) + (Len(rcBuf) - 1) + Len(outq)
        BY <1>1, <1>4, GhostParts
      <3>2. QED BY <3>1, <1>6
    <2>4. QED BY <2>1, <2>2, <2>3, Zenon DEF Pipes
  <1>8. g.got + 1 \in RLive(g) /\ Head(rcBuf) = g.R[g.got + 1]
    <2>1. 1 \in 1..Len(rcBuf) BY <1>1
    <2>2. rcBuf[1] = g.R[g.got + 1] BY <2>1 DEF Pipes
    <2>3. g.got + 1 \in RLive(g) BY <1>1, <1>4, GhostParts DEF RLive
    <2>4. QED BY <2>2, <2>3, <1>6
  <1>9. /\ RLive(h) = RLive(g) \ {g.got + 1} /\ \A k \in RLive(g) : g.got + 1 <= k
        /\ g.got + 1 \in Nat /\ g.got + 1 <= Len(g.R)
    BY GhostParts, <1>8 DEF RLive
  <1>10. SameItems(g, h) /\ RqLive(h) = RqLive(g)
    BY Zenon DEF SameItems, RqLive
  <1>. QED BY <1>7, <1>8, <1>9, <1>10

\* The card has a return code to say.
LEMMA PutRc ==
    ASSUME TypeOK, NEW g, GhostType(g), Pipes(g), NEW m, m \in RC,
           outq' = Append(outq, m), UNCHANGED <<rcBuf, inbox, batch>>,
           NEW h, h.R = Append(g.R, m), h.got = g.got, h.Q = g.Q, h.tk = g.tk
    PROVE  /\ Pipes(h)' /\ SameItems(g, h)
           /\ RLive(h) = RLive(g) \cup {Len(g.R) + 1} /\ RqLive(h) = RqLive(g)
           /\ h.R[Len(g.R) + 1] = m
           /\ \A k \in RLive(g) : k < Len(g.R) + 1
           /\ Len(g.R) + 1 \notin RLive(g)
           /\ h.R \in Seq(RC) /\ h.got <= Len(h.R)
  <1>0. rcBuf \in Seq(RC) /\ outq \in Seq(RC) BY DEF TypeOK
  <1>1. Len(rcBuf) \in Nat /\ Len(outq) \in Nat BY <1>0
  <1>4. Len(g.R) = g.got + Len(rcBuf) + Len(outq) BY DEF Pipes
  <1>5. g.R \in Seq(RC) /\ Len(g.R) \in Nat /\ g.got \in Nat /\ g.got <= Len(g.R)
    BY GhostParts
  <1>6. /\ Append(g.R, m) \in Seq(RC) /\ Len(Append(g.R, m)) = Len(g.R) + 1
        /\ Append(g.R, m)[Len(g.R) + 1] = m
        /\ \A k \in 1..Len(g.R) : Append(g.R, m)[k] = g.R[k]
    BY <1>5
  <1>7. /\ Len(Append(outq, m)) = Len(outq) + 1
        /\ Append(outq, m)[Len(outq) + 1] = m
        /\ \A k \in 1..Len(outq) : Append(outq, m)[k] = outq[k]
    BY <1>0
  <1>8. Pipes(h)'
    <2>1. \A k \in 1..Len(rcBuf') : rcBuf'[k] = h.R[h.got + k]
      <3> TAKE k \in 1..Len(rcBuf')
      <3>1. k \in 1..Len(rcBuf) OBVIOUS
      <3>2. g.got + k \in 1..Len(g.R) BY <3>1, <1>1, <1>4, <1>5
      <3>3. rcBuf[k] = g.R[g.got + k] BY <3>1 DEF Pipes
      <3>4. QED BY <1>6, <3>2, <3>3
    <2>2. \A k \in 1..Len(outq') : outq'[k] = h.R[h.got + Len(rcBuf') + k]
      <3> TAKE k \in 1..Len(outq')
      <3>0. k \in 1..(Len(outq) + 1) BY <1>7
      <3>1. CASE k \in 1..Len(outq)
        <4>1. g.got + Len(rcBuf) + k \in 1..Len(g.R) BY <3>1, <1>1, <1>4, <1>5
        <4>2. outq[k] = g.R[g.got + Len(rcBuf) + k] BY <3>1 DEF Pipes
        <4>3. QED BY <3>1, <4>1, <4>2, <1>6, <1>7
      <3>2. CASE k = Len(outq) + 1
        <4>0. g.got \in Int /\ Len(rcBuf) \in Int /\ Len(outq) \in Int BY <1>1, <1>5
        <4>1. g.got + Len(rcBuf) + k = Len(g.R) + 1
          <5>1. g.got + Len(rcBuf) + (Len(outq) + 1) = g.got + Len(rcBuf) + Len(outq) + 1
            BY <4>0, Positions
          <5>2. QED BY <5>1, <3>2, <1>4, Zenon
        <4>2. QED BY <3>2, <4>1, <1>6, <1>7
      <3>3. QED BY <3>0, <3>1, <3>2, <1>1, Positions, Zenon
    <2>3. Len(h.R) = h.got + Len(rcBuf') + Len(outq')
      <3>1. Len(g.R) + 1 = g.got + Len(rcBuf) + (Len(outq) + 1)
        BY <1>1, <1>4, <1>5
      <3>2. QED BY <3>1, <1>6, <1>7
    <2>4. QED BY <2>1, <2>2, <2>3, Zenon DEF Pipes
  <1>9. /\ RLive(h) = RLive(g) \cup {Len(g.R) + 1}
        /\ \A k \in RLive(g) : k < Len(g.R) + 1
        /\ Len(g.R) + 1 \notin RLive(g) /\ g.got <= Len(g.R) + 1
        /\ \A k \in RLive(g) : k \in 1..Len(g.R)
    BY <1>5, <1>6 DEF RLive
  <1>10. SameItems(g, h) /\ RqLive(h) = RqLive(g)
    BY <1>6, <1>9 DEF SameItems, RqLive
  <1>. QED BY <1>6, <1>8, <1>9, <1>10

\* pr_out fills a request buffer.
LEMMA PutRq ==
    ASSUME TypeOK, NEW g, GhostType(g), Pipes(g), NEW m, m \in REQ,
           batch' = Append(batch, m), UNCHANGED <<rcBuf, inbox, outq>>,
           NEW h, h.R = g.R, h.got = g.got, h.Q = Append(g.Q, m), h.tk = g.tk
    PROVE  /\ Pipes(h)' /\ SameItems(g, h)
           /\ RqLive(h) = RqLive(g) \cup {Len(g.Q) + 1} /\ RLive(h) = RLive(g)
           /\ h.Q[Len(g.Q) + 1] = m
           /\ \A k \in RqLive(g) : k < Len(g.Q) + 1
           /\ Len(g.Q) + 1 \notin RqLive(g)
           /\ h.Q \in Seq(REQ) /\ h.tk <= Len(h.Q)
  <1>0. inbox \in Seq(REQ) /\ batch \in Seq(REQ) BY DEF TypeOK
  <1>1. Len(inbox) \in Nat /\ Len(batch) \in Nat BY <1>0
  <1>4. Len(g.Q) = g.tk + Len(inbox) + Len(batch) BY DEF Pipes
  <1>5. g.Q \in Seq(REQ) /\ Len(g.Q) \in Nat /\ g.tk \in Nat /\ g.tk <= Len(g.Q)
    BY GhostParts
  <1>6. /\ Append(g.Q, m) \in Seq(REQ) /\ Len(Append(g.Q, m)) = Len(g.Q) + 1
        /\ Append(g.Q, m)[Len(g.Q) + 1] = m
        /\ \A k \in 1..Len(g.Q) : Append(g.Q, m)[k] = g.Q[k]
    BY <1>5
  <1>7. /\ Len(Append(batch, m)) = Len(batch) + 1
        /\ Append(batch, m)[Len(batch) + 1] = m
        /\ \A k \in 1..Len(batch) : Append(batch, m)[k] = batch[k]
    BY <1>0
  <1>8. Pipes(h)'
    <2>1. \A k \in 1..Len(inbox') : inbox'[k] = h.Q[h.tk + k]
      <3> TAKE k \in 1..Len(inbox')
      <3>1. k \in 1..Len(inbox) OBVIOUS
      <3>2. g.tk + k \in 1..Len(g.Q) BY <3>1, <1>1, <1>4, <1>5
      <3>3. inbox[k] = g.Q[g.tk + k] BY <3>1 DEF Pipes
      <3>4. QED BY <1>6, <3>2, <3>3
    <2>2. \A k \in 1..Len(batch') : batch'[k] = h.Q[h.tk + Len(inbox') + k]
      <3> TAKE k \in 1..Len(batch')
      <3>0. k \in 1..(Len(batch) + 1) BY <1>7
      <3>1. CASE k \in 1..Len(batch)
        <4>1. g.tk + Len(inbox) + k \in 1..Len(g.Q) BY <3>1, <1>1, <1>4, <1>5
        <4>2. batch[k] = g.Q[g.tk + Len(inbox) + k] BY <3>1 DEF Pipes
        <4>3. QED BY <3>1, <4>1, <4>2, <1>6, <1>7
      <3>2. CASE k = Len(batch) + 1
        <4>1. g.tk + Len(inbox) + k = Len(g.Q) + 1 BY <3>2, <1>1, <1>4, <1>5
        <4>2. QED BY <3>2, <4>1, <1>6, <1>7
      <3>3. QED BY <3>0, <3>1, <3>2, <1>1, Positions, Zenon
    <2>3. Len(h.Q) = h.tk + Len(inbox') + Len(batch')
      <3>1. Len(g.Q) + 1 = g.tk + Len(inbox) + (Len(batch) + 1)
        BY <1>1, <1>4, <1>5
      <3>2. QED BY <3>1, <1>6, <1>7
    <2>4. QED BY <2>1, <2>2, <2>3, Zenon DEF Pipes
  <1>9. /\ RqLive(h) = RqLive(g) \cup {Len(g.Q) + 1}
        /\ \A k \in RqLive(g) : k < Len(g.Q) + 1
        /\ Len(g.Q) + 1 \notin RqLive(g) /\ g.tk <= Len(g.Q) + 1
        /\ \A k \in RqLive(g) : k \in 1..Len(g.Q)
    BY <1>5, <1>6 DEF RqLive
  <1>10. SameItems(g, h) /\ RLive(h) = RLive(g)
    BY <1>6, <1>9 DEF SameItems, RLive
  <1>. QED BY <1>6, <1>8, <1>9, <1>10

\* The card takes a request and answers it.
LEMMA TakeRq ==
    ASSUME TypeOK, NEW g, GhostType(g), Pipes(g), NEW m, m \in RC,
           inbox # <<>>, inbox' = Tail(inbox), outq' = outq \o <<m>>,
           UNCHANGED <<rcBuf, batch>>,
           NEW h, h.R = Append(g.R, m), h.got = g.got, h.Q = g.Q, h.tk = g.tk + 1
    PROVE  /\ Pipes(h)' /\ SameItems(g, h)
           /\ g.tk + 1 \in RqLive(g) /\ Head(inbox) = g.Q[g.tk + 1]
           /\ RqLive(h) = RqLive(g) \ {g.tk + 1}
           /\ \A k \in RqLive(g) : g.tk + 1 <= k
           /\ RLive(h) = RLive(g) \cup {Len(g.R) + 1}
           /\ h.R[Len(g.R) + 1] = m
           /\ \A k \in RLive(g) : k < Len(g.R) + 1
           /\ Len(g.R) + 1 \notin RLive(g)
           /\ h.R \in Seq(RC) /\ h.got <= Len(h.R)
           /\ h.tk \in Nat /\ h.tk <= Len(h.Q)
  <1>0. /\ rcBuf \in Seq(RC) /\ outq \in Seq(RC) 
        /\ inbox \in Seq(REQ) /\ batch \in Seq(REQ)
    BY DEF TypeOK
  <1>1. Len(inbox) \in Nat /\ Len(inbox) >= 1 /\ Len(batch) \in Nat BY <1>0
  <1>2. outq' = Append(outq, m) BY <1>0
  <1>5. Len(g.Q) = g.tk + Len(inbox) + Len(batch) BY DEF Pipes
  <1>6. /\ Len(Tail(inbox)) = Len(inbox) - 1
        /\ \A k \in 1..Len(Tail(inbox)) : Tail(inbox)[k] = inbox[k + 1]
        /\ Head(inbox) = inbox[1]
    BY <1>0
  <1>7. g.tk \in Nat /\ g.tk \in Int /\ g.got \in Nat /\ Len(g.R) \in Nat
        /\ g.got <= Len(g.R) /\ Len(g.Q) \in Nat /\ g.R \in Seq(RC)
    BY GhostParts
  <1>8. /\ Append(g.R, m) \in Seq(RC) /\ Len(Append(g.R, m)) = Len(g.R) + 1
        /\ Append(g.R, m)[Len(g.R) + 1] = m
        /\ \A k \in 1..Len(g.R) : Append(g.R, m)[k] = g.R[k]
    BY <1>7
  <1>9. /\ Len(rcBuf) \in Nat /\ Len(outq) \in Nat /\ Len(Append(outq, m)) = Len(outq) + 1
        /\ Append(outq, m)[Len(outq) + 1] = m
        /\ \A k \in 1..Len(outq) : Append(outq, m)[k] = outq[k]
        /\ Len(g.R) = g.got + Len(rcBuf) + Len(outq)
    BY <1>0 DEF Pipes
  <1>10. Pipes(h)'
    <2>1. \A k \in 1..Len(rcBuf') : rcBuf'[k] = h.R[h.got + k]
      <3> TAKE k \in 1..Len(rcBuf')
      <3>1. k \in 1..Len(rcBuf) OBVIOUS
      <3>2. g.got + k \in 1..Len(g.R)
        <4>1. /\ Len(g.R) = g.got + Len(rcBuf) + Len(outq)
              /\ Len(rcBuf) \in Nat /\ Len(outq) \in Nat /\ g.got \in Nat
          BY <1>7, <1>9
        <4>2. QED BY <4>1, <3>1
      <3>3. rcBuf[k] = g.R[g.got + k] BY <3>1 DEF Pipes
      <3>4. QED BY <1>8, <3>2, <3>3
    <2>2. \A k \in 1..Len(outq') : outq'[k] = h.R[h.got + Len(rcBuf') + k]
      <3> TAKE k \in 1..Len(outq')
      <3>0. k \in 1..(Len(outq) + 1) BY <1>9, <1>2
      <3>1. CASE k \in 1..Len(outq)
        <4>1. g.got + Len(rcBuf) + k \in 1..Len(g.R) BY <3>1, <1>9, <1>7
        <4>2. outq[k] = g.R[g.got + Len(rcBuf) + k] BY <3>1 DEF Pipes
        <4>3. QED BY <3>1, <4>1, <4>2, <1>8, <1>9, <1>2
      <3>2. CASE k = Len(outq) + 1
        <4>0. g.got \in Int /\ Len(rcBuf) \in Int /\ Len(outq) \in Int BY <1>7, <1>9
        <4>1. g.got + Len(rcBuf) + k = Len(g.R) + 1
          <5>1. g.got + Len(rcBuf) + (Len(outq) + 1) = g.got + Len(rcBuf) + Len(outq) + 1
            BY <4>0, Positions
          <5>2. QED BY <5>1, <3>2, <1>9, Zenon
        <4>2. QED BY <3>2, <4>1, <1>8, <1>9, <1>2
      <3>3. QED BY <3>0, <3>1, <3>2, <1>9, Positions, Zenon
    <2>3. Len(h.R) = h.got + Len(rcBuf') + Len(outq')
      <3>1. Len(g.R) + 1 = g.got + Len(rcBuf) + (Len(outq) + 1)
        BY <1>7, <1>9
      <3>2. QED BY <3>1, <1>8, <1>9, <1>2
    <2>4. \A k \in 1..Len(inbox') : inbox'[k] = h.Q[h.tk + k]
      <3> TAKE k \in 1..Len(inbox')
      <3>1. k + 1 \in 1..Len(inbox) /\ inbox'[k] = inbox[k + 1] BY <1>1, <1>6
      <3>2. inbox[k + 1] = g.Q[g.tk + (k + 1)] BY <3>1 DEF Pipes
      <3>3. k \in Int OBVIOUS
      <3>4. g.tk + (k + 1) = (g.tk + 1) + k BY <1>7, <3>3, Positions, Zenon
      <3>5. QED BY <3>1, <3>2, <3>4
    <2>5. \A k \in 1..Len(batch') : batch'[k] = h.Q[h.tk + Len(inbox') + k]
      <3> TAKE k \in 1..Len(batch')
      <3>1. batch'[k] = g.Q[g.tk + Len(inbox) + k] BY DEF Pipes
      <3>2. g.tk + Len(inbox) = (g.tk + 1) + Len(inbox') BY <1>1, <1>6, <1>7
      <3>3. QED BY <3>1, <3>2
    <2>6. Len(h.Q) = h.tk + Len(inbox') + Len(batch')
      <3>1. Len(g.Q) = (g.tk + 1) + (Len(inbox) - 1) + Len(batch)
        BY <1>1, <1>5, <1>7
      <3>2. QED BY <3>1, <1>6
    <2>7. QED BY <2>1, <2>2, <2>3, <2>4, <2>5, <2>6, Zenon DEF Pipes
  <1>11. g.tk + 1 \in RqLive(g) /\ Head(inbox) = g.Q[g.tk + 1]
    <2>1. 1 \in 1..Len(inbox) BY <1>1
    <2>2. inbox[1] = g.Q[g.tk + 1] BY <2>1 DEF Pipes
    <2>3. g.tk + 1 \in RqLive(g) BY <1>1, <1>5, <1>7 DEF RqLive
    <2>4. QED BY <2>2, <2>3, <1>6
  <1>12. /\ RqLive(h) = RqLive(g) \ {g.tk + 1} /\ \A k \in RqLive(g) : g.tk + 1 <= k
         /\ g.tk + 1 \in Nat /\ g.tk + 1 <= Len(g.Q)
    BY <1>7, <1>11 DEF RqLive
  <1>13. /\ RLive(h) = RLive(g) \cup {Len(g.R) + 1}
         /\ \A k \in RLive(g) : k < Len(g.R) + 1
         /\ Len(g.R) + 1 \notin RLive(g) /\ g.got <= Len(g.R) + 1
         /\ \A k \in RLive(g) : k \in 1..Len(g.R)
    BY <1>7, <1>8 DEF RLive
  <1>14. SameItems(g, h)
    BY <1>8, <1>13 DEF SameItems
  <1>15. h.R[Len(g.R) + 1] = m /\ h.R \in Seq(RC) BY <1>8
  <1>16. h.got <= Len(h.R)
    <2>1. g.got <= Len(g.R) + 1
      <3>1. g.got \in Nat /\ Len(g.R) \in Nat /\ g.got <= Len(g.R) BY <1>7
      <3>2. QED BY <3>1
    <2>2. Len(h.R) = Len(g.R) + 1
      <3>1. Len(Append(g.R, m)) = Len(g.R) + 1 BY <1>8
      <3>2. QED BY <3>1
    <2>3. QED BY <2>1, <2>2
  <1>17. h.tk \in Nat /\ h.tk <= Len(h.Q) BY <1>12
  <1>. QED BY <1>10, <1>11, <1>12, <1>13, <1>14, <1>15, <1>16, <1>17, Zenon

-----------------------------------------------------------------------------
(* What a step changes of the messages about an Id *)

\* h and g hold the same messages about id d.
SameMsgs(g, h, d) ==
    /\ Plain(h, d) = Plain(g, d) /\ Labels(h, d) = Labels(g, d)
    /\ News(h, d) = News(g, d) /\ Sent(h, d) = Sent(g, d)

\* A return code is taken.
LEMMA TakeView ==
    ASSUME NEW g, NEW h, NEW p \in RLive(g), SameItems(g, h),
           RLive(h) = RLive(g) \ {p}, RqLive(h) = RqLive(g), NEW d
    PROVE  /\ Plain(h, d) = Plain(g, d) \ {p} /\ Labels(h, d) = Labels(g, d) \ {p}
           /\ News(h, d) = News(g, d) \ {p} /\ Sent(h, d) = Sent(g, d)
           /\ (d # 0 /\ g.R[p].RcId # d => SameMsgs(g, h, d))
  <1>1. /\ Plain(h, d) = Plain(g, d) \ {p} /\ Labels(h, d) = Labels(g, d) \ {p}
        /\ News(h, d) = News(g, d) \ {p} /\ Sent(h, d) = Sent(g, d)
    BY DEF Plain, Labels, News, Sent, SameItems
  <1>2. ASSUME d # 0, g.R[p].RcId # d PROVE SameMsgs(g, h, d)
    <2>1. p \notin Plain(g, d) /\ p \notin Labels(g, d) /\ p \notin News(g, d)
      BY <1>2 DEF Plain, Labels, News, RcKey
    <2>2. QED BY <1>1, <2>1 DEF SameMsgs
  <1>3. QED BY <1>1, <1>2

\* A return code is said.
LEMMA PutView ==
    ASSUME NEW g, NEW h, NEW n, n \notin RLive(g), SameItems(g, h),
           RLive(h) = RLive(g) \cup {n}, RqLive(h) = RqLive(g), NEW d
    PROVE  /\ Plain(h, d) = (IF RcKey(h.R[n]) = d THEN Plain(g, d) \cup {n} ELSE Plain(g, d))
           /\ Labels(h, d) = (IF h.R[n].RcId = d /\ h.R[n].Ext = "OK_FC"
                              THEN Labels(g, d) \cup {n} ELSE Labels(g, d))
           /\ News(h, d) = (IF h.R[n].RcId = d /\ h.R[n].Rc = "ASSIGN_OK"
                            THEN News(g, d) \cup {n} ELSE News(g, d))
           /\ Sent(h, d) = Sent(g, d)
           /\ (d # 0 /\ h.R[n].RcId # d => SameMsgs(g, h, d))
  <1>1. Plain(h, d) = (IF RcKey(h.R[n]) = d THEN Plain(g, d) \cup {n} ELSE Plain(g, d))
    BY DEF Plain, SameItems
  <1>2. Labels(h, d) = (IF h.R[n].RcId = d /\ h.R[n].Ext = "OK_FC"
                              THEN Labels(g, d) \cup {n} ELSE Labels(g, d))
    BY DEF Labels, SameItems
  <1>3. News(h, d) = (IF h.R[n].RcId = d /\ h.R[n].Rc = "ASSIGN_OK"
                            THEN News(g, d) \cup {n} ELSE News(g, d))
    BY DEF News, SameItems
  <1>4. Sent(h, d) = Sent(g, d)
    BY DEF Sent, SameItems
  <1>5. d # 0 /\ h.R[n].RcId # d => SameMsgs(g, h, d)
    BY <1>1, <1>2, <1>3, <1>4 DEF SameMsgs, RcKey
  <1>6. QED BY <1>1, <1>2, <1>3, <1>4, <1>5

\* A request is written into a buffer.
LEMMA FillView ==
    ASSUME NEW g, NEW h, NEW n, n \notin RqLive(g), SameItems(g, h),
           RqLive(h) = RqLive(g) \cup {n}, RLive(h) = RLive(g), NEW d
    PROVE  /\ Plain(h, d) = Plain(g, d) /\ Labels(h, d) = Labels(g, d)
           /\ News(h, d) = News(g, d)
           /\ Sent(h, d) = (IF h.Q[n].ReqId = d THEN Sent(g, d) \cup {n} ELSE Sent(g, d))
           /\ (h.Q[n].ReqId # d => SameMsgs(g, h, d))
  <1>1. /\ Plain(h, d) = Plain(g, d) /\ Labels(h, d) = Labels(g, d)
        /\ News(h, d) = News(g, d)
    BY DEF Plain, Labels, News, SameItems
  <1>2. Sent(h, d) = (IF h.Q[n].ReqId = d THEN Sent(g, d) \cup {n} ELSE Sent(g, d))
    BY DEF Sent, SameItems
  <1>3. QED BY <1>1, <1>2 DEF SameMsgs

\* A request is taken and answered.
LEMMA AnswerView ==
    ASSUME NEW g, NEW h, NEW p \in RqLive(g), NEW n, n \notin RLive(g), SameItems(g, h),
           RLive(h) = RLive(g) \cup {n}, RqLive(h) = RqLive(g) \ {p}, NEW d
    PROVE  /\ Plain(h, d) = (IF RcKey(h.R[n]) = d THEN Plain(g, d) \cup {n} ELSE Plain(g, d))
           /\ Labels(h, d) = (IF h.R[n].RcId = d /\ h.R[n].Ext = "OK_FC"
                              THEN Labels(g, d) \cup {n} ELSE Labels(g, d))
           /\ News(h, d) = (IF h.R[n].RcId = d /\ h.R[n].Rc = "ASSIGN_OK"
                            THEN News(g, d) \cup {n} ELSE News(g, d))
           /\ Sent(h, d) = Sent(g, d) \ {p}
           /\ (d # 0 /\ h.R[n].RcId # d /\ g.Q[p].ReqId # d => SameMsgs(g, h, d))
  <1>1. Plain(h, d) = (IF RcKey(h.R[n]) = d THEN Plain(g, d) \cup {n} ELSE Plain(g, d))
    BY DEF Plain, SameItems
  <1>2. Labels(h, d) = (IF h.R[n].RcId = d /\ h.R[n].Ext = "OK_FC"
                              THEN Labels(g, d) \cup {n} ELSE Labels(g, d))
    BY DEF Labels, SameItems
  <1>3. News(h, d) = (IF h.R[n].RcId = d /\ h.R[n].Rc = "ASSIGN_OK"
                            THEN News(g, d) \cup {n} ELSE News(g, d))
    BY DEF News, SameItems
  <1>4. Sent(h, d) = Sent(g, d) \ {p}
    BY DEF Sent, SameItems
  <1>5. g.Q[p].ReqId # d => p \notin Sent(g, d) BY DEF Sent
  <1>6. d # 0 /\ h.R[n].RcId # d /\ g.Q[p].ReqId # d => SameMsgs(g, h, d)
    BY <1>1, <1>2, <1>3, <1>4, <1>5 DEF SameMsgs, RcKey
  <1>7. QED BY <1>1, <1>2, <1>3, <1>4, <1>6

\* The messages about an Id are finitely many.
LEMMA FiniteMsgs ==
    ASSUME NEW g, GhostType(g), NEW d
    PROVE  /\ IsFiniteSet(Plain(g, d)) /\ IsFiniteSet(Sent(g, d))
           /\ Cardinality(Plain(g, d)) \in Nat /\ Cardinality(Sent(g, d)) \in Nat
           /\ (Cardinality(Plain(g, d)) = 0 <=> Plain(g, d) = {})
           /\ (Cardinality(Sent(g, d)) = 0 <=> Sent(g, d) = {})
  <1>1. IsFiniteSet(RLive(g)) /\ IsFiniteSet(RqLive(g))
    <2>1. /\ g.got + 1 \in Int /\ Len(g.R) \in Int
          /\ g.tk + 1 \in Int /\ Len(g.Q) \in Int
      BY GhostParts
    <2>2. QED BY <2>1, FS_Interval DEF RLive, RqLive
  <1>2. Plain(g, d) \subseteq RLive(g) /\ Sent(g, d) \subseteq RqLive(g)
    BY DEF Plain, Sent
  <1>3. IsFiniteSet(Plain(g, d)) /\ IsFiniteSet(Sent(g, d))
    BY <1>1, <1>2, FS_Subset
  <1>4. QED BY <1>3, FS_CardinalityType, FS_EmptySet

\* One more element.
LEMMA CardAdd ==
    ASSUME NEW T, IsFiniteSet(T), NEW x, x \notin T
    PROVE  Cardinality(T \cup {x}) = Cardinality(T) + 1
  BY FS_AddElement

\* One element less.
LEMMA CardDrop ==
    ASSUME NEW T, IsFiniteSet(T), NEW x \in T
    PROVE  Cardinality(T \ {x}) = Cardinality(T) - 1
  BY FS_RemoveElement

\* The inductive invariant for one history, the proved invariants included.
Whole(g) == TypeOK /\ Ctl /\ IdTableSound /\ NoTrap /\ Inv(g)

\* The invariant by its parts
LEMMA Parts ==
    ASSUME NEW g, Whole(g)
    PROVE  /\ TypeOK /\ Ctl /\ IdTableSound /\ NoTrap
           /\ GhostType(g) /\ Pipes(g) /\ Forms(g)
           /\ \A e \in Entity : EntityAt(e, g.st[e]) /\ Msgs(g, e) /\ g.st[e] \in Stage
           /\ Queue(g) /\ Assigns(g) /\ Refs(g)
           /\ \A d \in Ids : IdAt(g, d)
           /\ \A c \in Chan, d \in Ids : <<c, d>> \in held => HoldAt(g, c, d)
           /\ held \subseteq Chan \X Ids
           /\ Pending(g) /\ Flows(g)
  <1>1. GhostType(g) BY DEF Whole, Inv
  <1>2. \A e \in Entity : g.st[e] \in Stage BY <1>1, GhostParts
  <1>3. QED BY <1>2 DEF Whole, Inv

\* The fields of an entity have their types.
LEMMA EntityTypes ==
    ASSUME TypeOK, NEW e \in Entity
    PROVE  /\ ent[e] \in ENTITY
           /\ ent[e].Id \in Ids \cup {0} /\ ent[e].No \in 0..EMax
           /\ ent[e].Req \in ReqCode /\ ent[e].ReqCh \in ChanNo
           /\ ent[e].XNum \in 0..MaxFrag /\ ent[e].XMOREC \in 0..XMOREC
           /\ ent[e].XMOREP \in BOOLEAN /\ ent[e].XMOREF \in BOOLEAN
           /\ ent[e].XBUSY \in BOOLEAN /\ wait[e] \in BOOLEAN
  BY DEF TypeOK, ENTITY

\* The stage of an entity and what is known of it.
LEMMA StageOf ==
    ASSUME NEW g, Whole(g), NEW e \in Entity
    PROVE  /\ (ent[e].Id # 0 <=> g.st[e] \in {"idle", "queued", "sent"})
           /\ (ent[e].Id # 0 => HasSlot(e))
           /\ (ent[e].Id # 0 /\ wait[e] <=> g.st[e] \in {"queued", "sent"})
           /\ (ent[e].Id # 0 /\ ~wait[e] <=> g.st[e] = "idle")
           /\ (ent[e].Id = 0 /\ ~wait[e] <=> g.st[e] = "none")
  BY Parts DEF EntityAt, Stage

\* No two entities have the same Id.
LEMMA UniqueId ==
    ASSUME NEW g, Whole(g), NEW e \in Entity, NEW f \in Entity,
           ent[e].Id = ent[f].Id, ent[e].Id # 0
    PROVE  e = f
  <1>1. HasSlot(e) /\ HasSlot(f) BY StageOf
  <1>2. ent[e].Id \in Ids BY EntityTypes, Parts
  <1>3. IdTableSound /\ Ctl BY Parts
  <1>4. \/ IdTable[ent[e].Id] = ent[e].No
        \/ cur = [i |-> ent[e].No, Id |-> ent[e].Id, ok |-> TRUE]
    BY <1>3 DEF IdTableSound
  <1>5. \/ IdTable[ent[e].Id] = ent[f].No
        \/ cur = [i |-> ent[f].No, Id |-> ent[e].Id, ok |-> TRUE]
    BY <1>3 DEF IdTableSound
  <1>6. 0 \notin Slot BY DEF Slot
  <1>7. cur.ok => IdTable[cur.Id] = 0 BY <1>3 DEF Ctl
  <1>8. ent[e].No = ent[f].No BY <1>1, <1>4, <1>5, <1>6, <1>7 DEF HasSlot
  <1>9. QED BY <1>1, <1>8 DEF HasSlot

\* The entity of an Id that the card still answers for has a request.
LEMMA HasRequest ==
    ASSUME NEW g, Whole(g), NEW e \in Entity, NEW d, d = ent[e].Id, d # 0
    PROVE  /\ (Plain(g, d) # {} \/ Sent(g, d) # {} => g.st[e] \in {"queued", "sent"})
           /\ (g.st[e] \in {"idle"} => Plain(g, d) = {} /\ Sent(g, d) = {})
           /\ (ent[e].XMOREC = 0 => Plain(g, d) = {} /\ Sent(g, d) = {})
           /\ (ent[e].XMOREC = 1 /\ Plain(g, d) # {} => Sent(g, d) = {})
           /\ (ent[e].XMOREC = 1 /\ Sent(g, d) # {} => Plain(g, d) = {})
           /\ ent[e].XMOREC = Cardinality(Plain(g, d)) + Cardinality(Sent(g, d))
  <1>1. Msgs(g, e) /\ GhostType(g) BY Parts
  <1>2. ent[e].XMOREC = Cardinality(Plain(g, d)) + Cardinality(Sent(g, d))
    BY <1>1 DEF Msgs
  <1>3. Plain(g, d) # {} \/ Sent(g, d) # {} => g.st[e] \in {"queued", "sent"}
    BY <1>1 DEF Msgs, SentAt, PlainAt
  <1>4. QED BY <1>1, <1>2, <1>3, FiniteMsgs

-----------------------------------------------------------------------------
(* What a step keeps of the parts of the invariant *)

\* The step leaves entity f, what its client knows and its stage alone.
SameEnt(g, h, f) == ent'[f] = ent[f] /\ wait'[f] = wait[f] /\ h.st[f] = g.st[f]

\* A step that leaves an entity alone keeps EntityAt.
LEMMA EntityFrame ==
    ASSUME NEW f, NEW s, EntityAt(f, s), ent'[f] = ent[f], wait'[f] = wait[f],
           HasSlot(f) => HasSlot(f)', NoSlot(f) => NoSlot(f)'
    PROVE  EntityAt(f, s)'
  BY DEF EntityAt

\* A step that leaves the request queue and the slots in it alone keeps Queue.
LEMMA QueueFrame ==
    ASSUME NEW g, NEW h, GhostType(g), TypeOK, Queue(g), h.q = g.q, h.out = g.out,
           UNCHANGED <<head, tail, next>>,
           \A k \in QLive(g) : tbl'[g.q[k]] = tbl[g.q[k]],
           \A e \in Entity : ent'[e].No = ent[e].No,
           \A e \in Entity : h.st[e] \in {"asks", "queued"} <=> g.st[e] \in {"asks", "queued"},
           \A k \in QLive(g) : cur'.i # g.q[k] \/ cur'.ok
    PROVE  Queue(h)'
  <1>1. QLive(h) = QLive(g) BY DEF QLive
  <1>2. \A k \in QLive(g) : g.q[k] \in Slot
    BY GhostParts DEF QLive
  <1>3. \A k \in QLive(g) : tbl[g.q[k]] \in Entity
    BY <1>2 DEF TypeOK, Queue
  <1>4. \A k \in QLive(h) : 
          /\ tbl'[h.q[k]] # Null /\ ent'[tbl'[h.q[k]]].No = h.q[k]
          /\ h.st[tbl'[h.q[k]]] \in {"asks", "queued"}
          /\ cur'.i # h.q[k] \/ cur'.ok
    BY <1>1, <1>3 DEF Queue
  <1>5. QED BY <1>1, <1>4 DEF Queue

\* A step that leaves the assign list and the slots in it alone keeps Assigns.
LEMMA AssignsFrame ==
    ASSUME NEW g, NEW h, GhostType(g), TypeOK, Assigns(g), h.S = g.S, h.done = g.done,
           UNCHANGED <<assign, ref>>,
           \A k \in SLive(g) : next'[g.S[k]] = next[g.S[k]],
           \A k \in SLive(g) : tbl'[g.S[k]] = tbl[g.S[k]],
           \A e \in Entity : g.st[e] = "asked" => ent'[e].No = ent[e].No,
           \A e \in Entity : h.st[e] = "asked" <=> g.st[e] = "asked",
           \A k \in SLive(g) : cur'.i # g.S[k]
    PROVE  Assigns(h)'
  <1>1. SLive(h) = SLive(g) BY DEF SLive
  <1>2. \A k \in SLive(g) : g.S[k] \in Slot
    BY GhostParts DEF SLive
  <1>3. \A k \in SLive(g) : tbl[g.S[k]] \in Entity
    BY <1>2 DEF TypeOK, Assigns
  <1>4. \A k \in SLive(h) : 
          /\ tbl'[h.S[k]] # Null /\ ent'[tbl'[h.S[k]]].No = h.S[k] /\ ref'[h.S[k]] # 0
          /\ h.st[tbl'[h.S[k]]] = "asked"
          /\ cur'.i # h.S[k]
    BY <1>1, <1>3 DEF Assigns
  <1>5. QED BY <1>1, <1>4 DEF Assigns

\* Messages that are no answers to an ASSIGN, or ASSIGNs, come and go.
LEMMA RefsFrame ==
    ASSUME NEW g, NEW h, GhostType(g), Assigns(g), Refs(g), SameItems(g, h),
           h.S = g.S, h.done = g.done, h.ans = g.ans, UNCHANGED ref,
           \A k \in RLive(g) : k \in RLive(h) \/ g.R[k].Reference = 0,
           \A k \in RLive(h) : k \in RLive(g) \/ h.R[k].Reference = 0,
           \A k \in RqLive(g) : k \in RqLive(h) \/ g.Q[k].Reference = 0,
           \A k \in RqLive(h) : k \in RqLive(g) \/ h.Q[k].Reference = 0
    PROVE  Refs(h)'
  <1>1. \A n \in (g.done+1)..Len(g.S) : ref[g.S[n]] # 0
    BY DEF Assigns, SLive
  <1>2. /\ \A n \in (g.done+1)..g.ans : n \in (g.done+1)..Len(g.S)
        /\ \A n \in (g.ans+1)..Len(g.S) : n \in (g.done+1)..Len(g.S)
    BY GhostParts
  <1>3. \A n \in (g.done+1)..g.ans : ref[g.S[n]] # 0 BY <1>1, <1>2
  <1>4. \A n \in (g.ans+1)..Len(g.S) : ref[g.S[n]] # 0 BY <1>1, <1>2
  <1>5. \A n \in (h.done+1)..h.ans : \E p \in RLive(h) : h.R[p].Reference = ref'[h.S[n]]
    BY <1>3 DEF Refs, SameItems
  <1>6. \A n \in (h.ans+1)..Len(h.S) : \E p \in RqLive(h) : h.Q[p].Reference = ref'[h.S[n]]
    BY <1>4 DEF Refs, SameItems
  <1>7. \A p \in RLive(h) : h.R[p].Reference # 0 =>
           \E n \in (h.done+1)..h.ans : h.R[p].Reference = ref'[h.S[n]]
    BY DEF Refs, SameItems
  <1>8. \A p \in RqLive(h) : h.Q[p].Reference # 0 =>
           \E n \in (h.ans+1)..Len(h.S) : h.Q[p].Reference = ref'[h.S[n]]
    BY DEF Refs, SameItems
  <1>9. \A p, r \in RLive(h), m, n \in (h.done+1)..h.ans : 
          h.R[p].Reference = ref'[h.S[m]] /\ h.R[r].Reference = ref'[h.S[n]] /\ p < r => m < n
    BY <1>3 DEF Refs, SameItems
  <1>10. \A p, r \in RqLive(h), m, n \in (h.ans+1)..Len(h.S) : 
          h.Q[p].Reference = ref'[h.S[m]] /\ h.Q[r].Reference = ref'[h.S[n]] /\ p < r => m < n
    BY <1>4 DEF Refs, SameItems
  <1>11. QED BY <1>5, <1>6, <1>7, <1>8, <1>9, <1>10, Zenon DEF Refs

\* A step that leaves the messages about an entity alone keeps its Msgs.
LEMMA MsgsFrame ==
    ASSUME NEW g, NEW h, NEW f, Msgs(g, f), SameEnt(g, h, f), SameItems(g, h),
           SameMsgs(g, h, ent[f].Id)
    PROVE  Msgs(h, f)'
  <1> DEFINE d == ent[f].Id
  <1>1. CASE d = 0 BY <1>1 DEF Msgs, SameEnt
  <1>2. CASE d # 0
    <2>0. ent'[f].Id = d BY DEF SameEnt
    <2>1. \A k \in Sent(h, d) : SentAt(g, f, k) /\ h.Q[k] = g.Q[k]
      BY <1>2 DEF Msgs, SameMsgs, SameItems, Sent
    <2>2. \A k \in Sent(h, d) : SentAt(h, f, k)'
      BY <2>1 DEF SentAt, SameMsgs, SameEnt
    <2>3. \A k \in Plain(h, d) : PlainAt(g, f, k) /\ h.R[k] = g.R[k]
      BY <1>2 DEF Msgs, SameMsgs, SameItems, Plain
    <2>4. \A k \in Plain(h, d) : PlainAt(h, f, k)'
      BY <2>3 DEF PlainAt, SameMsgs, SameEnt, Removing
    <2>5. \A k \in Labels(h, d) : Owner[h.R[k].RcCh] = f
      BY <1>2 DEF Msgs, SameMsgs, SameItems, Labels
    <2>6. ent'[f].XMOREC = Cardinality(Plain(h, d)) + Cardinality(Sent(h, d))
      BY <1>2 DEF Msgs, SameMsgs, SameEnt
    <2>7. QED BY <2>0, <2>2, <2>4, <2>5, <2>6 DEF Msgs
  <1>3. QED BY <1>1, <1>2

\* The sets of messages that Flow is about.
SameLabs(g, h, c, d) ==
    /\ Lab(h, c, d) = Lab(g, c, d)
    /\ \A rc \in RcCode : Says(h, c, d, rc) = Says(g, c, d, rc)

\* The same messages are the same on every channel.
LEMMA LabsFrame ==
    ASSUME NEW g, NEW h, SameItems(g, h), NEW c, NEW d, SameMsgs(g, h, d)
    PROVE  SameLabs(g, h, c, d)
  <1>1. Lab(h, c, d) = Lab(g, c, d)
    BY DEF Lab, SameMsgs, SameItems, Labels
  <1>2. \A rc \in RcCode : Says(h, c, d, rc) = Says(g, c, d, rc)
    BY DEF Says, SameMsgs, SameItems, Plain
  <1>3. QED BY <1>1, <1>2 DEF SameLabs

\* A step that leaves a channel, its owner and its messages alone keeps Flow.
LEMMA FlowFrame ==
    ASSUME NEW g, NEW h, NEW c, Flow(g, c), NEW e, e = Owner[c],
           ent'[e].Id = ent[e].Id, ent'[e].No = ent[e].No, ent'[e].Req = ent[e].Req,
           ent'[e].ReqCh = ent[e].ReqCh, wait'[e] = wait[e],
           SameLabs(g, h, c, ent[e].Id),
           <<c, ent[e].Id>> \in held' <=> <<c, ent[e].Id>> \in held,
           c \in clFc' <=> c \in clFc, c \in fcPend' <=> c \in fcPend,
           c \in clSkip => c \in clSkip', fcId'[c] = fcId[c],
           ent[e].No \in noCancel => ent[e].No \in noCancel'
    PROVE  Flow(h, c)'
  <1>1. {"OK", "OK_FC", "ERR"} \subseteq RcCode BY DEF RcCode
  <1> DEFINE d == ent[e].Id
  <1>2. /\ Lab(h, c, d) = Lab(g, c, d) /\ Says(h, c, d, "OK_FC") = Says(g, c, d, "OK_FC")
        /\ Says(h, c, d, "OK") = Says(g, c, d, "OK")
        /\ Says(h, c, d, "ERR") = Says(g, c, d, "ERR")
    BY <1>1 DEF SameLabs
  <1>3. QED BY <1>2 DEF Flow

\* A step that leaves an id and its messages alone keeps IdAt.
LEMMA IdFrame ==
    ASSUME NEW g, NEW h, NEW d, IdAt(g, d), SameItems(g, h), SameMsgs(g, h, d),
           d \in cardIds' <=> d \in cardIds,
           \A x \in held' : x[2] = d => x \in held,
           \A j \in RLive(h) : j \in RLive(g) \/ h.R[j].RcId # d,
           \A f \in Entity : ent'[f].Id = d =>
               ent[f].Id = d /\ (Removing(g, f) => Removing(h, f)'),
           Unowned(d)' /\ ~Unowned(d) => \A k \in Sent(g, d) : g.Q[k].Req = "REMOVE"
    PROVE  IdAt(h, d)'
  <1>1. Sent(h, d) = Sent(g, d) /\ News(h, d) = News(g, d) BY DEF SameMsgs
  <1>2. \A k \in Sent(h, d) : 
           /\ d \in cardIds'
           /\ (Unowned(d)' => h.Q[k].Req = "REMOVE")
           /\ (h.Q[k].Req = "REMOVE" => \A j \in Sent(h, d) : j = k)
    BY <1>1 DEF IdAt, SameItems, Sent
  <1>3. \A k \in News(h, d) :
         /\ d \in cardIds' /\ Sent(h, d) = {}
         /\ \A x \in held' : x[2] # d
         /\ \A j \in RLive(h) : j > k => h.R[j].RcId # d
    BY <1>1 DEF IdAt, SameItems
  <1>4. \A f \in Entity : 
         ent'[f].Id = d /\ (d \notin cardIds' \/ News(h, d) # {}) => Removing(h, f)'
    BY <1>1 DEF IdAt
  <1>5. QED BY <1>2, <1>3, <1>4 DEF IdAt

\* A channel stays held, its entity may get an Id no more.
LEMMA HoldFrame ==
    ASSUME NEW g, NEW h, GhostType(g), NEW c, NEW d, HoldAt(g, c, d), SameItems(g, h),
           d \in cardIds',
           \A k \in Sent(g, d) : k \in Sent(h, d),
           NEW e, e = Owner[c],
           ent'[e].Id = ent[e].Id, Removing(h, e)' => Removing(g, e),
           Unowned(d) => Unowned(d)',
           h.S = g.S, h.done = g.done, UNCHANGED ref,
           \A k \in SLive(g) : tbl'[g.S[k]] = e => tbl[g.S[k]] = e,
           \A k \in RqLive(g) : k \in RqLive(h) \/ g.Q[k].Reference = 0,
           \A k \in SLive(g) : ref[g.S[k]] # 0
    PROVE  HoldAt(h, c, d)'
  <1>1. SLive(h) = SLive(g) BY DEF SLive
  <1>2. CASE ent[e].Id = d /\ (Removing(g, e) => Sent(g, d) # {})
    BY <1>2 DEF HoldAt
  <1>3. CASE Unowned(d) /\ ent[e].Id = 0
    <2>1. CASE \E p \in Sent(g, d) : \A k \in SLive(g) : tbl[g.S[k]] = e =>
                \E r \in RqLive(g) : r > p /\ g.Q[r].Reference = ref[g.S[k]]
      <3>1. PICK p \in Sent(g, d) : \A k \in SLive(g) : tbl[g.S[k]] = e =>
                \E r \in RqLive(g) : r > p /\ g.Q[r].Reference = ref[g.S[k]]
        BY <2>1
      <3>2. \A k \in SLive(h) : tbl'[h.S[k]] = e =>
                \E r \in RqLive(h) : r > p /\ h.Q[r].Reference = ref'[h.S[k]]
        BY <1>1, <3>1 DEF SameItems
      <3>3. p \in Sent(h, d) BY <3>1
      <3>4. QED BY <1>3, <3>2, <3>3 DEF HoldAt
    <2>2. CASE ent[e].Id = d /\ (Removing(g, e) => Sent(g, d) # {}) BY <1>2, <2>2
    <2>3. QED BY <2>1, <2>2 DEF HoldAt
  <1>4. QED BY <1>2, <1>3 DEF HoldAt

-----------------------------------------------------------------------------
(* Return codes for a known Id *)

\* isdn_rc took the next return code.
Took(g, h, st) == h = Mk(g.q, g.out, g.S, g.done, g.ans, g.R, g.got + 1, g.Q, g.tk, st)

\* isdn_rc() has taken the first return code: what that does to the history.
LEMMA TookParts ==
    ASSUME NEW g, GhostType(g), Pipes(g), TypeOK, rcBuf # <<>>,
           NEW st \in [Entity -> Stage], NEW h, Took(g, h, st)
    PROVE  /\ GhostType(h) /\ h.q = g.q /\ h.out = g.out /\ h.S = g.S /\ h.done = g.done
           /\ h.ans = g.ans /\ h.R = g.R /\ h.got = g.got + 1 /\ h.Q = g.Q
           /\ h.tk = g.tk /\ h.st = st
  <1>1. /\ h.q = g.q /\ h.out = g.out /\ h.S = g.S /\ h.done = g.done
        /\ h.ans = g.ans /\ h.R = g.R /\ h.got = g.got + 1 /\ h.Q = g.Q
        /\ h.tk = g.tk /\ h.st = st
    BY MkParts DEF Took
  <1>2. g.got + 1 \in Nat BY GhostParts
  <1>3. h \in Ghost BY <1>2, GhostParts, MkParts DEF Took
  <1>4. h.got <= Len(h.R)
    <2>1. Len(g.R) = g.got + Len(rcBuf) + Len(outq) BY DEF Pipes
    <2>2. Len(rcBuf) \in Nat /\ Len(rcBuf) >= 1 /\ Len(outq) \in Nat BY DEF TypeOK
    <2>3. g.got \in Nat BY GhostParts
    <2>4. QED BY <1>1, <2>1, <2>2, <2>3
  <1>5. QED BY <1>1, <1>3, <1>4, GhostParts DEF GhostType

\* A return code for a known Id is no answer to an ASSIGN, and what it answers
\* is known.
LEMMA KnownIs ==
    ASSUME XdiAssumption, NEW g, Whole(g), NEW i \in Slot, NEW e \in Entity, NEW r,
           Known(r, i, e)
    PROVE  /\ r = g.R[g.got + 1] /\ g.got + 1 \in RLive(g) /\ r \in RC
           /\ r.RcId = ent[e].Id /\ ent[e].Id # 0 /\ ent[e].Id \in Ids
           /\ tbl[i] = e /\ ent[e].No = i /\ cur.i = 0 /\ HasSlot(e)
           /\ r.Rc \in {"OK", "OK_FC", "ERR"} /\ RcForm(r) /\ r.Reference = 0
           /\ (r.Ext # "OK_FC" => g.got + 1 \in Plain(g, ent[e].Id) /\ PlainAt(g, e, g.got + 1))
           /\ (r.Ext = "OK_FC" => /\ g.got + 1 \in Labels(g, ent[e].Id)
                                  /\ r.Rc = "OK" /\ r.RcCh \in Chan /\ Owner[r.RcCh] = e)
  <1> DEFINE p == g.got + 1
  <1>1. rcBuf # <<>> /\ r = Head(rcBuf) /\ r.RcId # 0 /\ i = IdTable[r.RcId] /\ e = tbl[i]
        /\ pc = "rc" /\ r.Rc # "READY_INT"
    BY DEF Known, InRc
  <1>2. TypeOK /\ GhostType(g) /\ Pipes(g) /\ Forms(g) /\ IdTableSound /\ Ctl /\ Msgs(g, e)
    BY Parts
  <1>3. 1 \in 1..Len(rcBuf) /\ Head(rcBuf) = rcBuf[1] /\ Len(outq) \in Nat /\ Len(rcBuf) \in Nat
    <2>1. rcBuf \in Seq(RC) /\ outq \in Seq(RC) BY <1>2 DEF TypeOK
    <2>2. QED BY <2>1, <1>1
  <1>4. r = g.R[p]
    <2>1. rcBuf[1] = g.R[g.got + 1] BY <1>2, <1>3 DEF Pipes
    <2>2. QED BY <2>1, <1>3, <1>1
  <1>5. p \in RLive(g)
    <2>1. Len(g.R) = g.got + Len(rcBuf) + Len(outq) BY <1>2 DEF Pipes
    <2>2. g.got \in Nat BY <1>2, GhostParts
    <2>3. QED BY <2>1, <2>2, <1>3 DEF RLive
  <1>6. r \in RC BY <1>1, <1>2, ReturnCode
  <1>7. RcForm(r) BY <1>2, <1>4, <1>5 DEF Forms
  <1>8. r.RcId \in Ids BY <1>1, <1>6 DEF RC
  <1>9. i # 0 BY DEF Slot
  <1>10. ent[e].Id = r.RcId /\ ent[e].No = i
    BY <1>1, <1>2, <1>8, <1>9 DEF IdTableSound
  <1>11. cur.i = 0 BY <1>1, <1>2 DEF Ctl
  <1>12. HasSlot(e) BY <1>1, <1>10 DEF HasSlot
  <1>13. r.Rc # "ASSIGN_OK"
    <2> SUFFICES ASSUME r.Rc = "ASSIGN_OK" PROVE FALSE OBVIOUS
    <2>1. p \in News(g, r.RcId) BY <1>4, <1>5 DEF News
    <2>2. IdAt(g, r.RcId) BY <1>8, Parts
    <2>3. Sent(g, r.RcId) = {} /\ \A j \in RLive(g) : j > p => g.R[j].RcId # r.RcId
      BY <2>1, <2>2 DEF IdAt
    <2>4. Removing(g, e) BY <2>1, <2>2, <1>10 DEF IdAt
    <2>5. Plain(g, r.RcId) = {}
      <3> SUFFICES ASSUME NEW k \in Plain(g, r.RcId) PROVE FALSE OBVIOUS
      <3>1. k \in RLive(g) /\ RcKey(g.R[k]) = r.RcId BY DEF Plain
      <3>2. k # p BY <3>1, <1>4, <1>1 DEF RcKey
      <3>3. k > p BY <3>1, <3>2, <1>2, GhostParts DEF RLive
      <3>4. g.R[k].RcId # r.RcId BY <3>1, <3>3, <2>3
      <3>5. QED BY <3>1, <3>4, <1>1 DEF RcKey
    <2>6. ent[e].XMOREC = 0
      BY <2>3, <2>5, <1>10, <1>1, HasRequest, FiniteMsgs, <1>2
    <2>7. EntityAt(e, g.st[e]) BY Parts
    <2>8. QED BY <2>4, <2>6, <2>7 DEF EntityAt, Removing
  <1>14. r.Rc \in {"OK", "OK_FC", "ERR"} /\ r.Reference = 0
    BY <1>1, <1>6, <1>7, <1>13 DEF RcForm, RC, RcCode
  <1>15. r.Ext # "OK_FC" => p \in Plain(g, ent[e].Id) /\ PlainAt(g, e, p)
    <2> SUFFICES ASSUME r.Ext # "OK_FC" PROVE p \in Plain(g, ent[e].Id) /\ PlainAt(g, e, p)
      OBVIOUS
    <2>1. p \in Plain(g, ent[e].Id) BY <1>4, <1>5, <1>10, <1>13 DEF Plain, RcKey
    <2>2. QED BY <2>1, <1>2, <1>1, <1>10 DEF Msgs
  <1>16. r.Ext = "OK_FC" => /\ p \in Labels(g, ent[e].Id)
                            /\ r.Rc = "OK" /\ r.RcCh \in Chan /\ Owner[r.RcCh] = e
    <2> SUFFICES ASSUME r.Ext = "OK_FC"
                 PROVE  /\ p \in Labels(g, ent[e].Id)
                        /\ r.Rc = "OK" /\ r.RcCh \in Chan /\ Owner[r.RcCh] = e
      OBVIOUS
    <2>1. p \in Labels(g, ent[e].Id) BY <1>4, <1>5, <1>10 DEF Labels
    <2>2. Owner[r.RcCh] = e BY <2>1, <1>2, <1>1, <1>4, <1>10 DEF Msgs
    <2>3. QED BY <2>1, <2>2, <1>7 DEF RcForm
  <1>17. QED BY <1>1, <1>4, <1>5, <1>6, <1>7, <1>8, <1>10, <1>11, <1>12, <1>14, <1>15, <1>16

\* What is true of a step of isdn_rc that leaves e its Id.
RcKeepStep(g, h, e, s) ==
    /\ e \in Entity /\ s \in Stage
    /\ pc = "rc" /\ rcBuf # <<>> /\ rcBuf' = Tail(rcBuf)
    /\ Head(rcBuf).RcId = ent[e].Id /\ ent[e].Id # 0
    /\ Head(rcBuf).Rc # "ASSIGN_OK" /\ Head(rcBuf).Reference = 0
    /\ UNCHANGED <<tbl, next, ref, queueVars, IdTable, rmPending, trapped, pc,
                   phase, cur, irq, outq, inbox, batch, cardIds, held>>
    /\ Took(g, h, [g.st EXCEPT ![e] = s])
    /\ \A f \in Entity : f # e => ent'[f] = ent[f] /\ wait'[f] = wait[f]
    /\ ent'[e].Id = ent[e].Id /\ ent'[e].No = ent[e].No
    /\ ent'[e].Req = ent[e].Req /\ ent'[e].ReqCh = ent[e].ReqCh
    /\ s = g.st[e] \/ (g.st[e] = "sent" /\ s = "idle" /\ ent[e].Req # "REMOVE")
    /\ EntityAt(e, s)' /\ Msgs(h, e)'
    /\ \A c \in Chan : Owner[c] # e =>
         /\ (c \in fcPend' <=> c \in fcPend) /\ (c \in clFc' <=> c \in clFc)
         /\ (c \in clSkip => c \in clSkip') /\ fcId'[c] = fcId[c]
    /\ noCancel \subseteq noCancel'
    /\ clFc' \subseteq fcPend' /\ 0 \notin fcPend' /\ fcId'[0] = 0
    /\ \A c \in Chan : Owner[c] = e =>
         /\ Flow(h, c)'
         /\ (c \in clFc' => fcId'[c] = ent[e].Id)
         /\ (fcId'[c] # 0 => fcId'[c] = ent[e].Id)

\* A return code that leaves the entity with its id and its slot keeps the
\* invariant when it keeps the parts that RcKeepStep lists.
LEMMA RcKeep ==
    ASSUME XdiAssumption, NEW g, Whole(g), TypeOK', NEW h, NEW e, NEW s,
           RcKeepStep(g, h, e, s)
    PROVE  Whole(h)'
  <1> DEFINE d == ent[e].Id
             p == g.got + 1
             st == [g.st EXCEPT ![e] = s]
  <1>1. /\ TypeOK /\ Ctl /\ IdTableSound /\ NoTrap
        /\ GhostType(g) /\ Pipes(g) /\ Forms(g)
        /\ Queue(g) /\ Assigns(g) /\ Refs(g)
        /\ Pending(g) /\ Flows(g) /\ held \subseteq Chan \X Ids
    BY Parts
  <1>2. e \in Entity /\ s \in Stage /\ rcBuf # <<>> /\ rcBuf' = Tail(rcBuf)
        /\ Took(g, h, st) /\ UNCHANGED <<outq, inbox, batch>>
    BY DEF RcKeepStep
  <1>3. st \in [Entity -> Stage] BY <1>1, <1>2, GhostParts
  <1>4. /\ GhostType(h) /\ h.q = g.q /\ h.out = g.out /\ h.S = g.S /\ h.done = g.done
        /\ h.ans = g.ans /\ h.R = g.R /\ h.got = g.got + 1 /\ h.Q = g.Q
        /\ h.tk = g.tk /\ h.st = st
    BY <1>1, <1>2, <1>3, TookParts
  <1>5. /\ Pipes(h)' /\ SameItems(g, h)
        /\ p \in RLive(g) /\ Head(rcBuf) = g.R[p]
        /\ RLive(h) = RLive(g) \ {p} /\ RqLive(h) = RqLive(g)
        /\ \A k \in RLive(g) : p <= k
    BY <1>1, <1>2, <1>4, TakeRc
  <1>6. \A f \in Entity : f # e => SameEnt(g, h, f)
    BY <1>1, <1>3, <1>4, GhostParts DEF RcKeepStep, SameEnt
  <1>7. g.R[p].RcId = d /\ g.R[p].Rc # "ASSIGN_OK" /\ g.R[p].Reference = 0 /\ d # 0
    BY <1>5 DEF RcKeepStep
  <1>8. \A x : x # 0 /\ x # d => SameMsgs(g, h, x)
    BY <1>5, <1>7, TakeView
  <1>9. Sent(h, d) = Sent(g, d) /\ News(h, d) = News(g, d)
    BY <1>5, <1>7, TakeView DEF News
  <1>10. \A f \in Entity : f # e => ent[f].Id # d
    BY <1>2, <1>7, UniqueId
  <1>11. \A f \in Entity : ent'[f].Id = ent[f].Id /\ ent'[f].No = ent[f].No
            /\ ent'[f].Req = ent[f].Req
    BY DEF RcKeepStep
  <1>12. h.st[e] = s /\ \A f \in Entity : f # e => h.st[f] = g.st[f]
    BY <1>1, <1>2, <1>3, <1>4, GhostParts
  <1>13. g.st[e] \in {"idle", "queued", "sent"}
    BY <1>2, <1>7, StageOf
  <1>14. s = g.st[e] \/ (g.st[e] = "sent" /\ s = "idle" /\ ent[e].Req # "REMOVE")
    BY DEF RcKeepStep
  <1>15. \A f \in Entity : /\ h.st[f] \in {"asks", "queued"} <=> g.st[f] \in {"asks", "queued"}
                           /\ h.st[f] = "asked" <=> g.st[f] = "asked"
                           /\ Removing(h, f)' <=> Removing(g, f)
    BY <1>11, <1>12, <1>14 DEF Removing
  <1>16. UNCHANGED <<tbl, next, ref, head, tail, assign, IdTable, rmPending, trapped, pc,
                     phase, cur, irq, cardIds, held>>
    BY DEF RcKeepStep, queueVars
  <1>17. Ctl'
    BY <1>1, <1>2, <1>11, <1>16 DEF Ctl, RcKeepStep
  <1>18. IdTableSound'
    <2>1. \A x \in Ids : IdTable[x] # 0 => tbl[IdTable[x]] \in Entity
      <3>0. EMax \in Nat /\ \A x \in Ids : IdTable[x] \in 0..EMax
        BY <1>1 DEF TypeOK, XdiAssumption
      <3>1. \A x \in Ids : IdTable[x] # 0 => IdTable[x] \in Slot BY <3>0 DEF Slot
      <3>2. QED BY <3>1, <1>1 DEF IdTableSound, TypeOK
    <2>2. \A i \in Slot : tbl[i] # Null => tbl[i] \in Entity
      BY <1>1 DEF TypeOK
    <2>3. QED BY <1>1, <1>11, <1>16, <2>1, <2>2 DEF IdTableSound
  <1>19. NoTrap' BY <1>1, <1>16 DEF NoTrap
  <1>20. Forms(h) BY <1>1, <1>5 DEF Forms, SameItems
  <1>21. \A f \in Entity : EntityAt(f, h.st[f])'
    <2> TAKE f \in Entity
    <2>1. CASE f = e BY <2>1, <1>12 DEF RcKeepStep
    <2>2. CASE f # e
      <3>1. EntityAt(f, g.st[f]) BY Parts
      <3>2. EntityAt(f, g.st[f])'
        BY <3>1, <2>2, <1>6, <1>16, EntityFrame DEF SameEnt, HasSlot, NoSlot
      <3>3. QED BY <3>2, <2>2, <1>12
    <2>3. QED BY <2>1, <2>2
  <1>22. Queue(h)'
    <2>1. \A k \in QLive(g) : cur'.i # g.q[k] \/ cur'.ok
      BY <1>1, <1>16 DEF Queue
    <2>2. QED BY <1>1, <1>4, <1>11, <1>15, <1>16, <2>1, QueueFrame
  <1>23. Assigns(h)'
    <2>1. \A k \in SLive(g) : cur'.i # g.S[k]
      BY <1>1, <1>16 DEF Assigns
    <2>2. QED BY <1>1, <1>4, <1>11, <1>15, <1>16, <2>1, AssignsFrame
  <1>24. Refs(h)'
    BY <1>1, <1>4, <1>5, <1>7, <1>16, RefsFrame
  <1>25. \A x \in Ids : IdAt(h, x)'
    <2> TAKE x \in Ids
    <2>1. IdAt(g, x) BY Parts
    <2>2. Unowned(x)' <=> Unowned(x) BY <1>11 DEF Unowned
    <2>3. CASE x # d
      <3>1. SameMsgs(g, h, x) BY <2>3, <1>8 DEF XdiAssumption
      <3>2. QED BY <2>1, <2>2, <3>1, <1>5, <1>11, <1>15, <1>16, IdFrame
    <2>4. CASE x = d
      <3>1. \A k \in Sent(h, x) : /\ x \in cardIds'
                                  /\ (Unowned(x)' => h.Q[k].Req = "REMOVE")
                                  /\ (h.Q[k].Req = "REMOVE" => \A j \in Sent(h, x) : j = k)
        BY <2>1, <2>2, <2>4, <1>4, <1>9, <1>16 DEF IdAt
      <3>2. \A k \in News(h, x) :
               /\ x \in cardIds' /\ Sent(h, x) = {}
               /\ \A y \in held' : y[2] # x
               /\ \A j \in RLive(h) : j > k => h.R[j].RcId # x
        BY <2>1, <2>4, <1>4, <1>5, <1>9, <1>16 DEF IdAt
      <3>3. \A f \in Entity :
              ent'[f].Id = x /\ (x \notin cardIds' \/ News(h, x) # {}) => Removing(h, f)'
        BY <2>1, <2>4, <1>9, <1>11, <1>15, <1>16 DEF IdAt
      <3>4. QED BY <2>4, <3>1, <3>2, <3>3 DEF IdAt
    <2>5. QED BY <2>3, <2>4
  <1>26. \A c \in Chan, x \in Ids : <<c, x>> \in held' => HoldAt(h, c, x)'
    <2> TAKE c \in Chan, x \in Ids
    <2> HAVE <<c, x>> \in held'
    <2>1. HoldAt(g, c, x) BY <1>16, Parts
    <2>2. Owner[c] \in Entity BY DEF XdiAssumption
    <2>3. Unowned(x)' <=> Unowned(x) BY <1>11 DEF Unowned
    <2>4. Sent(h, x) = Sent(g, x)
      BY <1>8, <1>9 DEF SameMsgs, XdiAssumption
    <2>5. \A k \in SLive(g) : ref[g.S[k]] # 0 BY <1>1 DEF Assigns
    <2>6. x \in cardIds BY <2>1 DEF HoldAt
    <2>7. QED BY <2>1, <2>2, <2>3, <2>4, <2>5, <2>6, <1>1, <1>4, <1>5, <1>11, <1>15, <1>16,
                 HoldFrame
  <1>27. held' \subseteq Chan \X Ids BY <1>1, <1>16
  <1>28. \A f \in Entity : Msgs(h, f)'
    <2> TAKE f \in Entity
    <2>1. CASE f = e BY <2>1 DEF RcKeepStep
    <2>2. CASE f # e
      <3>1. Msgs(g, f) BY Parts
      <3>2. CASE ent[f].Id = 0 BY <3>2, <1>11 DEF Msgs
      <3>3. CASE ent[f].Id # 0
        <4>1. SameMsgs(g, h, ent[f].Id) BY <3>3, <2>2, <1>8, <1>10
        <4>2. QED BY <3>1, <4>1, <2>2, <1>5, <1>6, MsgsFrame
      <3>4. QED BY <3>2, <3>3
    <2>3. QED BY <2>1, <2>2
  <1>29. Pending(h)'
    <2>1. \A i \in Slot : tbl[i] # Null => tbl[i] \in Entity BY <1>1 DEF TypeOK
    <2>2. QED BY <1>1, <1>11, <1>15, <1>16, <2>1 DEF Pending
  <1>30. Flows(h)'
    <2>1. \A c \in Chan : Owner[c] \in Entity BY DEF XdiAssumption
    <2>2. \A c \in Chan : ent'[Owner[c]].Id # 0 => Flow(h, c)'
      <3> TAKE c \in Chan
      <3> HAVE ent'[Owner[c]].Id # 0
      <3>1. CASE Owner[c] = e BY <3>1 DEF RcKeepStep
      <3>2. CASE Owner[c] # e
        <4>1. Flow(g, c) BY <1>1, <1>11, <2>1 DEF Flows
        <4>2. SameMsgs(g, h, ent[Owner[c]].Id) BY <1>8, <1>10, <1>11, <2>1, <3>2
        <4>3. SameLabs(g, h, c, ent[Owner[c]].Id) BY <1>5, <4>2, LabsFrame
        <4>4. SameEnt(g, h, Owner[c]) BY <1>6, <2>1, <3>2
        <4>5. /\ (c \in fcPend' <=> c \in fcPend) /\ (c \in clFc' <=> c \in clFc)
              /\ (c \in clSkip => c \in clSkip') /\ fcId'[c] = fcId[c]
              /\ noCancel \subseteq noCancel'
          BY <3>2 DEF RcKeepStep
        <4>6. QED BY <4>1, <4>3, <4>4, <4>5, <1>16, FlowFrame DEF SameEnt
      <3>3. QED BY <3>1, <3>2
    <2>3. \A c \in Chan :
         /\ (c \in fcPend' => ent'[Owner[c]].Id # 0)
         /\ (c \in clFc' => fcId'[c] = ent'[Owner[c]].Id)
         /\ (fcId'[c] # 0 => fcId'[c] = ent'[Owner[c]].Id)
      BY <1>1, <1>7, <1>11, <2>1 DEF RcKeepStep, Flows
    <2>4. clFc' \subseteq fcPend' /\ 0 \notin fcPend' /\ fcId'[0] = 0 BY DEF RcKeepStep
    <2>5. QED BY <2>2, <2>3, <2>4 DEF Flows
  <1>31. Inv(h)'
    BY <1>4, <1>5, <1>20, <1>21, <1>22, <1>23, <1>24, <1>25, <1>26, <1>27, <1>28, <1>29,
       <1>30 DEF Inv
  <1>32. QED BY <1>17, <1>18, <1>19, <1>31 DEF Whole

\* What is known once isdn_rc has taken a return code for a known Id.
TakenStep(g, h, r, i, e, st) ==
    /\ i \in Slot /\ e \in Entity /\ Known(r, i, e)
    /\ rcBuf' = Tail(rcBuf) /\ UNCHANGED <<outq, inbox, batch>>
    /\ st \in [Entity -> Stage] /\ Took(g, h, st)

\* What every return code of a known entity does to the history.
LEMMA Taken ==
    ASSUME XdiAssumption, NEW g, Whole(g), NEW r, NEW i, NEW e, NEW h, NEW st,
           TakenStep(g, h, r, i, e, st), NEW p, p = g.got + 1,
           NEW d, d = r.RcId
    PROVE  /\ GhostType(h) /\ Pipes(h)' /\ SameItems(g, h)
           /\ h.q = g.q /\ h.out = g.out /\ h.S = g.S /\ h.done = g.done
           /\ h.ans = g.ans /\ h.R = g.R /\ h.got = p /\ h.Q = g.Q
           /\ h.tk = g.tk /\ h.st = st
           /\ RLive(h) = RLive(g) \ {p} /\ RqLive(h) = RqLive(g)
           /\ p \in RLive(g) /\ g.R[p] = r /\ \A k \in RLive(g) : p <= k
           /\ \A x : x # 0 /\ x # d => SameMsgs(g, h, x)
           /\ Sent(h, d) = Sent(g, d) /\ News(h, d) = News(g, d)
           /\ (r.Ext # "OK_FC" => /\ p \in Plain(g, d) /\ Plain(h, d) = Plain(g, d) \ {p}
                                  /\ Labels(h, d) = Labels(g, d))
           /\ (r.Ext = "OK_FC" => /\ p \in Labels(g, d) /\ Labels(h, d) = Labels(g, d) \ {p}
                                  /\ Plain(h, d) = Plain(g, d))
  <1>1. TypeOK /\ GhostType(g) /\ Pipes(g) BY Parts
  <1>2. /\ i \in Slot /\ e \in Entity /\ Known(r, i, e)
        /\ rcBuf' = Tail(rcBuf) /\ UNCHANGED <<outq, inbox, batch>>
        /\ st \in [Entity -> Stage] /\ Took(g, h, st)
    BY DEF TakenStep
  <1>3. rcBuf # <<>> /\ r.RcId # 0 BY <1>2 DEF Known, InRc
  <1>4. /\ GhostType(h) /\ h.q = g.q /\ h.out = g.out /\ h.S = g.S /\ h.done = g.done
        /\ h.ans = g.ans /\ h.R = g.R /\ h.got = g.got + 1 /\ h.Q = g.Q
        /\ h.tk = g.tk /\ h.st = st
    BY <1>1, <1>2, <1>3, TookParts
  <1>5. /\ Pipes(h)' /\ SameItems(g, h)
        /\ p \in RLive(g)
        /\ RLive(h) = RLive(g) \ {p} /\ RqLive(h) = RqLive(g)
        /\ \A k \in RLive(g) : p <= k
    BY <1>1, <1>2, <1>3, <1>4, TakeRc
  <1>6. /\ r = g.R[p] /\ r.RcId = ent[e].Id /\ r.Rc \in {"OK", "OK_FC", "ERR"}
        /\ (r.Ext # "OK_FC" => p \in Plain(g, ent[e].Id))
        /\ (r.Ext = "OK_FC" => p \in Labels(g, ent[e].Id))
    BY <1>2, KnownIs
  <1>7. \A x : /\ Plain(h, x) = Plain(g, x) \ {p} /\ Labels(h, x) = Labels(g, x) \ {p}
               /\ News(h, x) = News(g, x) \ {p} /\ Sent(h, x) = Sent(g, x)
               /\ (x # 0 /\ r.RcId # x => SameMsgs(g, h, x))
    <2>1. /\ p \in RLive(g) /\ SameItems(g, h) /\ RLive(h) = RLive(g) \ {p}
          /\ RqLive(h) = RqLive(g) /\ g.R[p] = r
      BY <1>5, <1>6
    <2>2. TAKE x
    <2>3. /\ Plain(h, x) = Plain(g, x) \ {p} /\ Labels(h, x) = Labels(g, x) \ {p}
          /\ News(h, x) = News(g, x) \ {p} /\ Sent(h, x) = Sent(g, x)
          /\ (x # 0 /\ g.R[p].RcId # x => SameMsgs(g, h, x))
      BY <2>1, TakeView
    <2>4. QED BY <2>1, <2>3
  <1>8. p \notin News(g, d) BY <1>6 DEF News
  <1>9. r.Ext # "OK_FC" => p \notin Labels(g, d) BY <1>6 DEF Labels
  <1>10. r.Ext = "OK_FC" => p \notin Plain(g, d) BY <1>3, <1>6 DEF Plain, RcKey
  <1>11. Sent(h, d) = Sent(g, d) /\ News(h, d) = News(g, d) BY <1>7, <1>8
  <1>12. r.Ext # "OK_FC" => /\ p \in Plain(g, d) /\ Plain(h, d) = Plain(g, d) \ {p}
                            /\ Labels(h, d) = Labels(g, d)
    BY <1>6, <1>7, <1>9
  <1>13. r.Ext = "OK_FC" => /\ p \in Labels(g, d) /\ Labels(h, d) = Labels(g, d) \ {p}
                            /\ Plain(h, d) = Plain(g, d)
    <2>1. Plain(h, d) = Plain(g, d) \ {p} /\ Labels(h, d) = Labels(g, d) \ {p} BY <1>7
    <2>2. r.Ext = "OK_FC" => p \in Labels(g, d) BY <1>6
    <2>3. QED BY <2>1, <2>2, <1>10
  <1>14. \A x : x # 0 /\ x # d => SameMsgs(g, h, x) BY <1>7
  <1>15. QED BY <1>4, <1>5, <1>6, <1>11, <1>12, <1>13, <1>14

\* A marked return code leaves the requests of e as they are.
LEMMA MsgsLabel ==
    ASSUME XdiAssumption, NEW g, Whole(g), NEW r, NEW i, NEW e, NEW h, NEW st,
           TakenStep(g, h, r, i, e, st), r.Ext = "OK_FC",
           ent'[e] = ent[e], st[e] = g.st[e]
    PROVE  Msgs(h, e)'
  <1>1. PICK p, d : p = g.got + 1 /\ d = r.RcId OBVIOUS
  <1>2. e \in Entity /\ Known(r, i, e) /\ i \in Slot BY DEF TakenStep
  <1>3. d = ent[e].Id /\ d # 0 BY <1>1, <1>2, KnownIs
  <1>4. /\ SameItems(g, h) /\ h.st = st /\ h.R = g.R /\ h.Q = g.Q
        /\ Sent(h, d) = Sent(g, d) /\ Plain(h, d) = Plain(g, d)
        /\ Labels(h, d) = Labels(g, d) \ {p}
    BY <1>1, Taken
  <1>5. Msgs(g, e) BY <1>2, Parts
  <1>6. \A k \in Sent(h, d) : SentAt(h, e, k)'
    <2>1. \A k \in Sent(h, d) : SentAt(g, e, k) BY <1>3, <1>4, <1>5 DEF Msgs
    <2>2. QED BY <2>1, <1>3, <1>4 DEF SentAt
  <1>7. \A k \in Plain(h, d) : PlainAt(h, e, k)'
    <2>1. \A k \in Plain(h, d) : PlainAt(g, e, k) BY <1>3, <1>4, <1>5 DEF Msgs
    <2>2. QED BY <2>1, <1>3, <1>4 DEF PlainAt, Removing
  <1>8. \A k \in Labels(h, d) : Owner[h.R[k].RcCh] = e
    BY <1>3, <1>4, <1>5 DEF Msgs
  <1>9. ent'[e].XMOREC = Cardinality(Plain(h, d)) + Cardinality(Sent(h, d))
    BY <1>3, <1>4, <1>5 DEF Msgs
  <1>10. QED BY <1>3, <1>6, <1>7, <1>8, <1>9 DEF Msgs

\* An ordinary return code is one less outstanding.
LEMMA MsgsCount ==
    ASSUME XdiAssumption, NEW g, Whole(g), NEW r, NEW i, NEW e, NEW h, NEW st,
           TakenStep(g, h, r, i, e, st), r.Ext # "OK_FC",
           ent'[e].Id = ent[e].Id, ent'[e].Req = ent[e].Req, ent'[e].ReqCh = ent[e].ReqCh,
           ent'[e].XMOREC = ent[e].XMOREC - 1,
           st[e] = g.st[e] \/ ent[e].XMOREC = 1
    PROVE  Msgs(h, e)'
  <1>1. PICK p, d : p = g.got + 1 /\ d = r.RcId OBVIOUS
  <1>2. e \in Entity /\ Known(r, i, e) /\ i \in Slot BY DEF TakenStep
  <1>3. d = ent[e].Id /\ d # 0 BY <1>1, <1>2, KnownIs
  <1>4. /\ SameItems(g, h) /\ h.st = st /\ h.R = g.R /\ h.Q = g.Q
        /\ Sent(h, d) = Sent(g, d) /\ Plain(h, d) = Plain(g, d) \ {p}
        /\ Labels(h, d) = Labels(g, d) /\ p \in Plain(g, d)
    BY <1>1, Taken
  <1>5. Msgs(g, e) /\ GhostType(g) BY <1>2, Parts
  <1>6. ent'[e].XMOREC = Cardinality(Plain(h, d)) + Cardinality(Sent(h, d))
    <2>1. ent[e].XMOREC = Cardinality(Plain(g, d)) + Cardinality(Sent(g, d))
      BY <1>3, <1>5 DEF Msgs
    <2>2. /\ IsFiniteSet(Plain(g, d)) /\ Cardinality(Plain(g, d)) \in Nat
          /\ Cardinality(Sent(g, d)) \in Nat
      BY <1>5, FiniteMsgs
    <2>3. Cardinality(Plain(h, d)) = Cardinality(Plain(g, d)) - 1
      BY <2>2, <1>4, CardDrop
    <2>4. QED BY <2>1, <2>2, <2>3, <1>4
  <1>7. CASE ent[e].XMOREC = 1
    <2>1. Sent(g, d) = {} BY <1>2, <1>3, <1>4, <1>7, HasRequest
    <2>2. Plain(h, d) = {} /\ Sent(h, d) = {}
      <3>1. Cardinality(Plain(h, d)) = 0
        <4>1. Cardinality(Sent(h, d)) = 0 BY <2>1, <1>4, FS_EmptySet
        <4>2. Cardinality(Plain(h, d)) \in Nat
          BY <1>1, Taken, FiniteMsgs
        <4>3. QED BY <4>1, <4>2, <1>6, <1>7
      <3>2. GhostType(h) BY <1>1, Taken
      <3>3. QED BY <3>1, <3>2, <2>1, <1>4, FiniteMsgs
    <2>3. \A k \in Labels(h, d) : Owner[h.R[k].RcCh] = e
      BY <1>3, <1>4, <1>5 DEF Msgs
    <2>4. QED BY <2>2, <2>3, <1>3, <1>6 DEF Msgs
  <1>8. CASE st[e] = g.st[e]
    <2>1. \A k \in Sent(h, d) : SentAt(h, e, k)'
      <3>1. \A k \in Sent(h, d) : SentAt(g, e, k) BY <1>3, <1>4, <1>5 DEF Msgs
      <3>2. QED BY <3>1, <1>3, <1>4, <1>8 DEF SentAt
    <2>2. \A k \in Plain(h, d) : PlainAt(h, e, k)'
      <3>1. \A k \in Plain(h, d) : PlainAt(g, e, k) BY <1>3, <1>4, <1>5 DEF Msgs
      <3>2. QED BY <3>1, <1>3, <1>4, <1>8 DEF PlainAt, Removing
    <2>3. \A k \in Labels(h, d) : Owner[h.R[k].RcCh] = e
      BY <1>3, <1>4, <1>5 DEF Msgs
    <2>4. QED BY <2>1, <2>2, <2>3, <1>3, <1>6 DEF Msgs
  <1>9. QED BY <1>7, <1>8

\* The last return code: nothing else is on its way.
LEMMA LastPlain ==
    ASSUME XdiAssumption, NEW g, Whole(g), NEW r, NEW i, NEW e, NEW h, NEW st,
           TakenStep(g, h, r, i, e, st), r.Ext # "OK_FC",
           ent[e].XMOREC = 1 \/ r.Rc # "OK"
    PROVE  /\ ent[e].XMOREC = 1 /\ Plain(g, r.RcId) = {g.got + 1} /\ Sent(g, r.RcId) = {}
           /\ Plain(h, r.RcId) = {}
  <1>1. PICK p, d : p = g.got + 1 /\ d = r.RcId OBVIOUS
  <1>2. e \in Entity /\ Known(r, i, e) /\ i \in Slot BY DEF TakenStep
  <1>3. d = ent[e].Id /\ d # 0 /\ PlainAt(g, e, p) /\ p \in Plain(g, d) /\ r = g.R[p]
    BY <1>1, <1>2, KnownIs
  <1>4. /\ GhostType(g) /\ ent[e].XMOREC = Cardinality(Plain(g, d)) + Cardinality(Sent(g, d))
    BY <1>2, <1>3, Parts, HasRequest
  <1>5. Plain(h, d) = Plain(g, d) \ {p} BY <1>1, Taken
  <1>6. /\ IsFiniteSet(Plain(g, d)) /\ Cardinality(Plain(g, d)) \in Nat
        /\ Cardinality(Sent(g, d)) \in Nat
        /\ (Cardinality(Sent(g, d)) = 0 <=> Sent(g, d) = {})
    BY <1>4, FiniteMsgs
  <1>7. CASE r.Rc # "OK"
    <2>1. Sent(g, d) = {} /\ \A j \in Plain(g, d) : j <= p
      BY <1>3, <1>7 DEF PlainAt
    <2>2. \A k \in RLive(g) : p <= k /\ p \in Int /\ k \in Int
      <3>1. \A k \in RLive(g) : p <= k BY <1>1, Taken
      <3>2. \A k \in RLive(g) : k \in Int BY DEF RLive
      <3>3. p \in Int BY <1>1, <1>4, GhostParts
      <3>4. QED BY <3>1, <3>2, <3>3
    <2>3. \A k \in Plain(g, d) : k \in RLive(g) BY DEF Plain
    <2>4. \A k \in Plain(g, d) : k = p BY <2>1, <2>2, <2>3
    <2>5. Plain(g, d) = {p} BY <2>4, <1>3
    <2>6. Cardinality(Plain(g, d)) = 1 BY <2>5, FS_Singleton
    <2>7. ent[e].XMOREC = 1 BY <2>1, <2>6, <1>4, <1>6
    <2>8. QED BY <2>1, <2>5, <2>7, <1>1, <1>5
  <1>8. CASE ent[e].XMOREC = 1
    <2>1. Sent(g, d) = {} BY <1>2, <1>3, <1>8, HasRequest
    <2>2. Cardinality(Plain(g, d)) = 1 BY <2>1, <1>4, <1>6, <1>8
    <2>3. Cardinality(Plain(g, d) \ {p}) = 0 BY <2>2, <1>3, <1>6, CardDrop
    <2>4. Plain(g, d) \ {p} = {} BY <2>3, <1>6, FS_EmptySet, FS_Subset
    <2>5. Plain(g, d) = {p} BY <2>4, <1>3
    <2>6. QED BY <2>1, <2>4, <2>5, <1>1, <1>5, <1>8
  <1>9. QED BY <1>7, <1>8

-----------------------------------------------------------------------------
(* Return codes that leave the entity its Id *)

\* The tables when the return code is not the answer to a REMOVE
LEMMA KeepFrame ==
    ASSUME NEW r, NEW i, NEW e, Known(r, i, e), Unlink(r, i, e), ~Removes(r, i)
    PROVE  /\ pc = "rc" /\ rcBuf # <<>> /\ r = Head(rcBuf) /\ rcBuf' = Tail(rcBuf)
           /\ UNCHANGED <<tbl, next, ref, queueVars, IdTable, rmPending, trapped, pc,
                          phase, cur, irq, outq, inbox, batch, cardIds, held>>
  BY DEF Known, InRc, Unlink, RcFrame, outVars, ramVars, cardVars, queueVars

\* Only the answer to a REMOVE finds the slot in misc_flags_table.
LEMMA RemovesIs ==
    ASSUME XdiAssumption, NEW g, Whole(g), NEW i \in Slot, NEW e \in Entity, NEW r,
           Known(r, i, e)
    PROVE  /\ i \in rmPending <=> Removing(g, e)
           /\ Removes(r, i) <=> r.Rc = "OK" /\ Removing(g, e)
  <1>1. tbl[i] = e /\ ent[e].No = i BY KnownIs
  <1>2. e # Null BY DEF XdiAssumption
  <1>3. Pending(g) BY Parts
  <1>4. i \in rmPending <=> Removing(g, e) BY <1>1, <1>2, <1>3 DEF Pending
  <1>5. QED BY <1>4 DEF Removes

\* What the client's callback leaves alone
LEMMA CallbackFrame ==
    ASSUME TypeOK, NEW e \in Entity, NEW x, NEW rc, NEW c, x.Id # 0,
           ClientRc(e, x, rc, c)
    PROVE  /\ \A f \in Entity : f # e => wait'[f] = wait[f]
           /\ \A b : b # c => /\ (b \in fcPend' <=> b \in fcPend)
                              /\ (b \in clFc' <=> b \in clFc)
                              /\ (b \in clSkip => b \in clSkip')
  <1>1. CASE x.Req = "REMOVE"
    BY <1>1 DEF ClientRc, clientVars
  <1>2. CASE x.Req # "REMOVE" /\ rc = "OK_FC"
    BY <1>2 DEF ClientRc, TypeOK
  <1>3. CASE x.Req # "REMOVE" /\ rc # "OK_FC"
    <2>1. /\ clFc' = clFc \/ clFc' = clFc \ {c}
          /\ fcPend' = fcPend \/ fcPend' = fcPend \ {c}
          /\ wait' = wait \/ wait' = [wait EXCEPT ![e] = FALSE]
          /\ clSkip' = clSkip
      BY <1>3 DEF ClientRc
    <2>2. QED BY <2>1 DEF TypeOK
  <1>4. QED BY <1>1, <1>2, <1>3

\* Flow control of a channel without a request on its way
LEMMA FlowIdle ==
    ASSUME NEW h, NEW c, NEW e, e = Owner[c], NEW d, d = ent'[e].Id,
           Plain(h, d) = {}, ~wait'[e],
           \A j \in Lab(h, c, d) : c \in clFc' /\ \A l \in Lab(h, c, d) : l >= j,
           <<c, d>> \in held' => c \in clFc' /\ Lab(h, c, d) = {},
           c \in clFc' => <<c, d>> \in held' \/ Lab(h, c, d) # {},
           fcId'[c] = d /\ ent'[e].No \notin noCancel' => c \in clFc'
    PROVE  Flow(h, c)'
  <1>1. \A rc : Says(h, c, d, rc) = {} BY DEF Says
  <1>2. QED BY <1>1 DEF Flow

\* Marked return codes L of a channel follow the OK_FC K that began its flow
\* control, or the first one ends the flow control the client knows of.
LabelsFollow(L, K, isCl) ==
    \A j \in L :
        \/ \E k \in K : k < j /\ \A l \in L : l > k => l >= j
        \/ isCl /\ \A l \in L : l >= j
\* What began the flow control that still lasts
HeldFor(L, K, isCl) ==
    \/ \E k \in K : \A l \in L : l < k
    \/ isCl /\ L = {}

\* The conjuncts of Flow
LEMMA FlowParts ==
    ASSUME NEW g, NEW c, Flow(g, c), NEW e, e = Owner[c], NEW d, d = ent[e].Id
    PROVE  /\ LabelsFollow(Lab(g, c, d), Says(g, c, d, "OK_FC"), c \in clFc)
           /\ (<<c, d>> \in held => HeldFor(Lab(g, c, d), Says(g, c, d, "OK_FC"), c \in clFc))
           /\ \A k \in Says(g, c, d, "ERR") :
                c \in clFc /\ Lab(g, c, d) = {} /\ <<c, d>> \notin held
           /\ \A k \in Says(g, c, d, "OK") : c \in clFc => \E j \in Lab(g, c, d) : j < k
           /\ \A k \in Says(g, c, d, "OK_FC") : 
                <<c, d>> \in held \/ \E j \in Lab(g, c, d) : j > k
           /\ (c \in clFc => \/ <<c, d>> \in held \/ Lab(g, c, d) # {}
                             \/ Says(g, c, d, "ERR") # {}
                             \/ wait[e] /\ ent[e].Req = "REMOVE")
           /\ (fcId[c] = d /\ ent[e].No \notin noCancel => c \in clFc)
           /\ (wait[e] /\ ent[e].ReqCh = c /\ ent[e].Req = "DATA" => c \notin fcPend)
           /\ (wait[e] /\ ent[e].ReqCh = c /\ c \in clFc => c \in clSkip)
  <1>1. LabelsFollow(Lab(g, c, d), Says(g, c, d, "OK_FC"), c \in clFc)
    <2>1. \A j \in Lab(g, c, d) :
             \/ \E k \in Says(g, c, d, "OK_FC") :
                   k < j /\ \A l \in Lab(g, c, d) : l > k => l >= j
             \/ c \in clFc /\ \A l \in Lab(g, c, d) : l >= j
      BY DEF Flow
    <2>2. QED BY <2>1, Zenon DEF LabelsFollow
  <1>2. <<c, d>> \in held => HeldFor(Lab(g, c, d), Says(g, c, d, "OK_FC"), c \in clFc)
    BY DEF Flow, HeldFor
  <1>3. /\ \A k \in Says(g, c, d, "ERR") :
              c \in clFc /\ Lab(g, c, d) = {} /\ <<c, d>> \notin held
        /\ \A k \in Says(g, c, d, "OK") : c \in clFc => \E j \in Lab(g, c, d) : j < k
        /\ \A k \in Says(g, c, d, "OK_FC") : 
              <<c, d>> \in held \/ \E j \in Lab(g, c, d) : j > k
    BY DEF Flow
  <1>4. /\ (c \in clFc => \/ <<c, d>> \in held \/ Lab(g, c, d) # {}
                          \/ Says(g, c, d, "ERR") # {}
                          \/ wait[e] /\ ent[e].Req = "REMOVE")
        /\ (fcId[c] = d /\ ent[e].No \notin noCancel => c \in clFc)
        /\ (wait[e] /\ ent[e].ReqCh = c /\ ent[e].Req = "DATA" => c \notin fcPend)
        /\ (wait[e] /\ ent[e].ReqCh = c /\ c \in clFc => c \in clSkip)
    BY DEF Flow
  <1>5. QED BY <1>1, <1>2, <1>3, <1>4, Zenon

\* Flow after a step, from its conjuncts
LEMMA FlowBuild ==
    ASSUME NEW h, NEW c, NEW e, e = Owner[c], NEW d, d = ent'[e].Id,
           LabelsFollow(Lab(h, c, d), Says(h, c, d, "OK_FC"), c \in clFc'),
           <<c, d>> \in held' => HeldFor(Lab(h, c, d), Says(h, c, d, "OK_FC"), c \in clFc'),
           \A k \in Says(h, c, d, "ERR") :
                c \in clFc' /\ Lab(h, c, d) = {} /\ <<c, d>> \notin held',
           \A k \in Says(h, c, d, "OK") : c \in clFc' => \E j \in Lab(h, c, d) : j < k,
           \A k \in Says(h, c, d, "OK_FC") : 
                <<c, d>> \in held' \/ \E j \in Lab(h, c, d) : j > k,
           c \in clFc' => \/ <<c, d>> \in held' \/ Lab(h, c, d) # {}
                          \/ Says(h, c, d, "ERR") # {}
                          \/ wait'[e] /\ ent'[e].Req = "REMOVE",
           fcId'[c] = d /\ ent'[e].No \notin noCancel' => c \in clFc',
           wait'[e] /\ ent'[e].ReqCh = c /\ ent'[e].Req = "DATA" => c \notin fcPend',
           wait'[e] /\ ent'[e].ReqCh = c /\ c \in clFc' => c \in clSkip'
    PROVE  Flow(h, c)'
  BY DEF Flow, LabelsFollow, HeldFor

\* The tables of flow control, of the channels of e
LEMMA FlowsAt ==
    ASSUME NEW g, Whole(g), NEW e \in Entity, ent[e].Id # 0
    PROVE  /\ clFc \subseteq fcPend /\ 0 \notin fcPend /\ fcId[0] = 0
           /\ \A c \in ChansOf(e) : /\ c \in Chan /\ Owner[c] = e /\ Flow(g, c)
                                    /\ (c \in clFc => fcId[c] = ent[e].Id)
                                    /\ (fcId[c] # 0 => fcId[c] = ent[e].Id)
  <1>1. Flows(g) BY Parts
  <1>2. QED BY <1>1 DEF Flows, ChansOf

\* A position that was live before is not below the head.
LEMMA HeadFirst ==
    ASSUME NEW g, GhostType(g), NEW p, p = g.got + 1
    PROVE  \A k \in RLive(g) : k \in Int /\ p \in Int /\ p <= k
  BY GhostParts DEF RLive

\* The channel of a return code belongs to its entity.
LEMMA OwnChannel ==
    ASSUME XdiAssumption, NEW g, Whole(g), NEW i \in Slot, NEW e \in Entity, NEW r,
           Known(r, i, e)
    PROVE  /\ r.RcCh \in ChanNo
           /\ (r.RcCh # 0 => r.RcCh \in ChansOf(e))
           /\ (r.Ext # "OK_FC" => r.RcCh = ent[e].ReqCh)
  <1>1. /\ r \in RC /\ ent[e].Id # 0
        /\ (r.Ext # "OK_FC" => PlainAt(g, e, g.got + 1) /\ r = g.R[g.got + 1])
        /\ (r.Ext = "OK_FC" => r.RcCh \in Chan /\ Owner[r.RcCh] = e)
    BY KnownIs
  <1>2. r.RcCh \in ChanNo BY <1>1 DEF RC
  <1>3. CASE r.Ext = "OK_FC" BY <1>1, <1>2, <1>3 DEF ChansOf
  <1>4. CASE r.Ext # "OK_FC"
    <2>1. g.st[e] \in {"queued", "sent"} /\ r.RcCh = ent[e].ReqCh
      BY <1>1, <1>4 DEF PlainAt
    <2>2. EntityAt(e, g.st[e]) BY Parts
    <2>3. ent[e].ReqCh \in ChansOf(e) \cup {0} BY <2>1, <2>2 DEF EntityAt
    <2>4. QED BY <2>1, <2>3, <1>2
  <1>5. QED BY <1>3, <1>4

\* A return code that is ignored while a REMOVE is pending is a marked one.
LEMMA LabelOfRemoving ==
    ASSUME XdiAssumption, NEW g, Whole(g), TypeOK', NEW r, NEW i \in Slot,
           NEW e \in Entity, Known(r, i, e), r.Ext = "OK_FC", Removing(g, e),
           rcBuf' = Tail(rcBuf),
           UNCHANGED <<ent, tbl, next, ref, queueVars, IdTable, rmPending, trapped, pc,
                       phase, cur, irq, outq, inbox, batch, cardIds, held>>,
           UNCHANGED clientVars, fcId' = fcId, noCancel \subseteq noCancel'
    PROVE  \E h : Whole(h)'
  <1>0. PICK p, d, s : p = g.got + 1 /\ d = r.RcId /\ s = g.st[e] OBVIOUS
  <1>st. PICK st : st = [g.st EXCEPT ![e] = s] OBVIOUS
  <1>h. PICK h : Took(g, h, st) BY DEF Took
  <1>1. p = g.got + 1 /\ d = r.RcId /\ s = g.st[e] /\ Took(g, h, st)
    BY <1>0, <1>h
  <1>2. TypeOK /\ GhostType(g) BY Parts
  <1>3. g.st \in [Entity -> Stage] /\ s \in Stage
    BY <1>1, <1>2, GhostParts
  <1>4. st \in [Entity -> Stage] /\ st[e] = g.st[e] BY <1>1, <1>st, <1>3
  <1>5. TakenStep(g, h, r, i, e, st)
    BY <1>1, <1>4 DEF TakenStep
  <1>6. /\ d = ent[e].Id /\ d # 0 /\ r = g.R[p] /\ r.Rc = "OK" /\ r.Reference = 0
        /\ r.RcCh \in Chan /\ Owner[r.RcCh] = e
    BY <1>1, KnownIs
  <1>7. /\ SameItems(g, h) /\ h.R = g.R
        /\ Sent(h, d) = Sent(g, d) /\ Plain(h, d) = Plain(g, d)
        /\ Labels(h, d) = Labels(g, d) \ {p} /\ p \in Labels(g, d)
        /\ h.st = st
    <2>1. p = g.got + 1 /\ d = r.RcId BY <1>1
    <2>2. QED BY <1>5, <2>1, Taken
  <1>8. Msgs(h, e)'
    BY <1>4, <1>5, MsgsLabel
  <1>9. EntityAt(e, s)'
    <2>1. EntityAt(e, s) BY <1>1, Parts
    <2>2. QED BY <2>1, EntityFrame DEF HasSlot, NoSlot, clientVars
  <1>10. wait[e] /\ ent[e].Req = "REMOVE" /\ g.st[e] = "sent" /\ ent[e].ReqCh = 0
    <2>1. EntityAt(e, g.st[e]) BY Parts
    <2>2. QED BY <2>1 DEF EntityAt, Removing
  <1>11. \A c \in ChansOf(e) : Flow(h, c)'
    <2> TAKE c \in ChansOf(e)
    <2>1. c \in Chan /\ Owner[c] = e /\ Flow(g, c) /\ c # 0
      BY <1>6, FlowsAt DEF XdiAssumption
    <2>2. \A rc : Says(g, c, d, rc) = {} /\ Says(h, c, d, rc) = {}
      <3>1. \A k \in Plain(g, d) : g.R[k].RcCh = 0
        <4>1. Msgs(g, e) BY Parts
        <4>2. QED BY <4>1, <1>6, <1>10 DEF Msgs, PlainAt
      <3>2. QED BY <3>1, <2>1, <1>7 DEF Says
    <2>3. Lab(h, c, d) = Lab(g, c, d) \ {p} BY <1>7 DEF Lab
    <2>4. /\ \A j \in Lab(g, c, d) : c \in clFc /\ \A l \in Lab(g, c, d) : l >= j
          /\ (<<c, d>> \in held => c \in clFc /\ Lab(g, c, d) = {})
          /\ (fcId[c] = d /\ ent[e].No \notin noCancel => c \in clFc)
      <3>1. /\ LabelsFollow(Lab(g, c, d), Says(g, c, d, "OK_FC"), c \in clFc)
            /\ (<<c, d>> \in held => HeldFor(Lab(g, c, d), Says(g, c, d, "OK_FC"), c \in clFc))
            /\ (fcId[c] = d /\ ent[e].No \notin noCancel => c \in clFc)
        BY <2>1, <1>6, FlowParts
      <3>2. QED BY <3>1, <2>2 DEF LabelsFollow, HeldFor
    <2>5. QED BY <1>6, <1>10, <2>1, <2>2, <2>3, <2>4 DEF Flow, clientVars
  <1>12. /\ clFc \subseteq fcPend /\ 0 \notin fcPend /\ fcId[0] = 0
         /\ \A c \in ChansOf(e) : /\ (c \in clFc => fcId[c] = ent[e].Id)
                                  /\ (fcId[c] # 0 => fcId[c] = ent[e].Id)
    BY <1>6, FlowsAt
  <1>13. pc = "rc" /\ rcBuf # <<>> /\ r = Head(rcBuf) BY DEF Known, InRc
  <1>14. RcKeepStep(g, h, e, s)
    BY <1>1, <1>st, <1>3, <1>6, <1>8, <1>9, <1>11, <1>12, <1>13
    DEF RcKeepStep, clientVars, ChansOf
  <1>15. QED BY <1>14, RcKeep

\* isdn_rc() drops the return codes of flow control that it has accounted for.
LEMMA IgnoredKeeps ==
    ASSUME XdiAssumption, NEW g, Whole(g), TypeOK', RcIgnored
    PROVE  \E h : Whole(h)'
  <1>1. PICK i \in Slot, e \in NL : Known(Head(rcBuf), i, e) /\ Ignored(Head(rcBuf), i, e)
    BY DEF RcIgnored
  <1>2. PICK r : r = Head(rcBuf) OBVIOUS
  <1>3. e \in Entity BY DEF XdiAssumption
  <1>4. Removing(g, e) /\ r.Ext # "REMOVE_COMPLETE"
    BY <1>1, <1>2, <1>3, RemovesIs DEF Ignored
  <1>5. r.Ext = "OK_FC"
    <2> SUFFICES ASSUME r.Ext # "OK_FC" PROVE FALSE OBVIOUS
    <2>1. PlainAt(g, e, g.got + 1) /\ r = g.R[g.got + 1]
      BY <1>1, <1>2, <1>3, KnownIs
    <2>2. QED BY <2>1, <1>4 DEF PlainAt
  <1>6. /\ rcBuf' = Tail(rcBuf) 
        /\ UNCHANGED <<ent, tbl, next, ref, queueVars, IdTable, rmPending, trapped, pc,
                       phase, cur, irq, outq, inbox, batch, cardIds, held>>
        /\ UNCHANGED clientVars /\ fcId' = fcId /\ noCancel' = noCancel
    BY DEF RcIgnored, RcFrame, idVars, outVars, ramVars, cardVars, queueVars
  <1>7. QED BY <1>1, <1>2, <1>3, <1>4, <1>5, <1>6, LabelOfRemoving

\* The end of flow control, marked as such, leaves the request as it is.
LEMMA LabelKeep ==
    ASSUME XdiAssumption, Marked, NEW g, Whole(g), TypeOK', NEW i \in Slot,
           NEW e \in Entity, NEW r, Known(r, i, e), r.Ext = "OK_FC", ~Removes(r, i),
           Unlink(r, i, e), fcId' = FcLeft(r, i), noCancel' = NoCancelLeft(r, i) \cup {i},
           ent' = [ent EXCEPT ![e] = Untouched(Stripped(r, i, e))],
           ClientRc(e, ent'[e], r.Rc, r.RcCh)
    PROVE  \E h : Whole(h)'
  <1>0. PICK p, d, s, a : p = g.got + 1 /\ d = r.RcId /\ s = g.st[e] /\ a = r.RcCh OBVIOUS
  <1>st. PICK st : st = [g.st EXCEPT ![e] = s] OBVIOUS
  <1>h. PICK h : Took(g, h, st) BY DEF Took
  <1>2. TypeOK /\ GhostType(g) BY Parts
  <1>3. st \in [Entity -> Stage] /\ st[e] = g.st[e] /\ s \in Stage
    BY <1>0, <1>st, <1>2, GhostParts
  <1>4. /\ d = ent[e].Id /\ d # 0 /\ r = g.R[p] /\ r.Rc = "OK" /\ r.Reference = 0
        /\ a \in Chan /\ Owner[a] = e /\ ent[e].No = i /\ p \in RLive(g)
    BY <1>0, KnownIs
  <1>5. /\ pc = "rc" /\ rcBuf # <<>> /\ r = Head(rcBuf) /\ rcBuf' = Tail(rcBuf)
        /\ UNCHANGED <<tbl, next, ref, queueVars, IdTable, rmPending, trapped, pc,
                       phase, cur, irq, outq, inbox, batch, cardIds, held>>
    BY KeepFrame
  <1>6. TakenStep(g, h, r, i, e, st)
    BY <1>h, <1>3, <1>5 DEF TakenStep
  <1>7. /\ SameItems(g, h) /\ h.R = g.R
        /\ Sent(h, d) = Sent(g, d) /\ Plain(h, d) = Plain(g, d)
        /\ Labels(h, d) = Labels(g, d) \ {p} /\ p \in Labels(g, d)
        /\ h.st = st
    <2>1. p = g.got + 1 /\ d = r.RcId BY <1>0
    <2>2. QED BY <1>6, <2>1, Taken
  <1>8. fcId' = fcId /\ noCancel' = noCancel \cup {i} /\ ent' = ent
    <2>1. ent \in [Entity -> ENTITY] BY <1>2 DEF TypeOK
    <2>2. QED BY <2>1 DEF FcLeft, NoCancelLeft, Untouched, Stripped
  <1>9. ClientRc(e, ent[e], "OK", a) BY <1>0, <1>4, <1>8
  <1>10. /\ clFc \subseteq fcPend /\ 0 \notin fcPend /\ fcId[0] = 0
         /\ \A c \in ChansOf(e) : /\ c \in Chan /\ Owner[c] = e /\ Flow(g, c)
                                  /\ (c \in clFc => fcId[c] = ent[e].Id)
                                  /\ (fcId[c] # 0 => fcId[c] = ent[e].Id)
    BY <1>4, FlowsAt
  <1>11. a \in ChansOf(e) /\ Flow(g, a) BY <1>4, <1>10 DEF ChansOf
  <1>12. \A k \in RLive(g) : k \in Int /\ p \in Int /\ p <= k
    BY <1>0, <1>2, HeadFirst
  <1>13. Lab(h, a, d) = Lab(g, a, d) \ {p} /\ p \in Lab(g, a, d)
    BY <1>0, <1>4, <1>7 DEF Lab
  <1>14. Lab(g, a, d) \subseteq RLive(g) /\ \A rc : Says(g, a, d, rc) \subseteq RLive(g) \ {p}
    BY <1>0, <1>4 DEF Lab, Labels, Says, Plain, RcKey
  <1>15. a \in clFc /\ \A rc : Says(h, a, d, rc) = Says(g, a, d, rc)
    <2>1. ~ \E k \in Says(g, a, d, "OK_FC") : k < p
      BY <1>12, <1>14
    <2>f. Flow(g, a) /\ e = Owner[a] /\ d = ent[e].Id BY <1>4, <1>11
    <2>p. LabelsFollow(Lab(g, a, d), Says(g, a, d, "OK_FC"), a \in clFc)
      BY <2>f, FlowParts
    <2>2. a \in clFc BY <2>1, <2>p, <1>13 DEF LabelsFollow
    <2>3. QED BY <2>2, <1>7 DEF Says
  <1>16. \A c \in ChansOf(e) : c # a => SameLabs(g, h, c, d)
    BY <1>0, <1>4, <1>7 DEF SameLabs, Lab, Says
  <1>17. Labelled BY <1>4 DEF Marked
  <1>18. /\ \A f \in Entity : f # e => wait'[f] = wait[f]
         /\ \A b : b # a => /\ (b \in fcPend' <=> b \in fcPend)
                            /\ (b \in clFc' <=> b \in clFc)
                            /\ (b \in clSkip => b \in clSkip')
    BY <1>2, <1>4, <1>9, CallbackFrame
  <1>19. wait'[e] = wait[e] /\ clSkip' = clSkip /\ clFc' \subseteq fcPend' /\ fcPend' \subseteq fcPend
         /\ clFc' \subseteq clFc
         /\ Flow(h, a)'
    <2>0. wait \in [Entity -> BOOLEAN] /\ wait' \in [Entity -> BOOLEAN] BY <1>2 DEF TypeOK
    <2>f. Flow(g, a) /\ e = Owner[a] /\ d = ent[e].Id BY <1>4, <1>11
    <2>p1. LabelsFollow(Lab(g, a, d), Says(g, a, d, "OK_FC"), a \in clFc)
      BY <2>f, FlowParts
    <2>p2. <<a, d>> \in held => HeldFor(Lab(g, a, d), Says(g, a, d, "OK_FC"), a \in clFc)
      BY <2>f, FlowParts
    <2>p3. Says(g, a, d, "ERR") = {} BY <2>f, <1>13, FlowParts
    <2>p4. \A k \in Says(g, a, d, "OK_FC") : 
              <<a, d>> \in held \/ \E j \in Lab(g, a, d) : j > k
      BY <2>f, FlowParts
    <2>p5. wait[e] /\ ent[e].ReqCh = a /\ ent[e].Req = "DATA" => a \notin fcPend
      BY <2>f DEF Flow
    <2>p6. wait[e] /\ ent[e].ReqCh = a => a \in clSkip
      BY <2>f, <1>15 DEF Flow
    <2>1. CASE ent[e].Req = "REMOVE"
      <3>1. UNCHANGED clientVars BY <1>9, <1>4, <2>1 DEF ClientRc
      <3>2. g.st[e] = "queued" /\ ent[e].XMOREC = 0 /\ wait[e]
        <4>1. ~Removing(g, e) BY <1>4, RemovesIs
        <4>2. EntityAt(e, g.st[e]) BY Parts
        <4>3. g.st[e] \in {"idle", "queued", "sent"} BY <1>4, StageOf
        <4>4. QED BY <4>1, <4>2, <4>3, <2>1 DEF EntityAt, Removing
      <3>3. \A rc : Says(g, a, d, rc) = {}
        <4>1. Plain(g, d) = {} BY <3>2, <1>4, HasRequest
        <4>2. QED BY <4>1 DEF Says
      <3>4. Lab(h, a, d) = {} /\ <<a, d>> \notin held
        <4>1. \A j \in Lab(g, a, d) : p >= j BY <2>p1, <3>3, <1>13 DEF LabelsFollow
        <4>2. \A j \in Lab(g, a, d) : j = p BY <4>1, <1>12, <1>14
        <4>3. <<a, d>> \notin held BY <2>p2, <3>3, <1>13 DEF HeldFor
        <4>4. QED BY <4>2, <4>3, <1>13
      <3>5. Flow(h, a)'
        <4>1. e = Owner[a] /\ d = ent'[e].Id /\ held' = held /\ ent' = ent
          BY <1>4, <1>5, <1>8
        <4>2. \A rc : Says(h, a, d, rc) = {} BY <1>15, <3>3
        <4>3. fcId'[a] = d /\ ent'[e].No \notin noCancel' => FALSE BY <1>4, <1>8
        <4>4. /\ wait'[e] /\ ent'[e].ReqCh = a /\ ent'[e].Req = "DATA" => a \notin fcPend'
              /\ wait'[e] /\ ent'[e].ReqCh = a => a \in clSkip'
          BY <2>p5, <2>p6, <3>1, <4>1 DEF clientVars
        <4>5. wait'[e] /\ ent'[e].Req = "REMOVE" BY <2>1, <3>1, <3>2, <4>1 DEF clientVars
        <4>6. LabelsFollow(Lab(h, a, d), Says(h, a, d, "OK_FC"), a \in clFc')
          BY <3>4 DEF LabelsFollow
        <4>7. QED BY <3>4, <4>1, <4>2, <4>3, <4>4, <4>5, <4>6, FlowBuild
      <3>6. QED BY <3>1, <3>5, <1>10 DEF clientVars
    <2>2. CASE ent[e].Req # "REMOVE"
      <3>1. PICK swallow : /\ swallow <=> a \in clSkip
                           /\ clFc' = clFc \ {a}
                           /\ fcPend' = IF swallow THEN fcPend ELSE fcPend \ {a}
                           /\ wait' = IF swallow \/ Spares(e, ent[e], a)
                              THEN wait ELSE [wait EXCEPT ![e] = FALSE]
                           /\ UNCHANGED clSkip
        BY <1>9, <1>15, <1>17, <1>4, <2>2 DEF ClientRc
      <3>2. wait'[e] = wait[e]
        <4>1. CASE ~wait[e] BY <4>1, <3>1, <2>0
        <4>2. CASE wait[e] /\ ent[e].ReqCh = a
          <5>1. a \in clSkip BY <4>2, <2>p6
          <5>2. swallow BY <5>1, <3>1
          <5>3. QED BY <5>2, <3>1
        <4>3. CASE wait[e] /\ ent[e].ReqCh # a
          BY <4>3, <3>1, <1>4, <1>10, <1>15 DEF Spares
        <4>4. QED BY <4>1, <4>2, <4>3, <2>0
      <3>3. a \notin clFc' BY <3>1
      <3>5. \A k \in Says(g, a, d, "OK_FC") : 
                <<a, d>> \in held \/ \E j \in Lab(h, a, d) : j > k
        <4>1. \A k \in Says(g, a, d, "OK_FC") : ~(p > k) BY <1>12, <1>14
        <4>2. QED BY <4>1, <2>p4, <1>13
      <3>6. LabelsFollow(Lab(h, a, d), Says(g, a, d, "OK_FC"), a \in clFc')
        <4>1. \A j \in Lab(h, a, d) : ~(p >= j)
          <5> TAKE j \in Lab(h, a, d)
          <5>1. j \in RLive(g) /\ j # p BY <1>13, <1>14
          <5>2. QED BY <5>1, <1>12
        <4>2. QED BY <4>1, <2>p1, <1>13 DEF LabelsFollow
      <3>7. <<a, d>> \in held => HeldFor(Lab(h, a, d), Says(g, a, d, "OK_FC"), a \in clFc')
        BY <2>p2, <1>13 DEF HeldFor
      <3>8. a \notin fcPend => a \notin fcPend' BY <3>1
      <3>9. Flow(h, a)'
        <4>1. e = Owner[a] /\ d = ent'[e].Id /\ held' = held /\ ent' = ent
          BY <1>4, <1>5, <1>8
        <4>2. \A rc : Says(h, a, d, rc) = Says(g, a, d, rc) BY <1>15
        <4>3. fcId'[a] = d /\ ent'[e].No \notin noCancel' => FALSE BY <1>4, <1>8
        <4>4. /\ wait'[e] /\ ent'[e].ReqCh = a /\ ent'[e].Req = "DATA" => a \notin fcPend'
              /\ wait'[e] /\ ent'[e].ReqCh = a /\ a \in clFc' => FALSE
          BY <2>p5, <3>2, <3>3, <3>8, <4>1
        <4>5. QED BY <3>3, <2>p3, <3>5, <3>6, <3>7, <4>1, <4>2, <4>3, <4>4, FlowBuild
      <3>10. QED BY <3>1, <3>2, <3>9, <1>10
    <2>3. QED BY <2>1, <2>2
  <1>20. \A c \in ChansOf(e) : Flow(h, c)'
    <2> TAKE c \in ChansOf(e)
    <2>1. CASE c = a BY <2>1, <1>19
    <2>2. CASE c # a
      <3>1. Flow(g, c) /\ Owner[c] = e BY <1>10
      <3>2. /\ (c \in fcPend' <=> c \in fcPend) /\ (c \in clFc' <=> c \in clFc)
            /\ (c \in clSkip => c \in clSkip')
        BY <1>18, <2>2
      <3>3. SameLabs(g, h, c, ent[e].Id) BY <1>4, <1>16, <2>2
      <3>4. QED BY <3>1, <3>2, <3>3, <1>5, <1>8, <1>19, FlowFrame
    <2>3. QED BY <2>1, <2>2
  <1>21. EntityAt(e, s)'
    <2>1. EntityAt(e, s) BY <1>0, Parts
    <2>2. QED BY <2>1, <1>5, <1>8, <1>19, EntityFrame DEF HasSlot, NoSlot
  <1>22. Msgs(h, e)' BY <1>3, <1>6, <1>8, MsgsLabel
  <1>23. \A c \in Chan : Owner[c] # e =>
         /\ (c \in fcPend' <=> c \in fcPend) /\ (c \in clFc' <=> c \in clFc)
         /\ (c \in clSkip => c \in clSkip') /\ fcId'[c] = fcId[c]
    BY <1>4, <1>8, <1>18
  <1>24. /\ clFc' \subseteq fcPend' /\ 0 \notin fcPend' /\ fcId'[0] = 0
         /\ \A c \in Chan : Owner[c] = e => 
              /\ Flow(h, c)'
              /\ (c \in clFc' => fcId'[c] = ent[e].Id)
              /\ (fcId'[c] # 0 => fcId'[c] = ent[e].Id)
    BY <1>8, <1>10, <1>19, <1>20 DEF ChansOf
  <1>25. RcKeepStep(g, h, e, s)
    BY <1>0, <1>st, <1>h, <1>3, <1>4, <1>5, <1>8, <1>18, <1>19, <1>21, <1>22, <1>23, <1>24
    DEF RcKeepStep
  <1>26. QED BY <1>25, RcKeep

\* Flow control of channel c of e once its request is over
FlowDone(g, e, c, d) ==
    /\ \A j \in Lab(g, c, d) : c \in clFc' /\ \A l \in Lab(g, c, d) : l >= j
    /\ (<<c, d>> \in held => c \in clFc' /\ Lab(g, c, d) = {})
    /\ (c \in clFc' => <<c, d>> \in held \/ Lab(g, c, d) # {})
    /\ (fcId'[c] = d /\ ent[e].No \notin noCancel => c \in clFc')
    /\ (c \in clFc' => fcId'[c] = d)
    /\ (fcId'[c] # 0 => fcId'[c] = d)

\* The client is called back: the request is over.
Finished(g, r, e) ==
    /\ \A f \in Entity : f # e => ent'[f] = ent[f] /\ wait'[f] = wait[f]
    /\ ent'[e].Id = ent[e].Id /\ ent'[e].No = ent[e].No
    /\ ent'[e].Req = ent[e].Req /\ ent'[e].ReqCh = ent[e].ReqCh
    /\ ent'[e].XMOREP = ent[e].XMOREP
    /\ ent'[e].XMOREC = 0 /\ ~ent'[e].XBUSY /\ ~wait'[e]
    /\ noCancel' = noCancel
    /\ \A b \in ChanNo : b # r.RcCh =>
         /\ (b \in fcPend' <=> b \in fcPend) /\ (b \in clFc' <=> b \in clFc)
         /\ (b \in clSkip => b \in clSkip') /\ fcId'[b] = fcId[b]
    /\ clFc' \subseteq fcPend' /\ 0 \notin fcPend' /\ fcId'[0] = 0
    /\ (r.RcCh # 0 => FlowDone(g, e, r.RcCh, r.RcId))

\* The last return code of a request ends it: the client may send again.
LEMMA FinishKeeps ==
    ASSUME XdiAssumption, NEW g, Whole(g), TypeOK', NEW i \in Slot,
           NEW e \in Entity, NEW r, Known(r, i, e), r.Ext # "OK_FC", ~Removes(r, i),
           Unlink(r, i, e), g.st[e] = "sent", ent[e].XMOREC = 1 \/ r.Rc # "OK",
           ent[e].Req # "REMOVE", Finished(g, r, e)
    PROVE  \E h : Whole(h)'
  <1>0. PICK p, d, a : p = g.got + 1 /\ d = r.RcId /\ a = r.RcCh OBVIOUS
  <1>st. PICK st : st = [g.st EXCEPT ![e] = "idle"] OBVIOUS
  <1>h. PICK h : Took(g, h, st) BY DEF Took
  <1>2. TypeOK /\ GhostType(g) BY Parts
  <1>3. st \in [Entity -> Stage] /\ st[e] = "idle" /\ "idle" \in Stage
    BY <1>st, <1>2, GhostParts DEF Stage
  <1>4. /\ d = ent[e].Id /\ d # 0 /\ r = g.R[p] /\ r.Reference = 0
        /\ r.Rc \in {"OK", "OK_FC", "ERR"}
        /\ HasSlot(e) /\ a \in ChanNo /\ (a # 0 => a \in ChansOf(e))
    BY <1>0, KnownIs, OwnChannel
  <1>5. /\ pc = "rc" /\ rcBuf # <<>> /\ r = Head(rcBuf) /\ rcBuf' = Tail(rcBuf)
        /\ UNCHANGED <<tbl, next, ref, queueVars, IdTable, rmPending, trapped, pc,
                       phase, cur, irq, outq, inbox, batch, cardIds, held>>
    BY KeepFrame
  <1>6. TakenStep(g, h, r, i, e, st)
    BY <1>h, <1>3, <1>5 DEF TakenStep
  <1>7. /\ SameItems(g, h) /\ h.R = g.R
        /\ Labels(h, d) = Labels(g, d) /\ h.st = st
    <2>1. p = g.got + 1 /\ d = r.RcId BY <1>0
    <2>2. QED BY <1>6, <2>1, Taken
  <1>8. ent[e].XMOREC = 1 /\ Plain(g, d) = {p} /\ Plain(h, d) = {}
    <2>1. /\ ent[e].XMOREC = 1 /\ Plain(g, r.RcId) = {g.got + 1} /\ Sent(g, r.RcId) = {}
          /\ Plain(h, r.RcId) = {}
      BY <1>6, LastPlain
    <2>2. QED BY <2>1, <1>0
  <1>9. \A f \in Entity : f # e => ent'[f] = ent[f] /\ wait'[f] = wait[f]
    BY DEF Finished
  <1>10. /\ ent'[e].Id = ent[e].Id /\ ent'[e].No = ent[e].No
         /\ ent'[e].Req = ent[e].Req /\ ent'[e].ReqCh = ent[e].ReqCh
         /\ ent'[e].XMOREP = ent[e].XMOREP
         /\ ent'[e].XMOREC = 0 /\ ~ent'[e].XBUSY /\ ~wait'[e]
    BY DEF Finished
  <1>11. Msgs(h, e)'
    <2>1. ent'[e].XMOREC = ent[e].XMOREC - 1 BY <1>8, <1>10
    <2>2. QED BY <1>6, <1>8, <1>10, <2>1, MsgsCount
  <1>12. EntityAt(e, "idle")'
    <2>1. EntityAt(e, "sent") BY Parts
    <2>2. HasSlot(e)' BY <1>4, <1>5, <1>10 DEF HasSlot
    <2>3. QED BY <2>1, <2>2, <1>4, <1>10 DEF EntityAt
  <1>13. /\ clFc \subseteq fcPend /\ 0 \notin fcPend /\ fcId[0] = 0
         /\ \A c \in ChansOf(e) : /\ c \in Chan /\ Owner[c] = e /\ Flow(g, c)
                                  /\ (c \in clFc => fcId[c] = ent[e].Id)
                                  /\ (fcId[c] # 0 => fcId[c] = ent[e].Id)
    BY <1>4, FlowsAt
  <1>14. \A c \in ChansOf(e) : FlowDone(g, e, c, d)
    <2> TAKE c \in ChansOf(e)
    <2>0. c \in Chan /\ c # 0 /\ c \in ChanNo BY <1>13 DEF XdiAssumption, ChanNo
    <2>1. CASE c = a BY <2>0, <2>1, <1>0 DEF Finished
    <2>2. CASE c # a
      <3>1. (c \in clFc' <=> c \in clFc) /\ fcId'[c] = fcId[c]
        BY <2>0, <2>2, <1>0 DEF Finished
      <3>2. \A rc : Says(g, c, d, rc) = {}
        BY <1>0, <1>4, <1>8, <2>2 DEF Says
      <3>f. Flow(g, c) /\ e = Owner[c] /\ d = ent[e].Id BY <1>4, <1>13
      <3>3. LabelsFollow(Lab(g, c, d), Says(g, c, d, "OK_FC"), c \in clFc)
        BY <3>f, FlowParts
      <3>4. <<c, d>> \in held => HeldFor(Lab(g, c, d), Says(g, c, d, "OK_FC"), c \in clFc)
        BY <3>f, FlowParts
      <3>5. c \in clFc => <<c, d>> \in held \/ Lab(g, c, d) # {}
        BY <3>f, <3>2, FlowParts
      <3>6. fcId[c] = d /\ ent[e].No \notin noCancel => c \in clFc
        BY <3>f, FlowParts
      <3>7. \A j \in Lab(g, c, d) : c \in clFc /\ \A l \in Lab(g, c, d) : l >= j
        BY <3>2, <3>3 DEF LabelsFollow
      <3>8. <<c, d>> \in held => c \in clFc /\ Lab(g, c, d) = {}
        BY <3>2, <3>4 DEF HeldFor
      <3>9. (c \in clFc => fcId[c] = d) /\ (fcId[c] # 0 => fcId[c] = d)
        BY <1>4, <1>13
      <3>10. QED BY <3>1, <3>5, <3>6, <3>7, <3>8, <3>9 DEF FlowDone
    <2>3. QED BY <2>1, <2>2
  <1>15. \A c \in ChansOf(e) : Flow(h, c)'
    <2> TAKE c \in ChansOf(e)
    <2>1. Lab(h, c, d) = Lab(g, c, d) BY <1>7 DEF Lab
    <2>2. FlowDone(g, e, c, d) /\ e = Owner[c] BY <1>13, <1>14
    <2>3. d = ent'[e].Id /\ held' = held /\ noCancel' = noCancel /\ ent'[e].No = ent[e].No
      BY <1>4, <1>5, <1>10 DEF Finished
    <2>4. QED BY <2>1, <2>2, <2>3, <1>8, <1>10, FlowIdle DEF FlowDone
  <1>16. \A c \in Chan : Owner[c] # e =>
         /\ (c \in fcPend' <=> c \in fcPend) /\ (c \in clFc' <=> c \in clFc)
         /\ (c \in clSkip => c \in clSkip') /\ fcId'[c] = fcId[c]
    <2>1. \A c \in Chan : Owner[c] # e => c # r.RcCh /\ c \in ChanNo
      BY <1>0, <1>4, <1>13 DEF XdiAssumption, ChanNo
    <2>2. QED BY <2>1 DEF Finished
  <1>17. /\ clFc' \subseteq fcPend' /\ 0 \notin fcPend' /\ fcId'[0] = 0
         /\ \A c \in Chan : Owner[c] = e => 
              /\ Flow(h, c)'
              /\ (c \in clFc' => fcId'[c] = ent[e].Id)
              /\ (fcId'[c] # 0 => fcId'[c] = ent[e].Id)
    BY <1>4, <1>14, <1>15 DEF ChansOf, Finished, FlowDone
  <1>18. noCancel \subseteq noCancel' BY DEF Finished
  <1>19. RcKeepStep(g, h, e, "idle")
    BY <1>0, <1>st, <1>h, <1>3, <1>4, <1>5, <1>9, <1>10, <1>11, <1>12, <1>16, <1>17, <1>18
    DEF RcKeepStep
  <1>20. QED BY <1>19, RcKeep

\* The answer to the last or only part of a request is the only one.
LEMMA OnlyPlain ==
    ASSUME XdiAssumption, NEW g, Whole(g), NEW i \in Slot,
           NEW e \in Entity, NEW r, Known(r, i, e), r.Ext # "OK_FC", ~Removes(r, i),
           Unlink(r, i, e), ent[e].XMOREC = 1 \/ r.Rc # "OK"
    PROVE  ent[e].XMOREC = 1 /\ Plain(g, r.RcId) = {g.got + 1} /\ Sent(g, r.RcId) = {}
  <1>1. PICK h : Took(g, h, g.st) BY DEF Took
  <1>2. g.st \in [Entity -> Stage] BY Parts, GhostParts
  <1>3. rcBuf' = Tail(rcBuf) /\ UNCHANGED <<outq, inbox, batch>> BY KeepFrame
  <1>4. TakenStep(g, h, r, i, e, g.st) BY <1>1, <1>2, <1>3 DEF TakenStep
  <1>5. QED BY <1>4, LastPlain

\* An answer is to a request that is not a queued REMOVE.
LEMMA PlainIs ==
    ASSUME XdiAssumption, NEW g, Whole(g), NEW i \in Slot,
           NEW e \in Entity, NEW r, Known(r, i, e), r.Ext # "OK_FC", ~Removes(r, i)
    PROVE  /\ ent[e].Req # "REMOVE" /\ g.st[e] \in {"queued", "sent"}
           /\ (r.Rc # "OK" => g.st[e] = "sent" /\ r.RcCh \in Chan)
           /\ (r.Rc = "ERR" => ent[e].Req = "CTRL")
           /\ wait[e] /\ ent[e].XMOREC \in Nat /\ ent[e].XMOREC >= 1
           /\ r.RcCh = ent[e].ReqCh
  <1>1. /\ PlainAt(g, e, g.got + 1) /\ r = g.R[g.got + 1] /\ RcForm(r)
        /\ g.got + 1 \in Plain(g, ent[e].Id) /\ ent[e].Id # 0
        /\ r.Rc \in {"OK", "OK_FC", "ERR"}
    BY KnownIs
  <1>2. /\ g.st[e] \in {"queued", "sent"} /\ r.RcCh = ent[e].ReqCh
        /\ (r.Rc # "OK" => g.st[e] = "sent" /\ ent[e].Req # "REMOVE")
        /\ (r.Rc = "ERR" => ent[e].Req = "CTRL")
    BY <1>1 DEF PlainAt
  <1>3. r.Rc # "OK" => r.RcCh \in Chan BY <1>1 DEF RcForm
  <1>4. EntityAt(e, g.st[e]) BY Parts
  <1>5. ent[e].XMOREC # 0 BY <1>1, HasRequest
  <1>6. ent[e].XMOREC \in Nat /\ ent[e].XMOREC >= 1
    <2>1. ent[e].XMOREC \in 0..XMOREC BY Parts, EntityTypes
    <2>2. QED BY <2>1, <1>5 DEF XdiAssumption
  <1>7. ent[e].Req # "REMOVE"
    <2> SUFFICES ASSUME ent[e].Req = "REMOVE" PROVE FALSE OBVIOUS
    <2>1. r.Rc = "OK" BY <1>2
    <2>2. ~Removing(g, e) BY <2>1, RemovesIs
    <2>3. g.st[e] = "queued" BY <1>2, <2>2 DEF Removing
    <2>4. ent[e].XMOREC = 0 BY <2>3, <1>4 DEF EntityAt
    <2>5. QED BY <2>4, <1>5
  <1>8. wait[e] BY <1>2, <1>4 DEF EntityAt
  <1>9. QED BY <1>2, <1>3, <1>6, <1>7, <1>8

\* What the end of a request, or one return code less, does to an entity
LEMMA EndFields ==
    ASSUME XdiAssumption, TypeOK, NEW e \in Entity, NEW i, NEW r, ~Removes(r, i),
           ent[e].XMOREC >= 1
    PROVE  /\ LET y == Accepted(ent[e]) IN
              /\ y.Id = ent[e].Id /\ y.No = ent[e].No /\ y.Req = ent[e].Req
              /\ y.ReqCh = ent[e].ReqCh /\ y.XMOREP = ent[e].XMOREP
              /\ y.XMOREC = 0 /\ ~y.XBUSY
           /\ LET y == Counted(r, i, e) IN
              /\ y.Id = ent[e].Id /\ y.No = ent[e].No /\ y.Req = ent[e].Req
              /\ y.ReqCh = ent[e].ReqCh /\ y.XMOREP = ent[e].XMOREP
              /\ y.XMOREF = ent[e].XMOREF /\ y.XBUSY = ent[e].XBUSY
              /\ y.XNum = ent[e].XNum
              /\ y.XMOREC = ent[e].XMOREC - 1
           /\ LET y == Completed(Counted(r, i, e)) IN
              /\ y.Id = ent[e].Id /\ y.No = ent[e].No /\ y.Req = ent[e].Req
              /\ y.ReqCh = ent[e].ReqCh /\ y.XMOREP = ent[e].XMOREP
              /\ y.XMOREC = ent[e].XMOREC - 1 /\ ~y.XBUSY
  <1>1. ent[e] \in ENTITY /\ ent[e].XMOREC \in 0..XMOREC BY EntityTypes
  <1>2. ent[e].XMOREC > 0 BY <1>1 DEF XdiAssumption
  <1>3. Stripped(r, i, e) = ent[e] BY DEF Stripped
  <1>4. Counted(r, i, e) = [ent[e] EXCEPT !.XMOREC = ent[e].XMOREC - 1]
    BY <1>2, <1>3 DEF Counted
  <1>5. PICK x, n : x = ent[e] /\ n = x.XMOREC - 1 OBVIOUS
  <1>6. x \in ENTITY BY <1>1, <1>5
  <1>7. PICK z : z = [x EXCEPT !.XMOREC = n] OBVIOUS
  <1>8. /\ z.Id = x.Id /\ z.No = x.No /\ z.Req = x.Req
        /\ z.ReqCh = x.ReqCh /\ z.XMOREP = x.XMOREP
        /\ z.XMOREF = x.XMOREF /\ z.XBUSY = x.XBUSY
        /\ z.XNum = x.XNum /\ z.XMOREC = n
    BY <1>6, <1>7 DEF ENTITY
  <1>9. LET y == Completed(z) IN
              /\ y.Id = x.Id /\ y.No = x.No /\ y.Req = x.Req
              /\ y.ReqCh = x.ReqCh /\ y.XMOREP = x.XMOREP
              /\ y.XMOREC = n /\ ~y.XBUSY
    BY <1>6, <1>7 DEF ENTITY, Completed
  <1>10. LET y == Accepted(x) IN
              /\ y.Id = x.Id /\ y.No = x.No /\ y.Req = x.Req
              /\ y.ReqCh = x.ReqCh /\ y.XMOREP = x.XMOREP
              /\ y.XMOREC = 0 /\ ~y.XBUSY
    BY <1>6 DEF ENTITY, Accepted
  <1>11. Counted(r, i, e) = z BY <1>4, <1>5, <1>7
  <1>12. QED BY <1>5, <1>8, <1>9, <1>10, <1>11

\* OK_FC: the request is accepted and the channel is under flow control.
LEMMA OkFcKeeps ==
    ASSUME XdiAssumption, Marked, NEW g, Whole(g), TypeOK', RcOkFc
    PROVE  \E h : Whole(h)'
  <1>a. PICK i \in Slot, e \in Entity : LET r == Head(rcBuf) IN
          /\ Known(r, i, e) /\ r.Rc = "OK_FC" /\ Unlink(r, i, e)
          /\ fcId' = [fcId EXCEPT ![r.RcCh] = r.RcId]
          /\ ent' = [ent EXCEPT ![e] = Accepted(@)]
          /\ ClientRc(e, ent'[e], r.Rc, r.RcCh) /\ noCancel' = noCancel
    BY DEF RcOkFc
  <1>b. PICK r : r = Head(rcBuf) OBVIOUS
  <1>1. /\ r = Head(rcBuf) /\ Known(r, i, e) /\ r.Rc = "OK_FC" /\ Unlink(r, i, e)
        /\ fcId' = [fcId EXCEPT ![r.RcCh] = r.RcId]
        /\ ent' = [ent EXCEPT ![e] = Accepted(@)]
        /\ ClientRc(e, ent'[e], r.Rc, r.RcCh) /\ noCancel' = noCancel
    BY <1>a, <1>b
  <1>2. ~Removes(r, i) BY <1>1 DEF Removes
  <1>3. r.Ext # "OK_FC" /\ r.RcId = ent[e].Id /\ ent[e].Id # 0 /\ ent[e].Id \in Ids
    BY <1>1, KnownIs DEF RcForm
  <1>4. PICK p, d, a : p = g.got + 1 /\ d = r.RcId /\ a = r.RcCh OBVIOUS
  <1>5. /\ ent[e].XMOREC = 1 /\ Plain(g, d) = {p} /\ Sent(g, d) = {}
    BY <1>1, <1>2, <1>3, <1>4, OnlyPlain
  <1>6. ent[e].Req # "REMOVE" /\ g.st[e] = "sent" /\ a \in Chan
    BY <1>1, <1>2, <1>3, <1>4, PlainIs
  <1>7. TypeOK /\ GhostType(g) BY Parts
  <1>8. /\ ent'[e].Id = ent[e].Id /\ ent'[e].No = ent[e].No
        /\ ent'[e].Req = ent[e].Req /\ ent'[e].ReqCh = ent[e].ReqCh
        /\ ent'[e].XMOREP = ent[e].XMOREP
        /\ ent'[e].XMOREC = 0 /\ ~ent'[e].XBUSY
        /\ \A f \in Entity : f # e => ent'[f] = ent[f]
    <2>1. ent'[e] = Accepted(ent[e]) /\ \A f \in Entity : f # e => ent'[f] = ent[f]
      BY <1>1, <1>7 DEF TypeOK
    <2>2. ent[e].XMOREC >= 1 BY <1>5
    <2>3. LET y == Accepted(ent[e]) IN
              /\ y.Id = ent[e].Id /\ y.No = ent[e].No /\ y.Req = ent[e].Req
              /\ y.ReqCh = ent[e].ReqCh /\ y.XMOREP = ent[e].XMOREP
              /\ y.XMOREC = 0 /\ ~y.XBUSY
      BY <2>2, <1>2, <1>7, EndFields
    <2>4. QED BY <2>1, <2>3
  <1>9. Labelled BY <1>6 DEF Marked
  <1>10. /\ fcPend' = fcPend \cup {a} /\ clFc' = clFc \cup {a} /\ clSkip' = clSkip \ {a}
         /\ wait' = [wait EXCEPT ![e] = FALSE]
    BY <1>1, <1>4, <1>6, <1>8, <1>9 DEF ClientRc
  <1>11. \A f \in Entity : f # e => wait'[f] = wait[f] BY <1>7, <1>10 DEF TypeOK
  <1>12. ~wait'[e] BY <1>7, <1>10 DEF TypeOK
  <1>13. /\ clFc \subseteq fcPend /\ 0 \notin fcPend /\ fcId[0] = 0
         /\ \A c \in ChansOf(e) : c \in Chan /\ Owner[c] = e /\ Flow(g, c)
    BY <1>3, FlowsAt
  <1>14. a \in ChansOf(e) /\ a # 0 /\ 0 \in ChanNo /\ a \in ChanNo
    BY <1>1, <1>4, <1>6, OwnChannel DEF XdiAssumption, ChanNo
  <1>15. fcId' = [fcId EXCEPT ![a] = d] /\ fcId \in [ChanNo -> Ids \cup {0}]
    BY <1>1, <1>4, <1>7 DEF TypeOK
  <1>16. FlowDone(g, e, a, d)
    <2>f. Flow(g, a) /\ e = Owner[a] /\ d = ent[e].Id BY <1>3, <1>4, <1>13, <1>14
    <2>1. Says(g, a, d, "OK_FC") = {p}
      <3>1. g.R[p].Rc = "OK_FC" /\ g.R[p].RcCh = a BY <1>1, <1>4, KnownIs
      <3>2. QED BY <3>1, <1>5 DEF Says
    <2>2. LabelsFollow(Lab(g, a, d), {p}, a \in clFc)
      <3>1. LabelsFollow(Lab(g, a, d), Says(g, a, d, "OK_FC"), a \in clFc)
        BY <2>f, FlowParts
      <3>2. QED BY <3>1, <2>1
    <2>3. <<a, d>> \in held => HeldFor(Lab(g, a, d), {p}, a \in clFc)
      <3>1. <<a, d>> \in held => HeldFor(Lab(g, a, d), Says(g, a, d, "OK_FC"), a \in clFc)
        BY <2>f, FlowParts
      <3>2. QED BY <3>1, <2>1
    <2>4. <<a, d>> \in held \/ \E j \in Lab(g, a, d) : j > p
      BY <2>f, <2>1, FlowParts
    <2>5. \A l \in Lab(g, a, d) : l \in Int /\ p \in Int /\ p < l
      <3>1. \A l \in Lab(g, a, d) : l \in RLive(g) /\ l # p
        <4>1. g.R[p].Ext # "OK_FC" BY <1>1, <1>3, <1>4, KnownIs
        <4>2. QED BY <4>1 DEF Lab, Labels
      <3>2. \A k \in RLive(g) : k \in Int /\ p \in Int /\ p <= k
        BY <1>4, <1>7, HeadFirst
      <3>3. QED BY <3>1, <3>2
    <2>6. \A j \in Lab(g, a, d) : \A l \in Lab(g, a, d) : l >= j
      BY <2>2, <2>5 DEF LabelsFollow
    <2>7. <<a, d>> \in held => Lab(g, a, d) = {} BY <2>3, <2>5 DEF HeldFor
    <2>8. a \in clFc' /\ fcId'[a] = d BY <1>10, <1>14, <1>15
    <2>9. <<a, d>> \in held \/ Lab(g, a, d) # {} BY <2>4
    <2>10. QED BY <2>6, <2>7, <2>8, <2>9 DEF FlowDone
  <1>17. \A b \in ChanNo : b # a =>
         /\ (b \in fcPend' <=> b \in fcPend) /\ (b \in clFc' <=> b \in clFc)
         /\ (b \in clSkip => b \in clSkip') /\ fcId'[b] = fcId[b]
    BY <1>10, <1>15
  <1>18. clFc' \subseteq fcPend' /\ 0 \notin fcPend' /\ fcId'[0] = 0
    BY <1>10, <1>13, <1>14, <1>15
  <1>19. Finished(g, r, e)
    BY <1>1, <1>4, <1>8, <1>11, <1>12, <1>16, <1>17, <1>18 DEF Finished
  <1>20. QED BY <1>1, <1>2, <1>3, <1>5, <1>6, <1>19, FinishKeeps

\* What the end of the request does to the entity alone
Ended(e) ==
    /\ \A f \in Entity : f # e => ent'[f] = ent[f]
    /\ ent'[e].Id = ent[e].Id /\ ent'[e].No = ent[e].No
    /\ ent'[e].Req = ent[e].Req /\ ent'[e].ReqCh = ent[e].ReqCh
    /\ ent'[e].XMOREP = ent[e].XMOREP
    /\ ent'[e].XMOREC = 0 /\ ~ent'[e].XBUSY

\* A rejected request ends flow control of its channel.
LEMMA ErrFinishes ==
    ASSUME XdiAssumption, Marked, NEW g, Whole(g), TypeOK', NEW i \in Slot,
           NEW e \in Entity, NEW r, Known(r, i, e), r.Rc = "ERR",
           Unlink(r, i, e), Ended(e), ClientRc(e, ent'[e], r.Rc, r.RcCh),
           noCancel' = noCancel,
           \/ fcId' = fcId /\ i \in noCancel
           \/ fcId' = [fcId EXCEPT ![r.RcCh] = 0]
    PROVE  \E h : Whole(h)'
  <1>1. ~Removes(r, i) BY DEF Removes
  <1>2. r.Ext # "OK_FC" /\ r.RcId = ent[e].Id /\ ent[e].Id # 0 /\ ent[e].No = i
    BY KnownIs DEF RcForm
  <1>3. PICK p, d, a : p = g.got + 1 /\ d = r.RcId /\ a = r.RcCh OBVIOUS
  <1>4. ent[e].XMOREC = 1 /\ Plain(g, d) = {p} /\ Sent(g, d) = {}
    BY <1>1, <1>2, <1>3, OnlyPlain
  <1>5. /\ ent[e].Req # "REMOVE" /\ g.st[e] = "sent" /\ a \in Chan /\ a = ent[e].ReqCh
    BY <1>1, <1>2, <1>3, PlainIs
  <1>6. TypeOK /\ GhostType(g) BY Parts
  <1>7. Labelled BY <1>5 DEF Marked
  <1>8. /\ clFc \subseteq fcPend /\ 0 \notin fcPend /\ fcId[0] = 0
        /\ \A c \in ChansOf(e) : /\ c \in Chan /\ Owner[c] = e /\ Flow(g, c)
                                 /\ (fcId[c] # 0 => fcId[c] = ent[e].Id)
    BY <1>2, FlowsAt
  <1>9. a \in ChansOf(e) /\ a # 0 /\ 0 \in ChanNo /\ a \in ChanNo
    <2>1. a # 0 /\ 0 \in ChanNo BY <1>5 DEF XdiAssumption, ChanNo
    <2>2. a \in ChanNo /\ (a # 0 => a \in ChansOf(e)) BY <1>3, OwnChannel
    <2>3. QED BY <2>1, <2>2
  <1>f. Flow(g, a) /\ e = Owner[a] /\ d = ent[e].Id BY <1>2, <1>3, <1>8, <1>9
  <1>10. a \in clFc /\ Lab(g, a, d) = {} /\ <<a, d>> \notin held
    <2>1. p \in Says(g, a, d, "ERR")
      <3>1. g.R[p].Rc = "ERR" /\ g.R[p].RcCh = a BY <1>3, KnownIs
      <3>2. QED BY <3>1, <1>4 DEF Says
    <2>2. QED BY <2>1, <1>f, FlowParts
  <1>11. /\ fcPend' = fcPend \ {a} /\ clFc' = clFc \ {a} /\ clSkip' = clSkip
         /\ wait' = [wait EXCEPT ![e] = FALSE]
    BY <1>2, <1>3, <1>5, <1>7, <1>10 DEF ClientRc, Ended, Spares
  <1>12. ~wait'[e] /\ \A f \in Entity : f # e => wait'[f] = wait[f]
    BY <1>6, <1>11 DEF TypeOK
  <1>13. fcId \in [ChanNo -> Ids \cup {0}] BY <1>6 DEF TypeOK
  <1>14. /\ \A b \in ChanNo : b # a => fcId'[b] = fcId[b]
         /\ fcId'[a] = 0 \/ (fcId'[a] = fcId[a] /\ ent[e].No \in noCancel)
    BY <1>2, <1>3, <1>9, <1>13
  <1>15. FlowDone(g, e, a, d)
    <2>1. a \notin clFc' /\ (fcId'[a] # 0 => fcId'[a] = d /\ ent[e].No \in noCancel) /\ d # 0
      BY <1>f, <1>2, <1>8, <1>9, <1>11, <1>14
    <2>2. QED BY <2>1, <1>10 DEF FlowDone
  <1>16. \A b \in ChanNo : b # a =>
         /\ (b \in fcPend' <=> b \in fcPend) /\ (b \in clFc' <=> b \in clFc)
         /\ (b \in clSkip => b \in clSkip') /\ fcId'[b] = fcId[b]
    BY <1>11, <1>14
  <1>17. clFc' \subseteq fcPend' /\ 0 \notin fcPend' /\ fcId'[0] = 0
    BY <1>8, <1>9, <1>11, <1>14
  <1>18. Finished(g, r, e)
    BY <1>3, <1>12, <1>15, <1>16, <1>17 DEF Finished, Ended
  <1>19. QED BY <1>1, <1>2, <1>4, <1>5, <1>18, FinishKeeps

\* The ordinary answer to the last or only part of a request
LEMMA OkFinishes ==
    ASSUME XdiAssumption, NEW g, Whole(g), TypeOK', NEW i \in Slot,
           NEW e \in Entity, NEW r, Known(r, i, e), r.Rc = "OK", r.Ext # "OK_FC",
           ~Removes(r, i), g.st[e] = "sent", ent[e].XMOREC = 1,
           Unlink(r, i, e), Ended(e), ClientRc(e, ent'[e], r.Rc, r.RcCh),
           noCancel' = noCancel, fcId' = fcId
    PROVE  \E h : Whole(h)'
  <1>2. r.RcId = ent[e].Id /\ ent[e].Id # 0 BY KnownIs
  <1>3. PICK p, d, a : p = g.got + 1 /\ d = r.RcId /\ a = r.RcCh OBVIOUS
  <1>4. Plain(g, d) = {p} /\ Sent(g, d) = {} BY <1>3, OnlyPlain
  <1>5. /\ ent[e].Req # "REMOVE" /\ a = ent[e].ReqCh
    BY <1>3, PlainIs
  <1>6. TypeOK /\ GhostType(g) BY Parts
  <1>8. /\ clFc \subseteq fcPend /\ 0 \notin fcPend /\ fcId[0] = 0
        /\ \A c \in ChansOf(e) : /\ c \in Chan /\ Owner[c] = e /\ Flow(g, c)
                                 /\ (c \in clFc => fcId[c] = ent[e].Id)
                                 /\ (fcId[c] # 0 => fcId[c] = ent[e].Id)
    BY <1>2, FlowsAt
  <1>9. a \in ChanNo /\ (a # 0 => a \in ChansOf(e)) BY <1>3, OwnChannel
  <1>10. a \notin clFc
    <2> SUFFICES ASSUME a \in clFc PROVE FALSE OBVIOUS
    <2>1. a \in ChansOf(e) BY <1>8, <1>9
    <2>f. Flow(g, a) /\ e = Owner[a] /\ d = ent[e].Id BY <2>1, <1>2, <1>3, <1>8
    <2>2. p \in Says(g, a, d, "OK")
      <3>1. g.R[p].Rc = "OK" /\ g.R[p].RcCh = a BY <1>3, KnownIs
      <3>2. QED BY <3>1, <1>4 DEF Says
    <2>3. \E j \in Lab(g, a, d) : j < p BY <2>2, <2>f, FlowParts
    <2>4. \A j \in Lab(g, a, d) : j \in RLive(g) BY DEF Lab, Labels
    <2>5. \A k \in RLive(g) : k \in Int /\ p \in Int /\ p <= k
      BY <1>3, <1>6, HeadFirst
    <2>6. QED BY <2>3, <2>4, <2>5
  <1>11. /\ fcPend' = fcPend \ {a} /\ clFc' = clFc /\ clSkip' = clSkip
         /\ wait' = [wait EXCEPT ![e] = FALSE]
    BY <1>2, <1>3, <1>5, <1>10 DEF ClientRc, Ended, Spares
  <1>12. ~wait'[e] /\ \A f \in Entity : f # e => wait'[f] = wait[f]
    BY <1>6, <1>11 DEF TypeOK
  <1>15. a # 0 => FlowDone(g, e, a, d)
    <2> SUFFICES ASSUME a # 0 PROVE FlowDone(g, e, a, d) OBVIOUS
    <2>f. Flow(g, a) /\ e = Owner[a] /\ d = ent[e].Id BY <1>2, <1>3, <1>8, <1>9
    <2>1. Says(g, a, d, "OK_FC") = {}
      <3>1. g.R[p].Rc = "OK" BY <1>3, KnownIs
      <3>2. QED BY <3>1, <1>4 DEF Says
    <2>2. LabelsFollow(Lab(g, a, d), Says(g, a, d, "OK_FC"), a \in clFc)
      BY <2>f, FlowParts
    <2>3. <<a, d>> \in held => HeldFor(Lab(g, a, d), Says(g, a, d, "OK_FC"), a \in clFc)
      BY <2>f, FlowParts
    <2>4. fcId[a] = d /\ ent[e].No \notin noCancel => a \in clFc
      BY <2>f, FlowParts
    <2>5. Lab(g, a, d) = {} BY <2>1, <2>2, <1>10 DEF LabelsFollow
    <2>6. <<a, d>> \notin held BY <2>1, <2>3, <1>10 DEF HeldFor
    <2>7. fcId[a] # 0 => fcId[a] = d BY <1>2, <1>3, <1>8, <1>9
    <2>8. QED BY <2>4, <2>5, <2>6, <2>7, <1>10, <1>11 DEF FlowDone
  <1>16. \A b \in ChanNo : b # a =>
         /\ (b \in fcPend' <=> b \in fcPend) /\ (b \in clFc' <=> b \in clFc)
         /\ (b \in clSkip => b \in clSkip') /\ fcId'[b] = fcId[b]
    BY <1>11
  <1>17. clFc' \subseteq fcPend' /\ 0 \notin fcPend' /\ fcId'[0] = 0
    BY <1>8, <1>10, <1>11
  <1>18. Finished(g, r, e)
    BY <1>3, <1>12, <1>15, <1>16, <1>17 DEF Finished, Ended
  <1>19. QED BY <1>3, <1>4, <1>5, <1>18, FinishKeeps

\* One return code less, more are to come.
LEMMA CountMore ==
    ASSUME XdiAssumption, NEW g, Whole(g), TypeOK', NEW i \in Slot,
           NEW e \in Entity, NEW r, Known(r, i, e), r.Rc = "OK", r.Ext # "OK_FC",
           ~Removes(r, i), Unlink(r, i, e), UNCHANGED clientVars,
           noCancel' = noCancel, fcId' = fcId,
           ent' = [ent EXCEPT ![e] = Counted(r, i, e)],
           ~Answered(ent'[e], i, r)
    PROVE  \E h : Whole(h)'
  <1>0. PICK p, d, a, s : p = g.got + 1 /\ d = r.RcId /\ a = r.RcCh /\ s = g.st[e] OBVIOUS
  <1>st. PICK st : st = [g.st EXCEPT ![e] = s] OBVIOUS
  <1>h. PICK h : Took(g, h, st) BY DEF Took
  <1>2. TypeOK /\ GhostType(g) BY Parts
  <1>3. st \in [Entity -> Stage] /\ st[e] = g.st[e] /\ s \in Stage
    BY <1>0, <1>st, <1>2, GhostParts
  <1>4. /\ d = ent[e].Id /\ d # 0 /\ r = g.R[p] /\ r.Reference = 0 /\ HasSlot(e)
    BY <1>0, KnownIs
  <1>5. /\ pc = "rc" /\ rcBuf # <<>> /\ r = Head(rcBuf) /\ rcBuf' = Tail(rcBuf)
        /\ UNCHANGED <<tbl, next, ref, queueVars, IdTable, rmPending, trapped, pc,
                       phase, cur, irq, outq, inbox, batch, cardIds, held>>
    BY KeepFrame
  <1>6. TakenStep(g, h, r, i, e, st)
    BY <1>h, <1>3, <1>5 DEF TakenStep
  <1>7. /\ h.R = g.R /\ Labels(h, d) = Labels(g, d) /\ h.st = st
        /\ Plain(h, d) = Plain(g, d) \ {p}
    <2>1. p = g.got + 1 /\ d = r.RcId BY <1>0
    <2>2. QED BY <1>6, <2>1, Taken
  <1>8. /\ ent[e].Req # "REMOVE" /\ s \in {"queued", "sent"}
        /\ wait[e] /\ ent[e].XMOREC \in Nat /\ ent[e].XMOREC >= 1
    BY <1>0, PlainIs
  <1>9. /\ ent'[e].Id = ent[e].Id /\ ent'[e].No = ent[e].No
        /\ ent'[e].Req = ent[e].Req /\ ent'[e].ReqCh = ent[e].ReqCh
        /\ ent'[e].XMOREP = ent[e].XMOREP
        /\ ent'[e].XMOREF = ent[e].XMOREF /\ ent'[e].XBUSY = ent[e].XBUSY
        /\ ent'[e].XNum = ent[e].XNum
        /\ ent'[e].XMOREC = ent[e].XMOREC - 1
        /\ \A f \in Entity : f # e => ent'[f] = ent[f]
    <2>1. ent'[e] = Counted(r, i, e) /\ \A f \in Entity : f # e => ent'[f] = ent[f]
      BY <1>2 DEF TypeOK
    <2>2. LET y == Counted(r, i, e) IN
              /\ y.Id = ent[e].Id /\ y.No = ent[e].No /\ y.Req = ent[e].Req
              /\ y.ReqCh = ent[e].ReqCh /\ y.XMOREP = ent[e].XMOREP
              /\ y.XMOREF = ent[e].XMOREF /\ y.XBUSY = ent[e].XBUSY
              /\ y.XNum = ent[e].XNum
              /\ y.XMOREC = ent[e].XMOREC - 1
      BY <1>2, <1>8, EndFields
    <2>3. QED BY <2>1, <2>2
  <1>10. EntityAt(e, s) BY <1>0, Parts
  <1>11. s = "sent" => ent'[e].XMOREC # 0
    BY <1>9, <1>10 DEF EntityAt, Answered
  <1>12. EntityAt(e, s)'
    <2>1. HasSlot(e)' BY <1>4, <1>5, <1>9 DEF HasSlot
    <2>2. ent'[e].XMOREC \in Nat /\ ent'[e].XMOREC <= ent[e].XMOREC
      BY <1>8, <1>9
    <2>3. CASE s = "sent"
      <3>1. ent'[e].XMOREC >= 1 /\ ent[e].XMOREC # 1 BY <2>2, <2>3, <1>8, <1>9, <1>11
      <3>2. ent[e].Req = "DATA" BY <3>1, <2>3, <1>10 DEF EntityAt
      <3>3. QED BY <2>1, <2>3, <3>1, <3>2, <1>4, <1>8, <1>9, <1>10
        DEF EntityAt, clientVars, ChansOf
    <2>4. CASE s = "queued"
      <3>1. ent[e].XMOREP /\ ent[e].Req = "DATA"
        BY <2>4, <1>8, <1>10 DEF EntityAt
      <3>2. /\ ~ent[e].XMOREF /\ ent[e].XNum >= 1 /\ ent[e].XMOREC + ent[e].XNum <= MaxFrag
            /\ ent[e].XBUSY /\ ent[e].ReqCh \in ChansOf(e) \cup {0}
        BY <2>4, <1>10 DEF EntityAt
      <3>3. ent'[e].XMOREC + ent'[e].XNum <= MaxFrag
        <4>1. ent[e].XNum \in Nat /\ MaxFrag \in Nat
          <5>1. ent[e].XNum \in 0..MaxFrag BY <1>2, EntityTypes
          <5>2. QED BY <5>1 DEF XdiAssumption
        <4>2. QED BY <4>1, <3>2, <1>8, <1>9
      <3>4. QED BY <2>1, <2>4, <3>1, <3>2, <3>3, <1>4, <1>8, <1>9 
        DEF EntityAt, clientVars, ChansOf
    <2>5. QED BY <2>3, <2>4, <1>8
  <1>13. Msgs(h, e)' BY <1>3, <1>6, <1>9, MsgsCount
  <1>14. /\ clFc \subseteq fcPend /\ 0 \notin fcPend /\ fcId[0] = 0
         /\ \A c \in ChansOf(e) : /\ c \in Chan /\ Owner[c] = e /\ Flow(g, c)
                                  /\ (c \in clFc => fcId[c] = ent[e].Id)
                                  /\ (fcId[c] # 0 => fcId[c] = ent[e].Id)
    BY <1>4, FlowsAt
  <1>15. \A c \in ChansOf(e) : Flow(h, c)'
    <2> TAKE c \in ChansOf(e)
    <2>f. Flow(g, c) /\ e = Owner[c] /\ d = ent[e].Id BY <1>4, <1>14
    <2>1. Lab(h, c, d) = Lab(g, c, d) BY <1>7 DEF Lab
    <2>2. \A rc : rc # "OK" => Says(h, c, d, rc) = Says(g, c, d, rc)
      BY <1>4, <1>7 DEF Says
    <2>3. Says(h, c, d, "OK") \subseteq Says(g, c, d, "OK")
      BY <1>7 DEF Says
    <2>4. Says(h, c, d, "OK_FC") = Says(g, c, d, "OK_FC") BY <2>2
    <2>5. Says(h, c, d, "ERR") = Says(g, c, d, "ERR") BY <2>2
    <2>6. /\ ent'[e].Id = d /\ ent'[e].No = ent[e].No /\ ent'[e].Req = ent[e].Req
          /\ ent'[e].ReqCh = ent[e].ReqCh /\ wait' = wait /\ clFc' = clFc
          /\ fcPend' = fcPend /\ clSkip' = clSkip /\ held' = held
      BY <1>4, <1>5, <1>9 DEF clientVars
    <2>7. QED BY <2>f, <2>1, <2>3, <2>4, <2>5, <2>6 DEF Flow
  <1>16. RcKeepStep(g, h, e, s)
    BY <1>0, <1>st, <1>h, <1>3, <1>4, <1>5, <1>9, <1>12, <1>13, <1>14, <1>15
    DEF RcKeepStep, clientVars, ChansOf
  <1>17. QED BY <1>16, RcKeep

\* RcCount and RcCancel when the entity keeps its Id
LEMMA CountKeeps ==
    ASSUME XdiAssumption, Marked, NEW g, Whole(g), TypeOK', NEW i \in Slot,
           NEW e \in Entity, NEW r, r = Head(rcBuf), Known(r, i, e),
           r.Rc # "OK_FC", r.Ext # "OK_FC", ~Cancels(r, i), ~Removes(r, i),
           Unlink(r, i, e), fcId' = FcLeft(r, i), noCancel' = NoCancelLeft(r, i),
           LET x == Counted(r, i, e) IN
             IF Answered(x, i, r)
             THEN /\ ent' = [ent EXCEPT ![e] = Completed(x)]
                  /\ ClientRc(e, ent'[e], r.Rc, r.RcCh)
             ELSE ent' = [ent EXCEPT ![e] = x] /\ UNCHANGED clientVars
    PROVE  \E h : Whole(h)'
  <1>1. fcId' = fcId /\ noCancel' = noCancel BY DEF FcLeft, NoCancelLeft
  <1>2. TypeOK /\ GhostType(g) BY Parts
  <1>3. r.Rc \in {"OK", "ERR"} /\ r.RcId = ent[e].Id /\ ent[e].No = i BY KnownIs
  <1>4. /\ g.st[e] \in {"queued", "sent"} /\ (r.Rc # "OK" => g.st[e] = "sent")
        /\ ent[e].XMOREC >= 1 /\ ent[e].XMOREC \in Nat
    BY PlainIs
  <1>5. EntityAt(e, g.st[e]) BY Parts
  <1>6. PICK x : x = Counted(r, i, e) OBVIOUS
  <1>7. /\ x.XMOREP = ent[e].XMOREP /\ x.XMOREF = ent[e].XMOREF
        /\ x.XMOREC = ent[e].XMOREC - 1
    <2>1. LET y == Counted(r, i, e) IN
              /\ y.Id = ent[e].Id /\ y.No = ent[e].No /\ y.Req = ent[e].Req
              /\ y.ReqCh = ent[e].ReqCh /\ y.XMOREP = ent[e].XMOREP
              /\ y.XMOREF = ent[e].XMOREF /\ y.XBUSY = ent[e].XBUSY
              /\ y.XNum = ent[e].XNum
              /\ y.XMOREC = ent[e].XMOREC - 1
      BY <1>2, <1>4, EndFields
    <2>2. QED BY <2>1, <1>6
  <1>8. CASE Answered(x, i, r)
    <2>1. x.XMOREC = 0 /\ ~x.XMOREP BY <1>8 DEF Answered
    <2>2. ent[e].XMOREC = 1 /\ g.st[e] = "sent"
      BY <2>1, <1>4, <1>5, <1>7 DEF EntityAt
    <2>3. ent' = [ent EXCEPT ![e] = Completed(x)] /\ ClientRc(e, ent'[e], r.Rc, r.RcCh)
      BY <1>6, <1>8
    <2>4. Ended(e)
      <3>1. ent'[e] = Completed(Counted(r, i, e)) /\ \A f \in Entity : f # e => ent'[f] = ent[f]
        BY <2>3, <1>2, <1>6 DEF TypeOK
      <3>2. LET y == Completed(Counted(r, i, e)) IN
              /\ y.Id = ent[e].Id /\ y.No = ent[e].No /\ y.Req = ent[e].Req
              /\ y.ReqCh = ent[e].ReqCh /\ y.XMOREP = ent[e].XMOREP
              /\ y.XMOREC = ent[e].XMOREC - 1 /\ ~y.XBUSY
        BY <1>2, <1>4, EndFields
      <3>3. QED BY <3>1, <3>2, <2>2 DEF Ended
    <2>5. CASE r.Rc = "OK"
      BY <2>2, <2>3, <2>4, <2>5, <1>1, OkFinishes
    <2>6. CASE r.Rc = "ERR"
      <3>1. i \in noCancel
        <4> SUFFICES ASSUME i \notin noCancel PROVE FALSE OBVIOUS
        <4>1. fcId[r.RcCh] # r.RcId BY DEF Cancels, NoCancelLeft, FcLeft
        <4>2. PICK p, d, a : p = g.got + 1 /\ d = r.RcId /\ a = r.RcCh OBVIOUS
        <4>3. a \in ChansOf(e) /\ ent[e].Id # 0 /\ r = g.R[p] /\ p \in Plain(g, d)
          <5>1. a \in Chan BY <4>2, <2>6, PlainIs
          <5>2. a # 0 BY <5>1 DEF XdiAssumption
          <5>3. ent[e].Id # 0 /\ r = g.R[p] /\ p \in Plain(g, d) BY <4>2, KnownIs
          <5>4. a # 0 => a \in ChansOf(e) BY <4>2, OwnChannel
          <5>5. QED BY <5>2, <5>3, <5>4
        <4>4. \A c \in ChansOf(e) : /\ c \in Chan /\ Owner[c] = e /\ Flow(g, c)
                                    /\ (c \in clFc => fcId[c] = ent[e].Id)
          BY <4>3, FlowsAt
        <4>f. Flow(g, a) /\ e = Owner[a] /\ d = ent[e].Id BY <4>2, <4>3, <4>4, <1>3
        <4>5. p \in Says(g, a, d, "ERR") BY <4>2, <4>3, <2>6 DEF Says
        <4>6. a \in clFc BY <4>5, <4>f, FlowParts
        <4>7. QED BY <4>1, <4>2, <4>3, <4>4, <4>6, <1>3
      <3>2. QED BY <2>3, <2>4, <2>6, <3>1, <1>1, ErrFinishes
    <2>7. QED BY <2>5, <2>6, <1>3
  <1>9. CASE ~Answered(x, i, r)
    <2>1. ent' = [ent EXCEPT ![e] = x] /\ UNCHANGED clientVars BY <1>6, <1>9
    <2>2. r.Rc = "OK"
      <3> SUFFICES ASSUME r.Rc # "OK" PROVE FALSE OBVIOUS
      <3>1. ent[e].XMOREC = 1 BY OnlyPlain
      <3>2. ent[e].XMOREF /\ ~ent[e].XMOREP BY <1>4, <1>5 DEF EntityAt
      <3>3. QED BY <3>1, <3>2, <1>7, <1>9 DEF Answered
    <2>3. ~Answered(ent'[e], i, r) BY <2>1, <1>2, <1>9 DEF TypeOK
    <2>4. ent' = [ent EXCEPT ![e] = Counted(r, i, e)] BY <2>1, <1>6
    <2>5. QED BY <2>1, <2>2, <2>3, <2>4, <1>1, CountMore
  <1>10. QED BY <1>8, <1>9

\* A return code that cancels flow control gives its channel back.
LEMMA CancelKeeps ==
    ASSUME XdiAssumption, Marked, NEW g, Whole(g), TypeOK', NEW i \in Slot,
           NEW e \in Entity, NEW r, r = Head(rcBuf), Known(r, i, e),
           Cancels(r, i), ~Removes(r, i), Unlink(r, i, e),
           fcId' = [FcLeft(r, i) EXCEPT ![r.RcCh] = 0],
           noCancel' = NoCancelLeft(r, i),
           IF r.Rc # "OK" \/ r.RcCh \notin fcSkip
           THEN /\ ent' = [ent EXCEPT ![e] = Release(Stripped(r, i, e), r.RcCh)]
                /\ ClientRc(e, ent'[e], r.Rc, r.RcCh)
           ELSE ent' = [ent EXCEPT ![e] = Stripped(r, i, e)] /\ UNCHANGED clientVars
    PROVE  \E h : Whole(h)'
  <1>1. fcId' = [fcId EXCEPT ![r.RcCh] = 0] /\ noCancel' = noCancel
    BY DEF FcLeft, NoCancelLeft
  <1>2. TypeOK /\ GhostType(g) BY Parts
  <1>3. r.Rc \in {"OK", "ERR"} /\ r.RcId = ent[e].Id /\ ent[e].No = i /\ ent[e].Id # 0
        /\ r.Ext # "OK_FC"
    BY KnownIs DEF Cancels
  <1>4. i \notin noCancel /\ fcId[r.RcCh] = r.RcId
    BY DEF Cancels, NoCancelLeft, FcLeft
  <1>5. r.Rc = "ERR"
    <2> SUFFICES ASSUME r.Rc = "OK" PROVE FALSE BY <1>3
    <2>2. PICK p, d, a : p = g.got + 1 /\ d = r.RcId /\ a = r.RcCh OBVIOUS
    <2>3. /\ fcId[0] = 0
          /\ \A c \in ChansOf(e) : c \in Chan /\ Owner[c] = e /\ Flow(g, c)
      BY <1>3, FlowsAt
    <2>4. a # 0 => a \in ChansOf(e) BY <2>2, OwnChannel
    <2>5. a \in ChansOf(e) BY <2>2, <2>3, <2>4, <1>3, <1>4
    <2>f. Flow(g, a) /\ e = Owner[a] /\ d = ent[e].Id BY <2>2, <2>3, <2>5, <1>3
    <2>6. a \in clFc
      <3>1. fcId[a] = d /\ ent[e].No \notin noCancel BY <2>2, <1>3, <1>4
      <3>2. QED BY <3>1, <2>f, FlowParts
    <2>7. p \in Says(g, a, d, "OK")
      <3>1. r = g.R[p] /\ p \in Plain(g, ent[e].Id) BY <2>2, <1>3, KnownIs
      <3>2. QED BY <3>1, <2>2, <1>3 DEF Says
    <2>8. \E j \in Lab(g, a, d) : j < p BY <2>7, <2>6, <2>f, FlowParts
    <2>9. \A j \in Lab(g, a, d) : j \in RLive(g) BY DEF Lab, Labels
    <2>10. \A k \in RLive(g) : k \in Int /\ p \in Int /\ p <= k
      BY <2>2, <1>2, HeadFirst
    <2>11. QED BY <2>8, <2>9, <2>10
  <1>6. /\ ent' = [ent EXCEPT ![e] = Accepted(ent[e])]
        /\ ClientRc(e, ent'[e], r.Rc, r.RcCh)
    <2>1. r.RcCh = ent[e].ReqCh BY <1>3, PlainIs
    <2>2. QED BY <2>1, <1>5 DEF Release, Stripped
  <1>7. Ended(e)
    <2>1. ent'[e] = Accepted(ent[e]) /\ \A f \in Entity : f # e => ent'[f] = ent[f]
      BY <1>2, <1>6 DEF TypeOK
    <2>2. ent[e].XMOREC >= 1 BY <1>3, PlainIs
    <2>3. LET y == Accepted(ent[e]) IN
              /\ y.Id = ent[e].Id /\ y.No = ent[e].No /\ y.Req = ent[e].Req
              /\ y.ReqCh = ent[e].ReqCh /\ y.XMOREP = ent[e].XMOREP
              /\ y.XMOREC = 0 /\ ~y.XBUSY
      BY <2>2, <1>2, EndFields
    <2>4. QED BY <2>1, <2>3 DEF Ended
  <1>8. QED BY <1>1, <1>5, <1>6, <1>7, ErrFinishes

-----------------------------------------------------------------------------
(* The answer to a REMOVE: the entity leaves the tables *)

\* The return code of a REMOVE frees the slot and the id (isdn_rc).
ForgetStep(r, i, e) ==
    /\ i \in Slot /\ e \in Entity /\ Known(r, i, e) /\ Removes(r, i)
    /\ tbl' = [tbl EXCEPT ![i] = Null]
    /\ IdTable' = [IdTable EXCEPT ![r.RcId] = 0]
    /\ rmPending' = rmPending \ {i}
    /\ rcBuf' = Tail(rcBuf)
    /\ UNCHANGED <<next, ref, queueVars, trapped, pc, phase, cur, irq, outq, inbox,
                   batch, cardIds, held>>
    /\ \A f \in Entity : f # e => ent'[f] = ent[f] /\ wait'[f] = wait[f]
    /\ ent'[e].Id = 0 /\ ent'[e].No = ent[e].No /\ ent'[e].Req = ent[e].Req
    /\ ~wait'[e]
    /\ clFc' = clFc \ ChansOf(e) /\ fcPend' = fcPend \ ChansOf(e) /\ clSkip' = clSkip
    /\ fcId' = ForgetFc(r.RcId)
    /\ noCancel \ {i} \subseteq noCancel'

\* Only slot i leads to e while no ASSIGN is being dealt with.
LEMMA OneSlot ==
    ASSUME NEW g, Whole(g), NEW e \in Entity, NEW i \in Slot, tbl[i] = e,
           ent[e].No = i, cur.i = 0, Null \notin Entity
    PROVE  \A j \in Slot : tbl[j] = e => j = i
  <1>1. IdTableSound BY Parts
  <1>2. 0 \notin Slot BY DEF Slot
  <1>3. QED BY <1>1, <1>2 DEF IdTableSound

\* Freeing the slot and the id after a REMOVE keeps the invariant: nothing of
\* the old entity is under way.
LEMMA ForgetKeeps ==
    ASSUME XdiAssumption, NEW g, Whole(g), TypeOK', NEW i, NEW e, NEW r,
           ForgetStep(r, i, e)
    PROVE  \E h : Whole(h)'
  <1>0. i \in Slot /\ e \in Entity /\ Known(r, i, e) /\ Removes(r, i)
    BY DEF ForgetStep
  <1>1. PICK p, d : p = g.got + 1 /\ d = r.RcId OBVIOUS
  <1>st. PICK st : st = [g.st EXCEPT ![e] = "none"] OBVIOUS
  <1>h. PICK h : Took(g, h, st) BY DEF Took
  <1>2. /\ TypeOK /\ Ctl /\ IdTableSound /\ NoTrap
        /\ GhostType(g) /\ Pipes(g) /\ Forms(g)
        /\ Queue(g) /\ Assigns(g) /\ Refs(g)
        /\ Pending(g) /\ Flows(g) /\ held \subseteq Chan \X Ids
    BY Parts
  <1>3. st \in [Entity -> Stage] /\ st[e] = "none" /\ \A f \in Entity : f # e => st[f] = g.st[f]
    BY <1>st, <1>0, <1>2, GhostParts DEF Stage
  <1>4. /\ d = ent[e].Id /\ d # 0 /\ d \in Ids /\ r = g.R[p] /\ r.Reference = 0
        /\ tbl[i] = e /\ ent[e].No = i /\ cur.i = 0 /\ HasSlot(e)
        /\ r.Rc \in {"OK", "OK_FC", "ERR"} /\ p \in RLive(g)
    BY <1>0, <1>1, KnownIs
  <1>5. Removing(g, e) /\ r.Rc = "OK" BY <1>0, RemovesIs
  <1>6. pc = "rc" /\ rcBuf # <<>> /\ r = Head(rcBuf) BY <1>0 DEF Known, InRc
  <1>7. UNCHANGED <<next, ref, head, tail, assign, trapped, pc, phase, cur, irq, outq, inbox,
                    batch, cardIds, held>>
    BY DEF ForgetStep, queueVars
  <1>8. TakenStep(g, h, r, i, e, st)
    BY <1>0, <1>h, <1>3, <1>7 DEF TakenStep, ForgetStep
  <1>9. /\ GhostType(h) /\ Pipes(h)' /\ SameItems(g, h)
        /\ h.q = g.q /\ h.out = g.out /\ h.S = g.S /\ h.done = g.done
        /\ h.ans = g.ans /\ h.R = g.R /\ h.got = p /\ h.Q = g.Q
        /\ h.tk = g.tk /\ h.st = st
        /\ RLive(h) = RLive(g) \ {p} /\ RqLive(h) = RqLive(g)
        /\ \A x : x # 0 /\ x # d => SameMsgs(g, h, x)
        /\ Sent(h, d) = Sent(g, d) /\ News(h, d) = News(g, d)
    BY <1>1, <1>8, Taken
  <1>10. e # Null /\ 0 \notin Slot /\ 0 \notin Ids /\ Null \notin Entity
    BY <1>0 DEF XdiAssumption, Slot
  <1>11. \A j \in Slot : tbl[j] = e => j = i
    BY <1>0, <1>4, <1>10, OneSlot
  <1>12. /\ tbl' = [tbl EXCEPT ![i] = Null] /\ tbl \in [Slot -> Entity \cup {Null}]
         /\ tbl'[i] = Null /\ \A j \in Slot : j # i => tbl'[j] = tbl[j]
         /\ \A j \in Slot : tbl'[j] # e
    BY <1>0, <1>2, <1>10, <1>11 DEF TypeOK, ForgetStep
  <1>13. /\ IdTable' = [IdTable EXCEPT ![d] = 0] /\ IdTable'[d] = 0
         /\ \A x \in Ids : x # d => IdTable'[x] = IdTable[x]
    BY <1>1, <1>2, <1>4 DEF TypeOK, ForgetStep
  <1>14. /\ \A f \in Entity : f # e => ent'[f] = ent[f] /\ wait'[f] = wait[f]
         /\ ent'[e].Id = 0 /\ ent'[e].No = ent[e].No /\ ent'[e].Req = ent[e].Req
         /\ ~wait'[e]
    BY DEF ForgetStep
  <1>15. \A f \in Entity : f # e => ent[f].Id # d
    BY <1>0, <1>4, UniqueId
  <1>16. \A f \in Entity : f # e => ent[f].No # i \/ ~HasSlot(f)
    BY <1>4 DEF HasSlot
  <1>17. g.st[e] = "sent" /\ ent[e].Req = "REMOVE" BY <1>5 DEF Removing
  <1>18. \A f \in Entity : /\ h.st[f] \in {"asks", "queued"} <=> g.st[f] \in {"asks", "queued"}
                           /\ h.st[f] = "asked" <=> g.st[f] = "asked"
                           /\ (f # e => (Removing(h, f)' <=> Removing(g, f)))
                           /\ (Removing(h, f)' => Removing(g, f))
                           /\ ent'[f].No = ent[f].No
    BY <1>3, <1>9, <1>14, <1>17 DEF Removing
  <1>19. Ctl'
    BY <1>2, <1>6, <1>7 DEF Ctl
  <1>20. IdTableSound'
    <2>1. ASSUME NEW x \in Ids, IdTable'[x] # 0
          PROVE  LET j == IdTable'[x] IN
                 tbl'[j] # Null /\ ent'[tbl'[j]].Id = x /\ ent'[tbl'[j]].No = j
      <3>1. x # d /\ IdTable'[x] = IdTable[x] BY <2>1, <1>13
      <3>2. PICK j : j = IdTable[x] OBVIOUS
      <3>3. j \in Slot
        <4>1. IdTable[x] \in 0..EMax /\ EMax \in Nat BY <1>2 DEF TypeOK, XdiAssumption
        <4>2. QED BY <4>1, <3>1, <3>2, <2>1 DEF Slot
      <3>4. tbl[j] # Null /\ ent[tbl[j]].Id = x /\ ent[tbl[j]].No = j
        BY <1>2, <2>1, <3>1, <3>2 DEF IdTableSound
      <3>5. tbl[j] \in Entity /\ tbl[j] # e BY <3>1, <3>3, <3>4, <1>4, <1>12
      <3>6. j # i BY <3>5, <1>4
      <3>7. QED BY <3>1, <3>2, <3>3, <3>4, <3>5, <3>6, <1>12, <1>14
    <2>2. ASSUME NEW f \in Entity, ent'[f].Id # 0
          PROVE  \/ IdTable'[ent'[f].Id] = ent'[f].No
                 \/ cur' = [i |-> ent'[f].No, Id |-> ent'[f].Id, ok |-> TRUE]
      <3>1. f # e /\ ent'[f] = ent[f] BY <2>2, <1>14
      <3>2. ent[f].Id \in Ids /\ ent[f].Id # d
        BY <2>2, <3>1, <1>2, <1>15, EntityTypes
      <3>3. QED BY <3>1, <3>2, <2>2, <1>2, <1>7, <1>13 DEF IdTableSound
    <2>3. ASSUME NEW j \in Slot, tbl'[j] # Null PROVE ent'[tbl'[j]].No = j \/ cur'.i = j
      <3>1. tbl'[j] = tbl[j] /\ tbl[j] # Null BY <2>3, <1>12
      <3>2. tbl[j] \in Entity BY <3>1, <1>12
      <3>3. QED BY <3>1, <3>2, <1>2, <1>7, <1>18 DEF IdTableSound
    <2>4. QED BY <2>1, <2>2, <2>3 DEF IdTableSound
  <1>21. NoTrap' BY <1>2, <1>7 DEF NoTrap
  <1>22. Forms(h) BY <1>2, <1>9 DEF Forms, SameItems
  <1>23. \A f \in Entity : EntityAt(f, h.st[f])'
    <2> TAKE f \in Entity
    <2>1. CASE f = e
      <3>1. EntityAt(e, g.st[e]) BY <1>0, Parts
      <3>2. NoSlot(e)' BY <1>12 DEF NoSlot
      <3>3. QED BY <2>1, <3>1, <3>2, <1>3, <1>9, <1>14 DEF EntityAt
    <2>2. CASE f # e
      <3>1. EntityAt(f, g.st[f]) BY Parts
      <3>2. HasSlot(f) => HasSlot(f)'
        BY <2>2, <1>12, <1>14, <1>16 DEF HasSlot
      <3>3. NoSlot(f) => NoSlot(f)'
        BY <1>7, <1>10, <1>12 DEF NoSlot
      <3>4. EntityAt(f, g.st[f])'
        BY <3>1, <3>2, <3>3, <2>2, <1>14, EntityFrame
      <3>5. QED BY <3>4, <2>2, <1>3, <1>9
    <2>3. QED BY <2>1, <2>2
  <1>24. Queue(h)'
    <2>1. \A k \in QLive(g) : cur'.i # g.q[k] \/ cur'.ok
      BY <1>2, <1>7 DEF Queue
    <2>2. \A k \in QLive(g) : tbl'[g.q[k]] = tbl[g.q[k]]
      <3> TAKE k \in QLive(g)
      <3>1. g.q[k] \in Slot BY <1>2, GhostParts DEF QLive
      <3>2. tbl[g.q[k]] # e BY <1>2, <1>17 DEF Queue
      <3>3. QED BY <3>1, <3>2, <1>4, <1>12
    <2>3. QED BY <2>1, <2>2, <1>2, <1>7, <1>9, <1>18, QueueFrame
  <1>25. \A k \in SLive(g) : g.S[k] \in Slot /\ tbl'[g.S[k]] = tbl[g.S[k]] /\ tbl[g.S[k]] # e
    <2> TAKE k \in SLive(g)
    <2>1. g.S[k] \in Slot BY <1>2, GhostParts DEF SLive
    <2>2. tbl[g.S[k]] # e BY <1>2, <1>17 DEF Assigns
    <2>3. QED BY <2>1, <2>2, <1>4, <1>12
  <1>26. Assigns(h)'
    <2>1. \A k \in SLive(g) : cur'.i # g.S[k]
      BY <1>2, <1>7 DEF Assigns
    <2>2. QED BY <2>1, <1>2, <1>7, <1>9, <1>18, <1>25, AssignsFrame
  <1>27. Refs(h)'
    BY <1>2, <1>4, <1>7, <1>9, RefsFrame
  <1>28. \A x \in Ids : IdAt(h, x)'
    <2> TAKE x \in Ids
    <2>1. IdAt(g, x) BY Parts
    <2>2. CASE x # d
      <3>1. SameMsgs(g, h, x) BY <2>2, <1>9, <1>10
      <3>2. Unowned(x)' <=> Unowned(x) BY <2>2, <1>4, <1>10, <1>14 DEF Unowned
      <3>3. \A f \in Entity : ent'[f].Id = x => ent[f].Id = x /\ (Removing(g, f) => Removing(h, f)')
        BY <1>10, <1>14, <1>18
      <3>4. QED BY <2>1, <3>1, <3>2, <3>3, <1>7, <1>9, IdFrame
    <2>3. CASE x = d
      <3>1. \A k \in Sent(g, d) : g.Q[k].Req = "REMOVE"
        <4>1. Msgs(g, e) BY <1>0, Parts
        <4>2. QED BY <4>1, <1>4, <1>17 DEF Msgs, SentAt
      <3>2. \A k \in Sent(h, x) : /\ x \in cardIds'
                                  /\ (Unowned(x)' => h.Q[k].Req = "REMOVE")
                                  /\ (h.Q[k].Req = "REMOVE" => \A j \in Sent(h, x) : j = k)
        BY <2>1, <2>3, <3>1, <1>7, <1>9 DEF IdAt
      <3>3. \A k \in News(h, x) :
               /\ x \in cardIds' /\ Sent(h, x) = {}
               /\ \A y \in held' : y[2] # x
               /\ \A j \in RLive(h) : j > k => h.R[j].RcId # x
        BY <2>1, <2>3, <1>7, <1>9 DEF IdAt
      <3>4. \A f \in Entity : ent'[f].Id # x
        BY <2>3, <1>4, <1>14, <1>15
      <3>5. QED BY <3>2, <3>3, <3>4 DEF IdAt
    <2>4. QED BY <2>2, <2>3
  <1>29. \A c \in Chan, x \in Ids : <<c, x>> \in held' => HoldAt(h, c, x)'
    <2> TAKE c \in Chan, x \in Ids
    <2> HAVE <<c, x>> \in held'
    <2>1. HoldAt(g, c, x) BY <1>7, Parts
    <2>2. Owner[c] \in Entity BY DEF XdiAssumption
    <2>3. CASE x = d
      <3>1. ~Unowned(d) BY <1>0, <1>4 DEF Unowned
      <3>2. /\ c \in Chan /\ d \in cardIds /\ ent[Owner[c]].Id = d
            /\ (Removing(g, Owner[c]) => Sent(g, d) # {})
        BY <2>1, <2>3, <3>1 DEF HoldAt
      <3>3. Owner[c] = e BY <3>2, <2>2, <1>15
      <3>4. PICK k \in Sent(g, d) : TRUE BY <3>2, <3>3, <1>5
      <3>5. Unowned(d)' BY <1>4, <1>14, <1>15 DEF Unowned
      <3>6. \A n \in SLive(h) : tbl'[h.S[n]] # e
        BY <1>9, <1>12, <1>25 DEF SLive
      <3>7. QED BY <2>3, <3>2, <3>3, <3>4, <3>5, <3>6, <1>7, <1>9, <1>14 DEF HoldAt
    <2>4. CASE x # d
      <3>1. Owner[c] # e BY <2>1, <2>4, <1>4 DEF HoldAt
      <3>2. ent'[Owner[c]] = ent[Owner[c]] BY <3>1, <2>2, <1>14
      <3>3. Unowned(x) => Unowned(x)' BY <1>10, <1>14 DEF Unowned
      <3>4. Sent(h, x) = Sent(g, x) BY <2>4, <1>9, <1>10 DEF SameMsgs
      <3>5. \A k \in SLive(g) : ref[g.S[k]] # 0 BY <1>2 DEF Assigns
      <3>6. x \in cardIds BY <2>1 DEF HoldAt
      <3>7. Removing(h, Owner[c])' => Removing(g, Owner[c]) BY <1>18, <2>2
      <3>8. QED BY <2>1, <3>2, <3>3, <3>4, <3>5, <3>6, <3>7, <1>2, <1>7, <1>9, <1>25,
                   HoldFrame
    <2>5. QED BY <2>3, <2>4
  <1>30. held' \subseteq Chan \X Ids BY <1>2, <1>7
  <1>31. \A f \in Entity : Msgs(h, f)'
    <2> TAKE f \in Entity
    <2>1. CASE f = e BY <2>1, <1>14 DEF Msgs
    <2>2. CASE f # e
      <3>1. Msgs(g, f) BY Parts
      <3>2. CASE ent[f].Id = 0 BY <3>2, <2>2, <1>14 DEF Msgs
      <3>3. CASE ent[f].Id # 0
        <4>1. SameMsgs(g, h, ent[f].Id) BY <3>3, <2>2, <1>9, <1>15
        <4>2. SameEnt(g, h, f) BY <2>2, <1>3, <1>9, <1>14 DEF SameEnt
        <4>3. QED BY <3>1, <4>1, <4>2, <1>9, MsgsFrame
      <3>4. QED BY <3>2, <3>3
    <2>3. QED BY <2>1, <2>2
  <1>32. Pending(h)'
    <2>1. rmPending' = rmPending \ {i} BY DEF ForgetStep
    <2>2. ASSUME NEW j \in Slot
          PROVE  j \in rmPending' <=>
                   (tbl'[j] # Null /\ ent'[tbl'[j]].No = j /\ Removing(h, tbl[j])')
      <3>1. CASE j = i BY <3>1, <2>1, <1>12
      <3>2. CASE j # i
        <4>0. PICK f : f = tbl[j] OBVIOUS
        <4>1. tbl'[j] = f /\ f # e BY <3>2, <4>0, <1>12
        <4>2. j \in rmPending <=> (f # Null /\ ent[f].No = j /\ Removing(g, f))
          BY <4>0, <1>2 DEF Pending
        <4>3. CASE f = Null BY <4>1, <4>2, <4>3, <2>1, <3>2
        <4>4. CASE f # Null
          <5>1. f \in Entity BY <4>0, <4>4, <1>12
          <5>2. (Removing(h, f)' <=> Removing(g, f)) /\ ent'[f].No = ent[f].No
            BY <5>1, <4>1, <1>18
          <5>3. j \in rmPending' <=> j \in rmPending BY <2>1, <3>2
          <5>4. j \in rmPending' <=> (f # Null /\ ent'[f].No = j /\ Removing(h, f)')
            BY <4>2, <5>2, <5>3
          <5>5. QED BY <4>1, <5>4
        <4>5. QED BY <4>3, <4>4
      <3>3. QED BY <3>1, <3>2
    <2>3. QED BY <2>2 DEF Pending
  <1>33. Flows(h)'
    <2>0. \A c \in Chan : Owner[c] \in Entity /\ c \in ChanNo /\ c # 0
      BY DEF XdiAssumption, ChanNo
    <2>1. /\ clFc' = clFc \ ChansOf(e) /\ fcPend' = fcPend \ ChansOf(e) /\ clSkip' = clSkip
          /\ fcId' = ForgetFc(d) /\ noCancel \ {i} \subseteq noCancel'
      BY <1>1 DEF ForgetStep
    <2>2. \A c \in ChanNo : fcId'[c] = IF fcId[c] = d THEN 0 ELSE fcId[c]
      BY <2>1 DEF ForgetFc
    <2>3. \A c \in Chan : /\ (c \in fcPend => ent[Owner[c]].Id # 0)
                          /\ (c \in clFc => fcId[c] = ent[Owner[c]].Id)
                          /\ (fcId[c] # 0 => fcId[c] = ent[Owner[c]].Id)
                          /\ (ent[Owner[c]].Id # 0 => Flow(g, c))
      BY <1>2 DEF Flows
    <2>4. ASSUME NEW c \in Chan, Owner[c] = e
          PROVE  /\ c \notin fcPend' /\ c \notin clFc' /\ fcId'[c] = 0
      <3>1. c \in ChansOf(e) BY <2>4 DEF ChansOf
      <3>2. fcId'[c] = 0 BY <2>0, <2>2, <2>3, <2>4, <1>4
      <3>3. QED BY <3>1, <3>2, <2>1
    <2>5. ASSUME NEW c \in Chan, Owner[c] # e
          PROVE  /\ (c \in fcPend' <=> c \in fcPend) /\ (c \in clFc' <=> c \in clFc)
                 /\ fcId'[c] = fcId[c] /\ ent'[Owner[c]] = ent[Owner[c]]
                 /\ wait'[Owner[c]] = wait[Owner[c]]
      <3>1. c \notin ChansOf(e) BY <2>5 DEF ChansOf
      <3>2. ent[Owner[c]].Id # d BY <2>0, <2>5, <1>15
      <3>3. fcId[c] # d BY <2>3, <3>2, <1>4
      <3>4. QED BY <3>1, <3>3, <2>0, <2>1, <2>2, <2>5, <1>14
    <2>6. ASSUME NEW c \in Chan, Owner[c] # e, ent[Owner[c]].Id # 0
          PROVE  Flow(h, c)'
      <3>0. PICK f \in Entity : f = Owner[c] BY <2>0
      <3>1. Flow(g, c) BY <2>3, <2>6
      <3>2. SameMsgs(g, h, ent[f].Id) BY <2>6, <3>0, <1>9, <1>15
      <3>3. SameLabs(g, h, c, ent[f].Id) BY <1>9, <3>2, LabsFrame
      <3>4. ent[f].No \in noCancel => ent[f].No \in noCancel'
        <4>1. HasSlot(f) BY <2>6, <3>0, StageOf
        <4>2. ent[f].No # i BY <4>1, <2>6, <3>0, <1>16
        <4>3. QED BY <4>2, <2>1
      <3>5. /\ (c \in fcPend' <=> c \in fcPend) /\ (c \in clFc' <=> c \in clFc)
            /\ fcId'[c] = fcId[c] /\ ent'[f] = ent[f] /\ wait'[f] = wait[f]
        BY <2>5, <2>6, <3>0
      <3>6. QED BY <3>0, <3>1, <3>3, <3>4, <3>5, <2>1, <1>7, FlowFrame
    <2>7. clFc' \subseteq fcPend' /\ 0 \notin fcPend' /\ fcId'[0] = 0
      <3>1. clFc \subseteq fcPend /\ 0 \notin fcPend /\ fcId[0] = 0 BY <1>2 DEF Flows
      <3>2. 0 \in ChanNo BY DEF ChanNo
      <3>3. QED BY <3>1, <3>2, <2>1, <2>2
    <2>8. QED BY <2>3, <2>4, <2>5, <2>6, <2>7, <1>14 DEF Flows
  <1>34. Inv(h)'
    BY <1>9, <1>22, <1>23, <1>24, <1>26, <1>27, <1>28, <1>29, <1>30, <1>31, <1>32, <1>33
    DEF Inv
  <1>35. QED BY <1>19, <1>20, <1>21, <1>34 DEF Whole

\* The callback for an entity that has lost its Id forgets its flow control.
LEMMA ForgetCallback ==
    ASSUME TypeOK, NEW e \in Entity, NEW x, x.Id = 0, NEW c,
           ClientRc(e, x, "OK", c), 0 \notin fcPend, c # 0 => c \in ChansOf(e)
    PROVE  /\ ~wait'[e] /\ \A f \in Entity : f # e => wait'[f] = wait[f]
           /\ clFc' = clFc \ ChansOf(e) /\ fcPend' = fcPend \ ChansOf(e)
           /\ clSkip' = clSkip
  <1>1. /\ clFc' = clFc \ ChansOf(e) /\ fcPend' = (fcPend \ {c}) \ ChansOf(e)
        /\ wait' = [wait EXCEPT ![e] = FALSE] /\ clSkip' = clSkip
    BY DEF ClientRc, Spares
  <1>2. fcPend' = fcPend \ ChansOf(e) BY <1>1
  <1>3. ~wait'[e] /\ \A f \in Entity : f # e => wait'[f] = wait[f]
    BY <1>1 DEF TypeOK
  <1>4. QED BY <1>1, <1>2, <1>3

\* The answer to a REMOVE, as isdn_rc does away with it
LEMMA UnlinkRemoved ==
    ASSUME XdiAssumption, NEW g, Whole(g), NEW i \in Slot, NEW e \in Entity, NEW r,
           Known(r, i, e), Removes(r, i), Unlink(r, i, e), fcId' = FcLeft(r, i),
           noCancel' = NoCancelLeft(r, i) \/ noCancel' = NoCancelLeft(r, i) \cup {i},
           NEW x, ent' = [ent EXCEPT ![e] = x], x.Id = 0, x.No = ent[e].No,
           x.Req = ent[e].Req, ClientRc(e, x, "OK", r.RcCh)
    PROVE  ForgetStep(r, i, e)
  <1>1. TypeOK BY Parts
  <1>2. r.RcId = ent[e].Id /\ ent[e].Id # 0 BY KnownIs
  <1>3. 0 \notin fcPend BY <1>2, FlowsAt
  <1>4. r.RcCh # 0 => r.RcCh \in ChansOf(e) BY OwnChannel
  <1>5. /\ ~wait'[e] /\ \A f \in Entity : f # e => wait'[f] = wait[f]
        /\ clFc' = clFc \ ChansOf(e) /\ fcPend' = fcPend \ ChansOf(e)
        /\ clSkip' = clSkip
    BY <1>1, <1>3, <1>4, ForgetCallback
  <1>6. /\ tbl' = [tbl EXCEPT ![i] = Null]
        /\ IdTable' = [IdTable EXCEPT ![r.RcId] = 0]
        /\ rmPending' = rmPending \ {i}
        /\ rcBuf' = Tail(rcBuf)
        /\ UNCHANGED <<next, ref, queueVars, trapped, pc, phase, cur, irq, outq, inbox,
                       batch, cardIds, held>>
    BY DEF Unlink, Forget, free_entity, RcFrame, outVars, ramVars, cardVars, queueVars
  <1>7. ent'[e] = x /\ \A f \in Entity : f # e => ent'[f] = ent[f] BY <1>1 DEF TypeOK
  <1>8. fcId' = ForgetFc(r.RcId) /\ noCancel \ {i} \subseteq noCancel'
    BY DEF FcLeft, NoCancelLeft
  <1>9. QED BY <1>5, <1>6, <1>7, <1>8 DEF ForgetStep

\* The entity of a REMOVE, stripped of its Id
LEMMA StrippedFields ==
    ASSUME XdiAssumption, TypeOK, NEW e \in Entity, NEW i, NEW r, Removes(r, i),
           ent[e].XMOREC = 1
    PROVE  /\ LET y == Stripped(r, i, e) IN
              /\ y.Id = 0 /\ y.No = ent[e].No /\ y.Req = ent[e].Req
           /\ LET y == Counted(r, i, e) IN
              /\ y.Id = 0 /\ y.No = ent[e].No /\ y.Req = ent[e].Req
              /\ y.XMOREC = 0 /\ y.XMOREP = ent[e].XMOREP
              /\ y.XMOREF = ent[e].XMOREF
           /\ LET y == Completed(Counted(r, i, e)) IN
              /\ y.Id = 0 /\ y.No = ent[e].No /\ y.Req = ent[e].Req
  <1>1. PICK x : x = ent[e] OBVIOUS
  <1>2. x \in ENTITY /\ x.XMOREC = 1 BY <1>1, EntityTypes
  <1>3. PICK y : y = [x EXCEPT !.Id = 0, !.XMOREC = 1] OBVIOUS
  <1>4. Stripped(r, i, e) = y BY <1>1, <1>2, <1>3 DEF Stripped
  <1>5. /\ y.Id = 0 /\ y.No = x.No /\ y.Req = x.Req /\ y.XMOREC = 1
        /\ y.XMOREP = x.XMOREP /\ y.XMOREF = x.XMOREF
    BY <1>2, <1>3 DEF ENTITY
  <1>6. PICK z : z = [y EXCEPT !.XMOREC = 0] OBVIOUS
  <1>7. Counted(r, i, e) = z BY <1>4, <1>5, <1>6 DEF Counted
  <1>8. /\ z.Id = 0 /\ z.No = x.No /\ z.Req = x.Req /\ z.XMOREC = 0
        /\ z.XMOREP = x.XMOREP /\ z.XMOREF = x.XMOREF
    BY <1>2, <1>3, <1>6 DEF ENTITY
  <1>9. LET w == Completed(z) IN w.Id = 0 /\ w.No = x.No /\ w.Req = x.Req
    BY <1>2, <1>3, <1>6 DEF ENTITY, Completed
  <1>10. QED BY <1>1, <1>4, <1>5, <1>7, <1>8, <1>9

\* The entity of a pending REMOVE waits for the one answer.
LEMMA RemovingIs ==
    ASSUME NEW g, Whole(g), NEW e \in Entity, Removing(g, e)
    PROVE  /\ ent[e].XMOREC = 1 /\ ent[e].XMOREF /\ ~ent[e].XMOREP /\ ent[e].Id # 0
           /\ wait[e] /\ ent[e].ReqCh = 0
  <1>1. EntityAt(e, g.st[e]) BY Parts
  <1>2. QED BY <1>1 DEF EntityAt, Removing

\* Each kind of return code for a known Id keeps the invariant.
LEMMA LabelKeeps ==
    ASSUME XdiAssumption, Marked, NEW g, Whole(g), TypeOK', RcLabel
    PROVE  \E h : Whole(h)'
  <1>1. PICK i \in Slot, e \in Entity : LET r == Head(rcBuf) IN
      /\ Known(r, i, e) /\ r.Rc # "OK_FC" /\ r.Ext = "OK_FC"
      /\ Unlink(r, i, e)
      /\ fcId' = FcLeft(r, i)
      /\ noCancel' = NoCancelLeft(r, i) \cup {i}
      /\ ent' = [ent EXCEPT ![e] = Untouched(Stripped(r, i, e))]
      /\ ClientRc(e, ent'[e], r.Rc, r.RcCh)
    BY DEF RcLabel
  <1>2. PICK r : r = Head(rcBuf) OBVIOUS
  <1>3. /\ Known(r, i, e) /\ r.Ext = "OK_FC" /\ Unlink(r, i, e)
        /\ fcId' = FcLeft(r, i) /\ noCancel' = NoCancelLeft(r, i) \cup {i}
        /\ ent' = [ent EXCEPT ![e] = Untouched(Stripped(r, i, e))]
        /\ ClientRc(e, ent'[e], r.Rc, r.RcCh)
    BY <1>1, <1>2
  <1>4. CASE ~Removes(r, i) BY <1>3, <1>4, LabelKeep
  <1>5. CASE Removes(r, i)
    <2>1. TypeOK BY Parts
    <2>2. Removing(g, e) /\ r.Rc = "OK" BY <1>3, <1>5, RemovesIs
    <2>3. ent[e].XMOREC = 1 BY <2>2, RemovingIs
    <2>4. PICK x : x = Stripped(r, i, e) OBVIOUS
    <2>5. x.Id = 0 /\ x.No = ent[e].No /\ x.Req = ent[e].Req
      BY <2>1, <2>3, <2>4, <1>5, StrippedFields
    <2>6. ent' = [ent EXCEPT ![e] = x] BY <2>4, <1>3 DEF Untouched
    <2>7. ent'[e] = x BY <2>1, <2>6 DEF TypeOK
    <2>8. ClientRc(e, x, "OK", r.RcCh) BY <2>2, <2>7, <1>3
    <2>9. ForgetStep(r, i, e) BY <2>5, <2>6, <2>8, <1>3, <1>5, UnlinkRemoved
    <2>10. QED BY <2>9, ForgetKeeps
  <1>6. QED BY <1>4, <1>5

\* The first return codes of a request in several parts keep the invariant.
LEMMA CountsKeep ==
    ASSUME XdiAssumption, Marked, NEW g, Whole(g), TypeOK', RcCount
    PROVE  \E h : Whole(h)'
  <1>1. PICK i \in Slot, e \in Entity : LET r == Head(rcBuf) IN
      /\ Known(r, i, e) /\ r.Rc # "OK_FC" /\ r.Ext # "OK_FC"
      /\ ~Cancels(r, i) /\ Unlink(r, i, e)
      /\ fcId' = FcLeft(r, i)
      /\ noCancel' = NoCancelLeft(r, i)
      /\ LET x == Counted(r, i, e) IN
         IF Answered(x, i, r)
         THEN /\ ent' = [ent EXCEPT ![e] = Completed(x)]
              /\ ClientRc(e, ent'[e], r.Rc, r.RcCh)
         ELSE ent' = [ent EXCEPT ![e] = x] /\ UNCHANGED clientVars
    BY DEF RcCount
  <1>2. PICK r : r = Head(rcBuf) OBVIOUS
  <1>3. /\ Known(r, i, e) /\ r.Rc # "OK_FC" /\ r.Ext # "OK_FC"
        /\ ~Cancels(r, i) /\ Unlink(r, i, e)
        /\ fcId' = FcLeft(r, i) /\ noCancel' = NoCancelLeft(r, i)
    BY <1>1, <1>2
  <1>4. LET x == Counted(r, i, e) IN
         IF Answered(x, i, r)
         THEN /\ ent' = [ent EXCEPT ![e] = Completed(x)]
              /\ ClientRc(e, ent'[e], r.Rc, r.RcCh)
         ELSE ent' = [ent EXCEPT ![e] = x] /\ UNCHANGED clientVars
    BY <1>1, <1>2
  <1>5. CASE ~Removes(r, i) BY <1>2, <1>3, <1>4, <1>5, CountKeeps
  <1>6. CASE Removes(r, i)
    <2>1. TypeOK BY Parts
    <2>2. Removing(g, e) /\ r.Rc = "OK" BY <1>3, <1>6, RemovesIs
    <2>3. ent[e].XMOREC = 1 /\ ent[e].XMOREF /\ ~ent[e].XMOREP BY <2>2, RemovingIs
    <2>4. PICK y, x : y = Counted(r, i, e) /\ x = Completed(y) OBVIOUS
    <2>5. /\ y.XMOREC = 0 /\ ~y.XMOREP /\ y.XMOREF
          /\ x.Id = 0 /\ x.No = ent[e].No /\ x.Req = ent[e].Req
      BY <2>1, <2>3, <2>4, <1>6, StrippedFields
    <2>6. Answered(y, i, r) BY <2>5 DEF Answered
    <2>7. ent' = [ent EXCEPT ![e] = x] /\ ClientRc(e, ent'[e], r.Rc, r.RcCh)
      BY <2>4, <2>6, <1>4
    <2>8. ent'[e] = x BY <2>1, <2>7 DEF TypeOK
    <2>9. ClientRc(e, x, "OK", r.RcCh) BY <2>2, <2>7, <2>8
    <2>10. ForgetStep(r, i, e) BY <2>5, <2>7, <2>9, <1>3, <1>6, UnlinkRemoved
    <2>11. QED BY <2>10, ForgetKeeps
  <1>7. QED BY <1>5, <1>6

\* Every return code that cancels flow control keeps the invariant.
LEMMA CancelsKeep ==
    ASSUME XdiAssumption, Marked, NEW g, Whole(g), TypeOK', RcCancel
    PROVE  \E h : Whole(h)'
  <1>1. PICK i \in Slot, e \in Entity : LET r == Head(rcBuf) IN
      /\ Known(r, i, e) /\ Cancels(r, i) /\ Unlink(r, i, e)
      /\ fcId' = [FcLeft(r, i) EXCEPT ![r.RcCh] = 0]
      /\ noCancel' = NoCancelLeft(r, i)
      /\ IF r.Rc # "OK" \/ r.RcCh \notin fcSkip
         THEN /\ ent' = [ent EXCEPT ![e] = Release(Stripped(r, i, e), r.RcCh)]
              /\ ClientRc(e, ent'[e], r.Rc, r.RcCh)
         ELSE ent' = [ent EXCEPT ![e] = Stripped(r, i, e)]
              /\ UNCHANGED clientVars
    BY DEF RcCancel
  <1>2. PICK r : r = Head(rcBuf) OBVIOUS
  <1>3. /\ Known(r, i, e) /\ Cancels(r, i) /\ Unlink(r, i, e)
        /\ fcId' = [FcLeft(r, i) EXCEPT ![r.RcCh] = 0]
        /\ noCancel' = NoCancelLeft(r, i)
    BY <1>1, <1>2
  <1>4. IF r.Rc # "OK" \/ r.RcCh \notin fcSkip
         THEN /\ ent' = [ent EXCEPT ![e] = Release(Stripped(r, i, e), r.RcCh)]
              /\ ClientRc(e, ent'[e], r.Rc, r.RcCh)
         ELSE ent' = [ent EXCEPT ![e] = Stripped(r, i, e)]
              /\ UNCHANGED clientVars
    BY <1>1, <1>2
  <1>5. ~Removes(r, i)
    <2> SUFFICES ASSUME Removes(r, i) PROVE FALSE OBVIOUS
    <2>1. ForgetFc(r.RcId)[r.RcCh] = r.RcId BY <1>3 DEF Cancels, FcLeft
    <2>2. r.RcId = ent[e].Id /\ ent[e].Id # 0 BY <1>3, KnownIs
    <2>3. r.RcCh \in ChanNo BY <1>3, OwnChannel
    <2>4. QED BY <2>1, <2>2, <2>3 DEF ForgetFc
  <1>6. QED BY <1>2, <1>3, <1>4, <1>5, CancelKeeps

=============================================================================
