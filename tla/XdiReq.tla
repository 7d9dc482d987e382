------------------------------- MODULE XdiReq -------------------------------
(***************************************************************************)
(* The request path of the XDI driver (kernel/io.c, kernel/di.c).          *)
(*                                                                         *)
(* Clients own ENTITY structures and hand them to request().  The driver   *)
(* gives an entity a slot of e_tbl, links the slot into a request queue    *)
(* threaded through e_tbl[].next and schedules the DPC.  The DPC copies    *)
(* queued requests into the request buffers of the card's shared memory    *)
(* (pr_out), and hands the return codes of the card back (pr_dpc,          *)
(* isdn_rc), which completes requests by calling the client.               *)
(*                                                                         *)
(* Three parties take steps: the clients (at any moment, callbacks         *)
(* included, because request() only needs data_spin_lock), the one DPC of  *)
(* the adapter, and the card, which is external and modelled from how      *)
(* kernel/di.c uses it.                                                    *)
(***************************************************************************)
EXTENDS Integers, Sequences, FiniteSets

CONSTANTS
    Entity,     \* the ENTITY structures of the clients
    NL,         \* the ones assigned with NL_ID: chaining, flow control
    EMax,       \* e_max, the size of e_tbl
    Ids,        \* the Ids the card can hand out; 0 is "no Id"
    Chan,       \* the channels that are under flow control; 0 is "no channel"
    Owner,      \* the network layer entity a channel belongs to
    Reqs,       \* the requests clients use, next to ASSIGN
    MaxFrag,    \* bound: fragments of 270 bytes in one data request
    XMOREC,     \* 15 in di.h: mask of the counter of outstanding return codes
    NReq,       \* request buffers in the shared memory
    ByteMod,    \* 256 in the code: ReqInput and ReqOutput are bytes
    Labelled,   \* the card marks the RC that ends flow control (OK_FC label)
    CtrlHeld,   \* clients send control requests on a flow controlled channel
    MayFail     \* bound: the card may refuse an ASSIGN

Null == "NULL"
Slot == 1..EMax
ChanNo == Chan \cup {0}

ASSUME XdiAssumption ==
    /\ EMax \in Nat \ {0}
    /\ IsFiniteSet(Entity) /\ Null \notin Entity
    /\ NL \subseteq Entity
    /\ 0 \notin Ids
    /\ 0 \notin Chan
    /\ Owner \in [Chan -> NL]
    /\ Reqs \subseteq {"DATA", "CTRL", "REMOVE", "UREMOVE"}
    /\ XMOREC \in Nat \ {0}
    /\ MaxFrag \in 1..XMOREC
    /\ ByteMod \in Nat \ {0}
    /\ NReq \in 1..(ByteMod - 1)
    /\ Labelled \in BOOLEAN
    /\ CtrlHeld \in BOOLEAN
    /\ MayFail \in BOOLEAN

VARIABLES
    \* the clients (the contract of the CAPI driver)
    wait,       \* wait[e]: nl_req / sig_req, a request is outstanding
    fcPend,     \* channels with N_OK_FC_PENDING
    clFc,       \* CAPI's own FlowControlIdTable (cards with labels only)
    clSkip,     \* CAPI's own FlowControlSkipTable
    \* the ENTITY structures, shared between client and driver
    ent,
    \* the adapter
    tbl, next, ref,             \* e_tbl[].e, .next, .assign_ref
    e_count, head, tail, assign,
    IdTable,                    \* Id -> slot
    fcId, fcSkip,               \* FlowControlIdTable, FlowControlSkipTable
    rmPending, noCancel,        \* the two bits of misc_flags_table
    RcExt,                      \* RcExtensionSupported
    ReadyInt,
    trapped,
    \* the DPC
    sched,                      \* the soft ISR is scheduled
    pc, phase,                  \* where DIDpcRoutine is
    batch, ReadyCount, this,    \* locals of pr_out
    cur,                        \* locals of isdn_rc over the ASSIGN callback
    \* the shared memory and the card
    ReqInput, ReqOutput, inbox, \* request buffers
    rcBuf, irq,                 \* return codes, interrupt line
    outq, cardIds, held, cardRI \* inside the card

clientVars == <<wait, fcPend, clFc, clSkip>>
tblVars    == <<tbl, next, ref, e_count>>
queueVars  == <<head, tail, assign>>
idVars     == <<IdTable, fcId, fcSkip, rmPending, noCancel, RcExt>>
outVars    == <<batch, ReadyCount, this>>
cardVars   == <<outq, cardIds, held>>
ramVars    == <<ReqInput, ReqOutput, inbox>>
vars == <<clientVars, ent, tblVars, queueVars, idVars, ReadyInt, trapped,
          sched, pc, phase, outVars, cur, ramVars, rcBuf, irq, cardVars,
          cardRI>>

-----------------------------------------------------------------------------
(* Types of the messages of the shared memory *)

ReqCode == {"none", "ASSIGN", "MDATA", "DATA", "CTRL", "REMOVE", "UREMOVE"}
RcCode  == {"OK", "OK_FC", "ERR", "ASSIGN_OK", "ASSIGN_FAIL", "READY_INT"}
RcType  == {"none", "OK_FC", "REMOVE_COMPLETE"}

Ref == 1..(2 * EMax + 1)

ENTITY == [Id : Ids \cup {0}, No : 0..EMax, Req : ReqCode,
           ReqCh : ChanNo, XNum : 0..MaxFrag, XMOREC : 0..XMOREC,
           XMOREP : BOOLEAN, XMOREF : BOOLEAN, XBUSY : BOOLEAN]

REQ == [Req : ReqCode, ReqId : Ids \cup {0}, ReqCh : ChanNo,
        Reference : Ref \cup {0}, NLType : BOOLEAN]

RC  == [Rc : RcCode, RcId : Ids \cup {0}, RcCh : ChanNo,
        Reference : Ref \cup {0}, Ext : RcType]

CUR == [i : 0..EMax, Id : Ids \cup {0}, ok : BOOLEAN]

Init ==
    /\ wait = [e \in Entity |-> FALSE]
    /\ fcPend = {} /\ clFc = {} /\ clSkip = {}
    /\ ent = [e \in Entity |->
                [Id |-> 0, No |-> 0, Req |-> "none", ReqCh |-> 0, XNum |-> 0,
                 XMOREC |-> 0, XMOREP |-> FALSE, XMOREF |-> FALSE,
                 XBUSY |-> FALSE]]
    /\ tbl = [i \in Slot |-> Null]
    /\ next = [i \in Slot |-> 0]
    /\ ref = [i \in Slot |-> 0]
    /\ e_count = 0 /\ head = 0 /\ tail = 0 /\ assign = 0
    /\ IdTable = [d \in Ids |-> 0]
    /\ fcId = [c \in ChanNo |-> 0]
    /\ fcSkip = {} /\ rmPending = {} /\ noCancel = {}
    /\ RcExt = FALSE /\ ReadyInt = 0 /\ trapped = FALSE
    /\ sched = FALSE /\ pc = "idle" /\ phase = 1
    /\ batch = <<>> /\ ReadyCount = 0 /\ this = Null
    /\ cur = [i |-> 0, Id |-> 0, ok |-> FALSE]
    /\ ReqInput = 0 /\ ReqOutput = NReq /\ inbox = <<>>
    /\ rcBuf = <<>> /\ irq = FALSE
    /\ outq = <<>> /\ cardIds = {} /\ held = {} /\ cardRI = 0

-----------------------------------------------------------------------------
(* The queue of requests: e_tbl[].next from head to tail *)

\* Mutant: the link of the appended slot is not cleared.
StaleAppend_next(nx, h, t, i) == IF h = 0 THEN nx ELSE [nx EXCEPT ![t] = i]

\* req_queue(): append slot i.
Append_next(nx, h, t, i) ==
    IF h = 0 THEN [nx EXCEPT ![i] = 0]
    ELSE [[nx EXCEPT ![i] = 0] EXCEPT ![t] = i]

\* The slot reached from slot h in k steps along next; 0 is the end.
Walk(h) ==
    LET w[k \in 0..EMax] == IF k = 0 THEN h
                            ELSE IF w[k-1] = 0 THEN 0 ELSE next[w[k-1]]
    IN w

\* get_assign(): the first slot of the assign list that carries reference r.
get_assign(r) ==
    LET w == Walk(assign)
        Hit(k) == w[k] # 0 /\ ref[w[k]] = r
    IN IF \E k \in 0..EMax : Hit(k)
       THEN w[CHOOSE k \in 0..EMax : Hit(k) /\ \A j \in 0..(k-1) : ~Hit(j)]
       ELSE 0

\* Mutant: the older pending ASSIGNs are dropped from the list.
LossyAssign_queue(i, r) ==
    /\ ref' = [ref EXCEPT ![i] = r]
    /\ next' = [next EXCEPT ![i] = 0]
    /\ assign' = i

\* assign_queue(): push slot i, which waits for the ASSIGN of reference r.
assign_queue(i, r) ==
    /\ ref' = [ref EXCEPT ![i] = r]
    /\ next' = [next EXCEPT ![i] = assign]
    /\ assign' = i

\* Mutant: e_count is not decremented.
LeakyFree_entity(i) == tbl' = [tbl EXCEPT ![i] = Null] /\ UNCHANGED e_count

free_entity(i) ==
    /\ tbl' = [tbl EXCEPT ![i] = Null]
    /\ e_count' = e_count - 1

-----------------------------------------------------------------------------
(* The client calls request() *)

ChansOf(e) == {c \in Chan : Owner[c] = e}

\* What a client may ask for: it has no request outstanding, a REMOVE or
\* ASSIGN goes to channel 0, data waits for the end of flow control.
ClientMay(e, r, c, n) ==
    /\ ~wait[e]
    /\ n \in 1..MaxFrag /\ (n > 1 => r = "DATA") /\ (r = "DATA" => e \in NL)
    /\ IF r = "ASSIGN" THEN ent[e].Id = 0 /\ c = 0
       ELSE /\ ent[e].Id # 0 /\ r \in Reqs
            /\ IF r \in {"REMOVE", "UREMOVE"} THEN c = 0
               ELSE IF ChansOf(e) = {} THEN c = 0 ELSE c \in ChansOf(e)
            /\ r = "DATA" => c \notin fcPend
            /\ r = "CTRL" => CtrlHeld \/ c \notin fcPend

FirstFree(i) == tbl[i] = Null /\ \A j \in 1..(i-1) : tbl[j] # Null

\* The entity as request() leaves it when it queues it.
Queued(x, r, c, n, i) ==
    LET fresh == x.Id = 0
    IN [x EXCEPT !.No = i, !.Req = r, !.ReqCh = c, !.XNum = n,
                 !.XMOREC = IF fresh THEN 0 ELSE @,
                 !.XMOREP = IF fresh THEN FALSE ELSE @,
                 !.XMOREF = FALSE, !.XBUSY = TRUE]

\* Mutant: the DPC is scheduled only when there is a queue already.
LazySchedule == sched' = (sched \/ head # 0)

Schedule == sched' = TRUE

\* request(): queue the entity in the slot it has or gets, schedule the DPC.
Enqueue(e, r, c, n, i) ==
    /\ ent' = [ent EXCEPT ![e] = Queued(@, r, c, n, i)]
    /\ IF ent[e].Id = 0
       THEN tbl' = [tbl EXCEPT ![i] = e] /\ e_count' = e_count + 1
       ELSE UNCHANGED <<tbl, e_count>>
    /\ next' = Append_next(next, head, tail, i)
    /\ head' = IF head = 0 THEN i ELSE head
    /\ tail' = i
    /\ Schedule
    /\ UNCHANGED <<assign, ref, trapped>>

\* request() refuses: no slot left, or the entity is busy (the card is then
\* trapped).  The client has filled in its ENTITY all the same.
Asked(x, r, c, n) == [x EXCEPT !.Req = r, !.ReqCh = c, !.XNum = n]

Refuse(e, r, c, n, busy) ==
    /\ ent' = [ent EXCEPT ![e] = Asked(@, r, c, n)]
    /\ trapped' = (trapped \/ busy)
    /\ UNCHANGED <<tblVars, queueVars, sched>>

\* Mutant: CAPI does not note the request on a flow controlled channel.
NoSkip(c) == UNCHANGED clSkip

\* The note of CAPI's DIRequest() for its own cancelling of return codes.
DIRequest(c) == clSkip' = IF c \in clFc THEN clSkip \cup {c} ELSE clSkip

Request(e, r, c, n) ==
    /\ ClientMay(e, r, c, n)
    /\ wait' = [wait EXCEPT ![e] = TRUE]
    /\ DIRequest(c)
    /\ IF ent[e].Id = 0
       THEN IF e_count >= EMax
            THEN Refuse(e, r, c, n, FALSE)
            ELSE \E i \in Slot : FirstFree(i) /\ Enqueue(e, r, c, n, i)
       ELSE IF ent[e].XBUSY
            THEN Refuse(e, r, c, n, TRUE)
            ELSE Enqueue(e, r, c, n, ent[e].No)
    /\ UNCHANGED <<fcPend, clFc, idVars, ReadyInt, pc, phase, outVars, cur,
                   ramVars, rcBuf, irq, cardVars, cardRI>>

-----------------------------------------------------------------------------
(* DIDpcRoutine and pr_out *)

\* The soft ISR runs: tst_irq decides whether return codes are looked at.
DpcStart ==
    /\ pc = "idle" /\ sched
    /\ sched' = FALSE
    /\ IF irq THEN pc' = "rc" /\ UNCHANGED phase
       ELSE pc' = "look" /\ phase' = 2
    /\ UNCHANGED <<clientVars, ent, tblVars, queueVars, idVars, ReadyInt,
                   trapped, outVars, cur, ramVars, rcBuf, irq, cardVars,
                   cardRI>>

\* clr_irq, between the two calls of pr_out.
ClrIrq ==
    /\ pc = "clr"
    /\ irq' = FALSE /\ pc' = "look" /\ phase' = 2
    /\ UNCHANGED <<clientVars, ent, tblVars, queueVars, idVars, ReadyInt,
                   trapped, sched, outVars, cur, ramVars, rcBuf, cardVars,
                   cardRI>>

AfterOut == IF phase = 1 THEN "clr" ELSE "idle"

\* Mutant: without the wrap around of the two byte counters.
WideReady == ReqOutput - ReqInput

\* pr_ready(): the free request buffers, in byte arithmetic.
Ready == (ReqOutput - ReqInput) % ByteMod

\* pr_ready(): without a buffer, ask the card for a READY_INT, once.
AskReady ==
    IF ReadyInt = 0 THEN ReadyInt' = 1 /\ cardRI' = cardRI + 1
    ELSE UNCHANGED <<ReadyInt, cardRI>>

\* pr_out() up to its loop: nothing to send, no buffer (ask the card for a
\* READY_INT once), or ReadyCount buffers to fill.
OutLook ==
    /\ pc = "look"
    /\ IF head # 0 /\ Ready # 0
       THEN pc' = "take" /\ ReadyCount' = Ready /\ this' = Null
       ELSE pc' = AfterOut /\ UNCHANGED <<ReadyCount, this>>
    /\ IF head # 0 /\ Ready = 0 THEN AskReady
       ELSE UNCHANGED <<ReadyInt, cardRI>>
    /\ UNCHANGED <<clientVars, ent, tblVars, queueVars, idVars, trapped,
                   sched, phase, batch, cur, ramVars, rcBuf, irq, cardVars>>

\* More++ in the byte that holds the counter below XMOREP, XMOREF and XBUSY.
MoreInc(x) ==
    IF x.XMOREC < XMOREC THEN [x EXCEPT !.XMOREC = @ + 1]
    ELSE [x EXCEPT !.XMOREC = 0, !.XMOREP = ~@,
                   !.XMOREF = IF x.XMOREP THEN ~@ ELSE @,
                   !.XBUSY  = IF x.XMOREP /\ x.XMOREF THEN ~@ ELSE @]

Range_(s) == {s[k] : k \in 1..Len(s)}

\* The references of ASSIGNs that are not answered yet.
RefsOut == {q.Reference : q \in Range_(batch) \cup Range_(inbox)
                                \cup Range_(outq) \cup Range_(rcBuf)}
FreshRef(r) == r \notin RefsOut /\ \A s \in 1..(r-1) : s \in RefsOut

\* next_req(): the head leaves the queue.
NextReq ==
    /\ head' = next[head]
    /\ tail' = IF next[head] = 0 THEN 0 ELSE tail

\* One iteration of the loop of pr_out: fill a buffer with request q.
Fill(q) ==
    /\ batch' = Append(batch, q)
    /\ ReadyCount' = ReadyCount - 1
    /\ this' = tbl[head]
    /\ UNCHANGED <<clientVars, tbl, e_count, IdTable, fcId, noCancel, RcExt,
                   ReadyInt, trapped, sched, pc, phase, cur, ramVars, rcBuf,
                   irq, cardVars, cardRI>>

Looping == pc = "take" /\ head # 0 /\ ReadyCount # 0

PartSent(x)   == [MoreInc(x) EXCEPT !.XNum = @ - 1, !.XMOREP = TRUE]
AllSent(x)    == [MoreInc(x) EXCEPT !.XNum = 0, !.XMOREF = TRUE,
                                    !.XMOREP = FALSE]
AssignSent(x) == [x EXCEPT !.XNum = 0, !.XMOREF = TRUE, !.XMOREP = FALSE]

\* More data than one buffer: LL_MDATA/N_MDATA, and back into the queue.
OutFragment ==
    /\ Looping
    /\ \E e \in NL :
        LET x == ent[e] IN
        /\ e = tbl[head] /\ x.Id # 0 /\ x.XNum > 1
        /\ ent' = [ent EXCEPT ![e] = PartSent(x)]
        /\ Fill([Req |-> "MDATA", ReqId |-> x.Id, ReqCh |-> x.ReqCh,
                 Reference |-> 0, NLType |-> TRUE])
        /\ LET h == next[head] IN
           /\ next' = Append_next(next, h, tail, x.No)
           /\ head' = IF h = 0 THEN x.No ELSE h
           /\ tail' = x.No
    /\ UNCHANGED <<ref, assign, fcSkip, rmPending>>

\* The last or only buffer of a request to a known Id.
OutFinal ==
    /\ Looping
    /\ \E e \in Entity :
        LET x == ent[e] IN
        /\ e = tbl[head] /\ x.Id # 0 /\ ~(x.XNum > 1 /\ e \in NL)
        /\ ent' = [ent EXCEPT ![e] = AllSent(x)]
        /\ Fill([Req |-> x.Req, ReqId |-> x.Id, ReqCh |-> x.ReqCh,
                 Reference |-> 0, NLType |-> e \in NL])
        /\ fcSkip' = IF fcId[x.ReqCh] = x.Id THEN fcSkip \cup {x.ReqCh}
                     ELSE fcSkip
        /\ rmPending' = IF x.Req = "REMOVE" THEN rmPending \cup {head}
                        ELSE rmPending
    /\ NextReq
    /\ UNCHANGED <<next, ref, assign>>

\* An ASSIGN: note its reference, push the slot on the assign list.
OutAssign ==
    /\ Looping
    /\ \E e \in Entity, r \in Ref :
        LET x == ent[e] IN
        /\ e = tbl[head] /\ x.Id = 0 /\ FreshRef(r)
        /\ ent' = [ent EXCEPT ![e] = AssignSent(x)]
        /\ Fill([Req |-> "ASSIGN", ReqId |-> 0, ReqCh |-> x.ReqCh,
                 Reference |-> r, NLType |-> e \in NL])
        /\ assign_queue(x.No, r)
    /\ NextReq
    /\ UNCHANGED <<fcSkip, rmPending>>

ForgetFc(d) == [c \in ChanNo |-> IF fcId[c] = d THEN 0 ELSE fcId[c]]

WithId(x, d) == [x EXCEPT !.Id = d]

\* Mutant: the Id of an UREMOVE is never forgotten.
NeverUnreturned(e) == FALSE

\* The last request of the loop was an UREMOVE of an Id.
Unreturned(e) == e \in Entity /\ ent[e].Req = "UREMOVE" /\ ent[e].Id # 0

\* The end of pr_out: pass the buffers to the card, and forget the entity of
\* a UREMOVE, which the card never answers.
OutEnd ==
    /\ pc = "take" /\ (head = 0 \/ ReadyCount = 0)
    /\ inbox' = inbox \o batch
    /\ ReqInput' = (ReqInput + Len(batch)) % ByteMod
    /\ batch' = <<>> /\ ReadyCount' = 0 /\ this' = Null
    /\ pc' = AfterOut
    /\ IF Unreturned(this)
       THEN LET d == ent[this].Id IN
            \E i \in Slot :
              /\ i = IdTable[d]
              /\ free_entity(i)
              /\ fcId' = ForgetFc(d)
              /\ IdTable' = [IdTable EXCEPT ![d] = 0]
              /\ ent' = [ent EXCEPT ![this] = WithId(@, 0)]
              /\ wait' = [wait EXCEPT ![this] = FALSE]
       ELSE UNCHANGED <<tbl, e_count, fcId, IdTable, ent, wait>>
    /\ UNCHANGED <<fcPend, clFc, clSkip, next, ref, queueVars, fcSkip,
                   rmPending, noCancel, RcExt, ReadyInt, trapped, sched,
                   phase, cur, ReqOutput, rcBuf, irq, cardVars, cardRI>>

-----------------------------------------------------------------------------
(* isdn_rc: one return code *)

\* The end of flow control of a channel is not the answer to a request on
\* another one.
Spares(e, x, c) == c \in fcPend /\ c # x.ReqCh /\ x.Id # 0

\* The client's callback for a return code rc on channel c, given the entity
\* as the driver leaves it.
ClientRc(e, x, rc, c) ==
    LET removing == x.Req = "REMOVE" /\ x.Id # 0
        own == rc # "OK_FC" /\ Labelled /\ c \in clFc /\ x.Id # 0
        swallow == own /\ rc = "OK" /\ c \in clSkip
        gone == IF x.Id = 0 THEN ChansOf(e) ELSE {}
    IN IF removing THEN UNCHANGED clientVars
       ELSE IF rc = "OK_FC"
       THEN /\ fcPend' = fcPend \cup {c}
            /\ clFc' = IF Labelled THEN clFc \cup {c} ELSE clFc
            /\ clSkip' = clSkip \ {c}
            /\ wait' = [wait EXCEPT ![e] = FALSE]
       ELSE /\ clFc' = (IF own THEN clFc \ {c} ELSE clFc) \ gone
            /\ fcPend' = (IF swallow THEN fcPend ELSE fcPend \ {c}) \ gone
            /\ wait' = IF swallow \/ Spares(e, x, c)
                       THEN wait ELSE [wait EXCEPT ![e] = FALSE]
            /\ UNCHANGED clSkip

InRc == pc = "rc" /\ rcBuf # <<>>

RcFrame == UNCHANGED <<next, ref, queueVars, trapped, sched, pc, phase,
                       outVars, cur, ramVars, irq, cardVars, cardRI>>

\* READY_INT: the card has buffers again.
RcReadyInt ==
    /\ InRc /\ Head(rcBuf).Rc = "READY_INT"
    /\ ReadyInt' = IF ReadyInt > 0 THEN ReadyInt - 1 ELSE ReadyInt
    /\ rcBuf' = Tail(rcBuf)
    /\ UNCHANGED <<clientVars, ent, tbl, e_count, idVars>>
    /\ RcFrame

\* The head of the return codes is r, for an Id the driver knows: slot i, e.
Known(r, i, e) ==
    /\ InRc /\ r = Head(rcBuf) /\ r.Rc # "READY_INT"
    /\ r.RcId # 0 /\ i = IdTable[r.RcId] /\ e = tbl[i]

\* Mutant: every OK is taken for the answer to a REMOVE.
RemovesAny(r, i) == r.Rc = "OK"

\* An OK while a REMOVE is pending is taken for the answer to the REMOVE ...
Removes(r, i) == r.Rc = "OK" /\ i \in rmPending

\* ... unless the card is known to mark that answer and this is not it.
Ignored(r, i, e) ==
    /\ Removes(r, i) /\ e \in NL
    /\ RcExt /\ r.Ext # "REMOVE_COMPLETE"

RcIgnored ==
    /\ \E i \in Slot, e \in NL :
         /\ Known(Head(rcBuf), i, e) /\ Ignored(Head(rcBuf), i, e)
    /\ rcBuf' = Tail(rcBuf)
    /\ UNCHANGED <<clientVars, ent, tbl, e_count, idVars, ReadyInt>>
    /\ RcFrame

\* The entity, the flow control table and the NO_RC_CANCELLING flags once
\* the REMOVE, if this is its answer, is dealt with.  The last line of
\* Stripped corrects the counter of outstanding return codes.
Stripped(r, i, e) ==
    IF Removes(r, i)
    THEN [ent[e] EXCEPT !.Id = 0, !.XMOREC = IF @ > 1 THEN 1 ELSE @]
    ELSE ent[e]
FcLeft(r, i) == IF Removes(r, i) THEN ForgetFc(r.RcId) ELSE fcId
NoCancelLeft(r, i) == IF Removes(r, i) THEN noCancel \ {i} ELSE noCancel

\* Mutant: the slot is freed, but the Id still leads to it.
KeepId(r, i, e) == free_entity(i) /\ rmPending' = rmPending \ {i}
                   /\ UNCHANGED IdTable

\* The entity of a REMOVE leaves the tables.
Forget(r, i, e) ==
    /\ free_entity(i)
    /\ IdTable' = [IdTable EXCEPT ![r.RcId] = 0]
    /\ rmPending' = rmPending \ {i}

\* What isdn_rc does to the tables for a known Id, and the bookkeeping of
\* the return code buffer.
Unlink(r, i, e) ==
    /\ ~Ignored(r, i, e)
    /\ IF Removes(r, i)
       THEN /\ Forget(r, i, e)
            /\ RcExt' = (RcExt \/ (e \in NL /\ r.Ext = "REMOVE_COMPLETE"))
       ELSE UNCHANGED <<tbl, e_count, IdTable, rmPending, RcExt>>
    /\ rcBuf' = Tail(rcBuf)
    /\ UNCHANGED ReadyInt
    /\ RcFrame

\* Mutants: the busy flag stays, or is cleared whatever the channel.
StillBusy(x) == [x EXCEPT !.XMOREC = 0]

\* The request is over, with all its return codes.
Accepted(x) == [x EXCEPT !.XBUSY = FALSE, !.XMOREC = 0]

\* A return code that ends flow control of channel c ends a request on c.
Release(x, c) == IF c = x.ReqCh THEN Accepted(x) ELSE x

\* Mutant: the last return code leaves the entity busy.
NotCompleted(x) == x

Completed(x) == [x EXCEPT !.XBUSY = FALSE]

\* OK_FC: accepted, but the channel is flow controlled from now on.
RcOkFc ==
    \E i \in Slot, e \in Entity : LET r == Head(rcBuf) IN
      /\ Known(r, i, e) /\ r.Rc = "OK_FC" /\ Unlink(r, i, e)
      /\ fcId' = [fcId EXCEPT ![r.RcCh] = r.RcId]
      /\ fcSkip' = fcSkip \ {r.RcCh}
      /\ ent' = [ent EXCEPT ![e] = Accepted(@)]
      /\ ClientRc(e, ent'[e], r.Rc, r.RcCh)
      /\ UNCHANGED noCancel

\* Mutant: the marked return code also ends the request.
LabelEnds(x) == [x EXCEPT !.XBUSY = FALSE]
\* A marked return code belongs to no request of the entity.
Untouched(x) == x

\* The end of flow control, marked as such by the card.
RcLabel ==
    \E i \in Slot, e \in Entity : LET r == Head(rcBuf) IN
      /\ Known(r, i, e) /\ r.Rc # "OK_FC" /\ r.Ext = "OK_FC"
      /\ Unlink(r, i, e)
      /\ fcId' = FcLeft(r, i)
      /\ noCancel' = NoCancelLeft(r, i) \cup {i}
      /\ ent' = [ent EXCEPT ![e] = Untouched(Stripped(r, i, e))]
      /\ ClientRc(e, ent'[e], r.Rc, r.RcCh)
      /\ UNCHANGED fcSkip

\* The first return code on a flow controlled channel, not marked: it ends
\* flow control, and is swallowed when another request was sent meanwhile.
Cancels(r, i) ==
    /\ r.Rc # "OK_FC" /\ r.Ext # "OK_FC"
    /\ i \notin NoCancelLeft(r, i) /\ FcLeft(r, i)[r.RcCh] = r.RcId

RcCancel ==
    \E i \in Slot, e \in Entity : LET r == Head(rcBuf) IN
      /\ Known(r, i, e) /\ Cancels(r, i) /\ Unlink(r, i, e)
      /\ fcId' = [FcLeft(r, i) EXCEPT ![r.RcCh] = 0]
      /\ noCancel' = NoCancelLeft(r, i)
      /\ IF r.Rc # "OK" \/ r.RcCh \notin fcSkip
         THEN /\ ent' = [ent EXCEPT ![e] = Release(Stripped(r, i, e), r.RcCh)]
              /\ ClientRc(e, ent'[e], r.Rc, r.RcCh)
         ELSE ent' = [ent EXCEPT ![e] = Stripped(r, i, e)]
              /\ UNCHANGED clientVars
      /\ UNCHANGED fcSkip

\* Mutant: one return code answers all the fragments.
ForgetCount(r, i, e) == [Stripped(r, i, e) EXCEPT !.XMOREC = 0]

\* The ordinary return code: one less outstanding, the last one completes.
Counted(r, i, e) ==
    LET x == Stripped(r, i, e)
    IN [x EXCEPT !.XMOREC = IF @ > 0 THEN @ - 1 ELSE @]

\* The last fragment was sent and every return code is in.
Answered(x, i, r) ==
    /\ i \in NoCancelLeft(r, i) \/ x.XMOREF
    /\ x.XMOREC = 0 /\ ~x.XMOREP

RcCount ==
    \E i \in Slot, e \in Entity : LET r == Head(rcBuf) IN
      /\ Known(r, i, e) /\ r.Rc # "OK_FC" /\ r.Ext # "OK_FC"
      /\ ~Cancels(r, i) /\ Unlink(r, i, e)
      /\ fcId' = FcLeft(r, i)
      /\ noCancel' = NoCancelLeft(r, i)
      /\ LET x == Counted(r, i, e) IN
         IF Answered(x, i, r)
         THEN /\ ent' = [ent EXCEPT ![e] = Completed(x)]
              /\ ClientRc(e, ent'[e], r.Rc, r.RcCh)
         ELSE ent' = [ent EXCEPT ![e] = x] /\ UNCHANGED clientVars
      /\ UNCHANGED fcSkip

IdUnknown(r) == InRc /\ r = Head(rcBuf)
                /\ IF r.RcId = 0 THEN TRUE ELSE IdTable[r.RcId] = 0

\* The answer to an ASSIGN of ours, up to the end of the callback.
RcAssign ==
    /\ \E i \in Slot, e \in Entity : LET r == Head(rcBuf) IN
        /\ IdUnknown(r) /\ r.Rc \in {"ASSIGN_OK", "ASSIGN_FAIL"}
        /\ i = get_assign(r.Reference) /\ e = tbl[i]
        /\ ent' = [ent EXCEPT ![e] = Completed(WithId(@, r.RcId))]
        /\ ClientRc(e, ent'[e], r.Rc, r.RcCh)
        /\ cur' = [i |-> i, Id |-> r.RcId, ok |-> r.Rc = "ASSIGN_OK"]
    /\ rcBuf' = Tail(rcBuf) /\ pc' = "post"
    /\ UNCHANGED <<tblVars, queueVars, idVars, ReadyInt, trapped, sched,
                   phase, outVars, ramVars, irq, cardVars, cardRI>>

\* After the callback: enter the new Id, or give the slot back.  (A refused
\* ASSIGN has no Id, so the entries of its Id that isdn_rc clears are none.)
RcAssignPost ==
    /\ pc = "post" /\ pc' = "rc"
    /\ IF cur.ok
       THEN /\ IdTable' = [IdTable EXCEPT ![cur.Id] = cur.i]
            /\ UNCHANGED <<tbl, e_count>>
       ELSE /\ free_entity(cur.i)
            /\ UNCHANGED IdTable
    /\ cur' = [i |-> 0, Id |-> 0, ok |-> FALSE]
    /\ UNCHANGED <<clientVars, ent, next, ref, queueVars, fcId, fcSkip,
                   rmPending, noCancel, RcExt, ReadyInt, trapped, sched,
                   phase, outVars, ramVars, rcBuf, irq, cardVars, cardRI>>

\* Not one of ours.
RcUnknown ==
    /\ IdUnknown(Head(rcBuf))
    /\ Head(rcBuf).Rc \in RcCode \ {"READY_INT"}
    /\ Head(rcBuf).Rc \in {"ASSIGN_OK", "ASSIGN_FAIL"} =>
          get_assign(Head(rcBuf).Reference) = 0
    /\ rcBuf' = Tail(rcBuf)
    /\ UNCHANGED <<clientVars, ent, tbl, e_count, idVars, ReadyInt>>
    /\ RcFrame

\* All return codes done: pr_dpc clears RcOutput and calls pr_out.
RcDone ==
    /\ pc = "rc" /\ rcBuf = <<>>
    /\ pc' = "look" /\ phase' = 1
    /\ UNCHANGED <<clientVars, ent, tblVars, queueVars, idVars, ReadyInt,
                   trapped, sched, outVars, cur, ramVars, rcBuf, irq,
                   cardVars, cardRI>>

-----------------------------------------------------------------------------
(* The card (external), as far as kernel/di.c depends on it: it consumes the *)
(* request buffers in order and answers each of them once, except UREMOVE.   *)

HeldCh == {h[1] : h \in held}
Answer(rc, d, c, r, ext) ==
    [Rc |-> rc, RcId |-> d, RcCh |-> c, Reference |-> r, Ext |-> ext]

CardFrame == UNCHANGED <<clientVars, ent, tblVars, queueVars, idVars,
                         ReadyInt, trapped, pc, phase, outVars, cur, ReqInput>>

\* The next request buffer is consumed, with return codes a.
CardConsume(a) ==
    /\ inbox' = Tail(inbox)
    /\ ReqOutput' = (ReqOutput + 1) % ByteMod
    /\ outq' = outq \o a
    /\ CardFrame /\ UNCHANGED <<sched, rcBuf, irq, cardRI>>

CardAssign ==
    /\ inbox # <<>> /\ Head(inbox).Req = "ASSIGN"
    /\ LET r == Head(inbox).Reference IN
       \/ \E d \in Ids \ cardIds :
            /\ CardConsume(<<Answer("ASSIGN_OK", d, 0, r, "none")>>)
            /\ cardIds' = cardIds \cup {d}
       \/ /\ MayFail
          /\ CardConsume(<<Answer("ASSIGN_FAIL", 0, 0, r, "none")>>)
          /\ UNCHANGED cardIds
    /\ UNCHANGED held

\* Accepted; or accepted and flow controlled from now on; a channel that is
\* flow controlled already stays so, or the request is rejected and ends it.
CardData ==
    /\ inbox # <<>> /\ Head(inbox).Req \in {"MDATA", "DATA", "CTRL"}
    /\ LET q == Head(inbox)
           Says(rc) == <<Answer(rc, q.ReqId, q.ReqCh, 0, "none")>>
       IN \/ /\ q.ReqCh \notin HeldCh
             /\ CardConsume(Says("OK")) /\ UNCHANGED held
          \/ /\ q.ReqCh \in Chan /\ q.Req # "MDATA"
             /\ CardConsume(Says("OK_FC"))
             /\ held' = held \cup {<<q.ReqCh, q.ReqId>>}
          \/ /\ q.ReqCh \in HeldCh
             /\ CardConsume(Says("ERR"))
             /\ held' = {h \in held : h[1] # q.ReqCh}
    /\ UNCHANGED cardIds

CardRemove ==
    /\ inbox # <<>> /\ Head(inbox).Req \in {"REMOVE", "UREMOVE"}
    /\ LET q == Head(inbox) IN
       /\ CardConsume(IF q.Req = "UREMOVE" THEN <<>>
                      ELSE <<Answer("OK", q.ReqId, q.ReqCh, 0,
                          IF q.NLType THEN "REMOVE_COMPLETE" ELSE "none")>>)
       /\ cardIds' = cardIds \ {q.ReqId}
       /\ held' = {h \in held : h[2] # q.ReqId}

\* Flow control of a channel ends.
CardXon ==
    /\ \E h \in held :
         /\ held' = held \ {h}
         /\ outq' = Append(outq, Answer("OK", h[2], h[1], 0,
                                   IF Labelled THEN "OK_FC" ELSE "none"))
    /\ CardFrame /\ UNCHANGED <<ReqOutput, inbox, sched, rcBuf, irq, cardRI,
                                cardIds>>

\* The READY_INT the host asked for, when a request buffer is free.
CardReady ==
    /\ cardRI > 0 /\ Len(inbox) < NReq
    /\ cardRI' = cardRI - 1
    /\ outq' = Append(outq, Answer("READY_INT", 0, 0, 0, "none"))
    /\ CardFrame /\ UNCHANGED <<ReqOutput, inbox, sched, rcBuf, irq, held,
                                cardIds>>

\* Return codes go to the shared memory, the interrupt schedules the DPC;
\* not before the host has taken the previous ones and cleared the line.
CardPost ==
    /\ outq # <<>> /\ ~irq
    /\ rcBuf' = outq /\ outq' = <<>>
    /\ irq' = TRUE /\ sched' = TRUE
    /\ CardFrame /\ UNCHANGED <<ReqOutput, inbox, held, cardIds, cardRI>>

-----------------------------------------------------------------------------
ClientNext == \E e \in Entity, r \in Reqs \cup {"ASSIGN"}, c \in ChanNo,
                 n \in 1..MaxFrag : Request(e, r, c, n)

RcNext == \/ RcReadyInt \/ RcIgnored \/ RcOkFc \/ RcLabel \/ RcCancel
          \/ RcCount \/ RcAssign \/ RcAssignPost \/ RcUnknown \/ RcDone

OutNext == OutLook \/ OutFragment \/ OutFinal \/ OutAssign \/ OutEnd

DpcNext == DpcStart \/ ClrIrq \/ OutNext \/ RcNext

CardTake == CardAssign \/ CardData \/ CardRemove

CardNext == CardTake \/ CardXon \/ CardReady \/ CardPost

Next == ClientNext \/ DpcNext \/ CardNext

Spec == Init /\ [][Next]_vars

\* The soft ISR that is scheduled runs, and the card works off its queues.
Fairness == /\ WF_vars(DpcNext)
            /\ WF_vars(CardTake) /\ WF_vars(CardXon)
            /\ WF_vars(CardReady) /\ WF_vars(CardPost)

FairSpec == Spec /\ Fairness

-----------------------------------------------------------------------------
(* Properties *)

\* Every variable stays in its type.
TypeOK ==
    /\ wait \in [Entity -> BOOLEAN]
    /\ fcPend \subseteq ChanNo /\ clFc \subseteq ChanNo
    /\ clSkip \subseteq ChanNo
    /\ ent \in [Entity -> ENTITY]
    /\ tbl \in [Slot -> Entity \cup {Null}]
    /\ next \in [Slot -> 0..EMax]
    /\ ref \in [Slot -> Ref \cup {0}]
    /\ e_count \in Int
    /\ head \in 0..EMax /\ tail \in 0..EMax /\ assign \in 0..EMax
    /\ IdTable \in [Ids -> 0..EMax]
    /\ fcId \in [ChanNo -> Ids \cup {0}]
    /\ fcSkip \subseteq ChanNo
    /\ rmPending \subseteq Slot /\ noCancel \subseteq Slot
    /\ RcExt \in BOOLEAN /\ trapped \in BOOLEAN /\ sched \in BOOLEAN
    /\ irq \in BOOLEAN
    /\ ReadyInt \in 0..1 /\ cardRI \in Nat
    /\ pc \in {"idle", "rc", "post", "look", "take", "clr"}
    /\ phase \in {1, 2}
    /\ batch \in Seq(REQ) /\ inbox \in Seq(REQ)
    /\ ReadyCount \in Nat
    /\ this \in Entity \cup {Null}
    /\ cur \in CUR
    /\ ReqInput \in 0..(ByteMod - 1) /\ ReqOutput \in 0..(ByteMod - 1)
    /\ rcBuf \in Seq(RC) /\ outq \in Seq(RC)
    /\ cardIds \subseteq Ids
    /\ held \subseteq Chan \X (Ids \cup {0})

Chain(h) == {Walk(h)[k] : k \in 0..EMax} \ {0}

\* The request queue of request(), req_queue() and next_req() is a list
\* without a cycle from head to tail, of slots whose entities are busy: no
\* entity is linked twice and entity_ptr() never returns NULL in pr_out.
QueueWellFormed ==
    LET w == Walk(head) IN
    /\ w[EMax] = 0
    /\ tail = IF head = 0 THEN 0
              ELSE w[CHOOSE k \in 0..EMax : w[k] # 0 /\ w[k+1] = 0]
    /\ \A i \in Chain(head) :
         /\ tbl[i] # Null
         /\ ent[tbl[i]].XBUSY /\ ent[tbl[i]].No = i

\* e_count, by which request() decides whether there is a free slot at all,
\* is the number of slots in use.
SlotsCounted == e_count = Cardinality({i \in Slot : tbl[i] # Null})

\* The slot IdTable names for an Id holds the entity with that Id, and every
\* entity with an Id is found: isdn_rc and isdn_ind never meet a NULL entity
\* or the entity of somebody else.  An entity holds one slot only, but for the
\* one isdn_rc is about to give back after a refused ASSIGN.
IdTableSound ==
    /\ \A d \in Ids : LET i == IdTable[d] IN
         i # 0 => tbl[i] # Null /\ ent[tbl[i]].Id = d /\ ent[tbl[i]].No = i
    /\ \A e \in Entity :
         ent[e].Id # 0 => \/ IdTable[ent[e].Id] = ent[e].No
                          \/ cur = [i |-> ent[e].No, Id |-> ent[e].Id, ok |-> TRUE]
    /\ \A i \in Slot : tbl[i] # Null => ent[tbl[i]].No = i \/ cur.i = i

\* pr_ready() in byte arithmetic is the number of free request buffers, and
\* pr_out never fills a buffer the card has not given back.
BuffersAccounted ==
    /\ Ready = NReq - Len(inbox)
    /\ pc = "take" => ReadyCount + Len(batch) <= NReq - Len(inbox)

\* An ASSIGN that the card has or has answered is found by get_assign() from
\* its reference, in the slot of the entity that waits for it.
PendingAssigns ==
    {q \in Range_(batch) \cup Range_(inbox) : q.Req = "ASSIGN"} \cup
    {r \in Range_(outq) \cup Range_(rcBuf) :
        r.Rc \in {"ASSIGN_OK", "ASSIGN_FAIL"}}

AssignFound ==
    \A q \in PendingAssigns :
      LET i == get_assign(q.Reference) IN
      /\ i # 0 /\ tbl[i] # Null
      /\ ent[tbl[i]].No = i /\ wait[tbl[i]] /\ ent[tbl[i]].Id = 0

\* A client that waits for its return codes never finds its entity busy, so
\* request() never traps the card.
NoTrap == ~trapped

\* What is on the way for Id d: filled, sent, being answered, answered.
OnTheWay(d) ==
    LET Count(s) == Cardinality({k \in 1..Len(s) : s[k] = d})
        ids(s) == [k \in 1..Len(s) |-> s[k].ReqId]
        rcs(s) == [k \in 1..Len(s) |-> IF \/ s[k].Ext = "OK_FC"
                                          \/ s[k].Rc = "ASSIGN_OK"
                                       THEN 0 ELSE s[k].RcId]
    IN Count(ids(batch)) + Count(ids(inbox)) + Count(rcs(outq))
       + Count(rcs(rcBuf))

\* XMOREC is the number of return codes outstanding for the entity: More++ in
\* pr_out and More-- in isdn_rc never overflow into the flags above.
CounterExact ==
    \A e \in Entity : ent[e].Id # 0 /\ ent[e].Req # "ASSIGN" /\ cur.i = 0 =>
        ent[e].XMOREC = OnTheWay(ent[e].Id)

\* The driver forgets the Id of a REMOVE only with the answer to the REMOVE:
\* nothing that is still on the way to or from the card belongs to that Id.
\* A card that does not mark its return codes must not have a channel of that
\* Id under flow control, whose end would be taken for the answer.
RemoveAnswered ==
    [][\A e \in Entity, d \in Ids :
          /\ ent[e].Id = d /\ ent'[e].Id = 0 /\ ent[e].Req # "UREMOVE"
          /\ RcExt \/ \A c \in DOMAIN fcId : fcId[c] # d
          => ent[e].Req = "REMOVE" /\ OnTheWay(d)' = 0]_vars

\* A request is reported complete only when nothing of it is queued or on its
\* way to the card any more (an UREMOVE aside, which has no answer, and a
\* REMOVE before the first marked answer, the subject of RemoveAnswered).
Unfinished(e) ==
    \/ \E i \in Chain(head) : tbl[i] = e
    \/ \E q \in Range_(batch) \cup Range_(inbox) :
          q.ReqId # 0 /\ q.ReqId = ent[e].Id
CompletionHonest ==
    [][\A e \in Entity : wait[e] /\ ~wait'[e] /\ Unfinished(e)
          /\ ent[e].Req # "UREMOVE"
          => ent[e].Req = "REMOVE" /\ ~RcExt]_vars

\* Every request is answered: no lost wakeup between request(), the DPC and
\* the READY_INT handshake, and no return code goes astray.
EveryRequestAnswered == \A e \in Entity : wait[e] ~> ~wait[e]

\* The linked list through e_tbl and the busy flags keep the promise of
\* ReqFifo: requests are served first come first served, and each is
\* completed after it left the queue.
QueueOf ==
    LET w == Walk(head)
        n == Cardinality({k \in 0..EMax : w[k] # 0})
    IN [k \in 1..n |-> tbl[w[k-1]]]

Fifo == INSTANCE ReqFifo WITH Client <- Entity, queue <- QueueOf,
                              owed <- {e \in Entity : wait[e]}
ImplementsFifo == Fifo!Spec

\* The Id of an UREMOVE, which is never answered, leaves the table with the
\* request, when it is the last one of a run of pr_out (di.c:222-234).
UremoveForgotten ==
    [][LET n == Len(batch) IN
          n > 0 /\ batch' = <<>> /\ batch[n].Req = "UREMOVE"
            => IdTable'[batch[n].ReqId] = 0]_vars

\* What the return codes find (di.c:591-686, io.c:918-940): every Id and every
\* reference of an ASSIGN leads to the entity that it is meant for.
AnswersFound == IdTableSound /\ AssignFound

\* The queue, the busy flags and XMOREC fit together (io.c:512-585, di.c:165,
\* 664-690): nothing is linked twice, no busy entity is asked again, and what
\* is counted is what is on its way.
QueueSound == QueueWellFormed /\ NoTrap /\ CounterExact

\* A return code is taken for the answer to the request that it answers, not to
\* an earlier or a later one (di.c:591-690).
AnswersHonest == RemoveAnswered /\ CompletionHonest
=============================================================================
