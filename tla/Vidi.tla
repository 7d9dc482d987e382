-------------------------------- MODULE Vidi --------------------------------
(***************************************************************************)
(* The message interface of the newer cards (kernel/vidi_di.c).            *)
(*                                                                         *)
(* Host and card exchange messages over two rings in host memory: requests *)
(* and acknowledgements one way, return codes, indications and system      *)
(* messages the other way.  Each side acknowledges the ring entries it has *)
(* read.  An indication may carry its data in one of the receive buffers   *)
(* that the host lent to the card; a request with much data has a fragment *)
(* of DMA memory until its return code.  An indication the client has no   *)
(* room for (RNR) is kept in used_rnr_q and offered again when the card's  *)
(* timer ticks or the client asks for it out of band.                      *)
(*                                                                         *)
(* The request queue of io.c is taken as the sequence XdiReq shows it to   *)
(* be, a slot of e_tbl as its entity.  The card is external.               *)
(***************************************************************************)
EXTENDS Integers, Sequences, FiniteSets

CONSTANTS
    Entity,     \* the ENTITY structures of the clients
    DSIG,       \* the ones assigned with DSIG_ID, the others are NL_ID
    Ids,        \* the Ids the card can hand out; 0 is "no Id"
    Reqs,       \* the requests clients use, next to ASSIGN
    RxBuf,      \* the receive buffers, by the number of their DMA map entry
    Frag,       \* the fragments for transmit data
    ReqMax,     \* dma_max_nr_pending_requests: 128
    IndMax,     \* entries of the indication ring: 127 or 255
    Hdrs,       \* RNR headers: 255
    AckPer,     \* buffers acknowledged by one message: 2
    IdPer,      \* Ids acknowledged by one message: 27
    RnrTicks,   \* 5: a DSIG indication is offered again every fifth time
    OobMax,     \* entries of oob_q
    MayFail,    \* bound: the card may refuse an ASSIGN
    MayStop     \* bound: the card may warn of an error, which stops it

Null == "NULL"
RingPage == 0       \* XOffset 0: the DMA map entry of the request ring itself
NoFrag == 65535     \* XOffset 0xffff

ASSUME VidiAssumption ==
    /\ IsFiniteSet(Entity) /\ Null \notin Entity /\ DSIG \subseteq Entity
    /\ 0 \notin Ids
    /\ Reqs \subseteq {"DATA", "BIG", "CTRL", "REMOVE"}
    /\ IsFiniteSet(RxBuf) /\ RxBuf \subseteq Nat \ {0}
    /\ Frag \subseteq 1..(NoFrag - 1)
    /\ ReqMax \in Nat \ {0} /\ IndMax \in Nat \ 0..2 /\ Hdrs \in Nat
    /\ AckPer \in Nat \ {0} /\ IdPer \in Nat \ {0} /\ RnrTicks \in Nat \ {0}
    /\ OobMax \in Nat /\ MayFail \in BOOLEAN /\ MayStop \in BOOLEAN

VARIABLES
    \* the clients and the queue of io.c
    wait,       \* wait[e]: a request of e is outstanding
    flow,       \* entities with a channel under flow control
    ent,        \* the ENTITY structures
    queue,      \* entities with a request, in the order of request()
    oob,        \* oob_q: Ids whose client wants its indication again
    assign, IdTable, rmPending, fragFree,
    \* host_vidi
    started, cpuStop, stopFlag,
    pend,       \* dma_nr_pending_requests
    nrInd,      \* nr_ind_processed
    timer,      \* rnr_timer: 1 start it, 2 stop it
    bufAck, idAck,              \* pending_ind_buffer_ack, pending_ind_ack
    rnrq,                       \* used_rnr_q
    hdrFree, bufFree,           \* length of free_rnr_hdr_q and free_rnr_q
    \* the DPC and its locals
    sched, pc, phase, nr, ReadyCount, eno,
    \* the rings; the last staged entries of reqRing are not started yet
    reqRing, staged, indRing,
    \* inside the card
    jobs, done, indFree, cardId, await, cardBufs, timerOn, held, cardStop

clientVars == <<wait, flow, ent, queue, oob>>
idVars     == <<assign, IdTable, rmPending>>
stateVars  == <<started, cpuStop, stopFlag>>
ackVars    == <<bufAck, idAck>>
rnrVars    == <<timer, rnrq, hdrFree, bufFree>>
dpcVars    == <<pc, phase, nr, ReadyCount, eno>>
outRing    == <<reqRing, staged>>
cardVars   == <<jobs, done, indFree, cardId, await, cardBufs, timerOn, held,
                cardStop>>
vars == <<clientVars, idVars, fragFree, stateVars, pend, nrInd, ackVars,
          rnrVars, sched, dpcVars, outRing, indRing, cardVars>>

-----------------------------------------------------------------------------
(* The messages of the two rings; own is who the card meant by the Id *)

Code == {"none", "ASSIGN", "DATA", "BIG", "CTRL", "REMOVE"}

ReqMsg(k, d, e, f) == [k |-> k, Id |-> d, own |-> e, frag |-> f]
Rc(rc, d, e, ext)  == [k |-> "rc", rc |-> rc, Id |-> d, own |-> e, ext |-> ext]
Ind(d, e, b, big)  == [k |-> "ind", Id |-> d, own |-> e, buf |-> b, big |-> big]

\* Rx buffers enter through the acknowledge ring: diva_init_vidi gives all of
\* them to the card with the first acknowledges.
Init ==
    /\ wait = [e \in Entity |-> FALSE] /\ flow = {}
    /\ ent = [e \in Entity |-> [Id |-> 0, Req |-> "none", XOffset |-> NoFrag,
                                XBUSY |-> FALSE]]
    /\ queue = <<>> /\ oob = <<>> /\ assign = {} /\ rmPending = {}
    /\ IdTable = [d \in Ids |-> Null]
    /\ fragFree = Frag
    /\ started = FALSE /\ cpuStop = FALSE /\ stopFlag = FALSE
    /\ pend = 0 /\ nrInd = 0 /\ timer = 0
    /\ bufAck \in {s \in [1..Cardinality(RxBuf) -> RxBuf] :
                      \A i, j \in DOMAIN s : i < j => s[i] < s[j]}
    /\ idAck = <<>> /\ rnrq = <<>>
    /\ hdrFree = Hdrs /\ bufFree = 0
    /\ sched = TRUE /\ pc = "idle" /\ phase = 1
    /\ nr = 0 /\ ReadyCount = 0 /\ eno = Null
    /\ reqRing = <<>> /\ staged = 0
    /\ indRing = <<[k |-> "start"]>>
    /\ jobs = {} /\ done = 0 /\ indFree = IndMax - 1
    /\ cardId = [d \in Ids |-> Null]
    /\ await = {} /\ cardBufs = {} /\ timerOn = FALSE /\ held = {}
    /\ cardStop = FALSE

-----------------------------------------------------------------------------
(* The clients *)

\* A client has one request outstanding, ASSIGNs an entity without Id, and
\* sends no data on a channel that is under flow control.
ClientMay(e, r) ==
    /\ ~wait[e]
    /\ r = "ASSIGN" <=> ent[e].Id = 0
    /\ r \in {"DATA", "BIG"} => e \notin flow
    /\ r = "CTRL" => e \in flow

Busy(e) == ent[e].Id # 0 /\ ent[e].XBUSY

Queued(x, r) == [x EXCEPT !.Req = r, !.XBUSY = TRUE, !.XOffset = RingPage]

\* request() of io.c; a busy entity is ignored.
Request(e, r) ==
    /\ ClientMay(e, r)
    /\ wait' = [wait EXCEPT ![e] = TRUE]
    /\ IF Busy(e) THEN UNCHANGED <<ent, queue, sched>>
       ELSE /\ ent' = [ent EXCEPT ![e] = Queued(@, r)]
            /\ queue' = Append(queue, e)
            /\ sched' = TRUE
    /\ UNCHANGED <<flow, oob, idVars, fragFree, stateVars, pend, nrInd,
                   ackVars, rnrVars, dpcVars, outRing, indRing, cardVars>>

\* The client has room again for an indication it had refused (diva_oob_put).
\* Bound: it says so once until the queue is worked off.
Xon(d) ==
    /\ \E k \in DOMAIN rnrq : rnrq[k].Id = d
    /\ \A k \in DOMAIN oob : oob[k] # d
    /\ oob' = IF Len(oob) < OobMax THEN Append(oob, d) ELSE oob
    /\ sched' = TRUE
    /\ UNCHANGED <<wait, flow, ent, queue, idVars, fragFree, stateVars, pend,
                   nrInd, ackVars, rnrVars, dpcVars, outRing, indRing,
                   cardVars>>

-----------------------------------------------------------------------------
(* The RNR queue *)

\* The numbers of a set in order
InOrder(S) == CHOOSE f \in [1..Cardinality(S) -> S] :
                \A i, j \in DOMAIN f : i < j => f[i] < f[j]
Among(s, Keep(_)) == InOrder({k \in DOMAIN s : Keep(k)})
WithId(d) == {k \in DOMAIN rnrq : rnrq[k].Id = d}

\* Mutant: the receive buffer of a cancelled indication is lost.
NoBuffer(h) == <<>>
KeptBuffer(h) == IF h.keep = "rx" THEN <<h.buf>> ELSE <<>>

\* free_rnr_entry: the header goes to one of the free queues, a receive buffer
\* that was kept with the indication is acknowledged.
FreeEntry(h) ==
    /\ bufFree' = IF h.keep = "buf" THEN bufFree + 1 ELSE bufFree
    /\ hdrFree' = IF h.keep = "buf" THEN hdrFree ELSE hdrFree + 1
    /\ bufAck' = bufAck \o KeptBuffer(h)

\* Mutant: the timer is stopped although indications are left.
StopAlways(q, force) == IF timer = 1 /\ ~force THEN 0 ELSE 2

\* stop_rnr_timer, with what is left of used_rnr_q
StopTimer(q, force) ==
    IF q # <<>> THEN timer
    ELSE IF timer = 1 /\ ~force THEN 0 ELSE 2

\* Mutant: the indications of an entity that is removed stay in the queue.
CancelNone(d) == UNCHANGED <<rnrVars, bufAck>>

\* cancel_rnr_on_remove: the first entry with the Id
CancelRnr(d) ==
    IF WithId(d) = {} THEN UNCHANGED <<rnrVars, bufAck>>
    ELSE \E k \in WithId(d) :
           /\ \A j \in WithId(d) : k <= j
           /\ rnrq' = SubSeq(rnrq, 1, k - 1) \o SubSeq(rnrq, k + 1, Len(rnrq))
           /\ FreeEntry(rnrq[k])
           /\ timer' = StopTimer(rnrq', FALSE)

\* The client answers RNR again, or takes the indication (copies it, refuses it
\* for good, or delays it: all are acknowledged).
Answers == [DOMAIN rnrq -> {"rnr", "take"}]

\* diva_process_rnr_ind for one Id, or for all of them (0).  DSIG indications
\* are offered every fifth time only; entries of an unknown Id are dropped.
ProcessRnr(d, a) ==
    LET Asked(k) == d = 0 \/ rnrq[k].Id = d
        Known(k) == IdTable[rnrq[k].Id] # Null
        Later(k) == IdTable[rnrq[k].Id] \in DSIG /\ rnrq[k].ctr + 1 < RnrTicks
        Stays(k) == \/ ~Asked(k)
                    \/ Known(k) /\ (Later(k) \/ a[k] = "rnr")
        After(k) == IF ~Asked(k) THEN rnrq[k]
                    ELSE IF Later(k) THEN [rnrq[k] EXCEPT !.ctr = @ + 1]
                    ELSE [rnrq[k] EXCEPT !.ctr = 0]
        stay == Among(rnrq, Stays)
        taken == Among(rnrq, LAMBDA k : ~Stays(k) /\ Known(k))
        copied == {k \in DOMAIN rnrq : ~Stays(k) /\ rnrq[k].keep = "buf"}
        kept == Among(rnrq, LAMBDA k : ~Stays(k) /\ rnrq[k].keep = "rx")
    IN /\ \A k \in DOMAIN rnrq : Stays(k) /\ a[k] = "rnr" => Asked(k) /\ ~Later(k)
       /\ rnrq' = [k \in DOMAIN stay |-> After(stay[k])]
       /\ idAck' = idAck \o [k \in DOMAIN taken |-> rnrq[taken[k]].Id]
       /\ bufAck' = bufAck \o [k \in DOMAIN kept |-> rnrq[kept[k]].buf]
       /\ bufFree' = bufFree + Cardinality(copied)
       /\ hdrFree' = hdrFree + Len(rnrq) - Len(stay) - Cardinality(copied)

\* vidi_save_rnr_ind: with a header that has a buffer, with a header and a new
\* buffer, with the receive buffer itself when there is no memory for one; it
\* is lost when all headers are in use.
Entry(m, keep) == [Id |-> m.Id, own |-> m.own, keep |-> keep, ctr |-> 0,
                   buf |-> IF keep = "rx" THEN m.buf ELSE 0]

SaveAs(m, keep) ==
    /\ rnrq' = Append(rnrq, Entry(m, keep))
    /\ timer' = IF rnrq = <<>> THEN 1 ELSE timer
    /\ bufAck' = IF m.buf # 0 /\ keep # "rx" THEN Append(bufAck, m.buf)
                 ELSE bufAck
    /\ UNCHANGED idAck

NewHeader == hdrFree > 0 /\ hdrFree' = hdrFree - 1 /\ UNCHANGED bufFree
OldBuffer == bufFree > 0 /\ bufFree' = bufFree - 1 /\ UNCHANGED hdrFree

Lost(m) ==
    /\ idAck' = Append(idAck, m.Id)
    /\ bufAck' = IF m.buf # 0 THEN Append(bufAck, m.buf) ELSE bufAck
    /\ UNCHANGED rnrVars

SaveRnr(m) ==
    IF hdrFree = 0 /\ bufFree = 0 THEN Lost(m) ELSE
    \/ m.big /\ OldBuffer /\ SaveAs(m, "buf")
    \/ m.big /\ bufFree = 0 /\ NewHeader /\ SaveAs(m, "buf")
    \/ m.big /\ bufFree = 0 /\ NewHeader /\ SaveAs(m, "rx")
    \/ ~m.big /\ NewHeader /\ SaveAs(m, "local")
    \/ ~m.big /\ hdrFree = 0 /\ OldBuffer /\ SaveAs(m, "buf")

-----------------------------------------------------------------------------
(* The DPC: indications *)

\* DIDpcRoutine and the start of vidi_host_pr_dpc
DpcStart ==
    /\ pc = "idle" /\ sched
    /\ sched' = FALSE
    /\ pc' = IF cpuStop THEN "idle" ELSE "oob"
    /\ UNCHANGED <<clientVars, idVars, fragFree, stateVars, pend, nrInd,
                   ackVars, rnrVars, phase, nr, ReadyCount, eno, outRing,
                   indRing, cardVars>>

\* diva_vidi_process_oob
Oob ==
    /\ pc = "oob" /\ oob # <<>>
    /\ oob' = Tail(oob)
    /\ \E a \in Answers : ProcessRnr(Head(oob), a)
    /\ UNCHANGED <<wait, flow, ent, queue, idVars, fragFree, stateVars, pend,
                   nrInd, timer, sched, dpcVars, outRing, indRing, cardVars>>

\* The remote indication counter is read; what comes later waits for the next
\* interrupt.
Count ==
    /\ pc = "oob" /\ oob = <<>>
    /\ nr' = Len(indRing) /\ nrInd' = nrInd + Len(indRing)
    /\ pc' = "ind"
    /\ UNCHANGED <<clientVars, idVars, fragFree, stateVars, pend, ackVars,
                   rnrVars, sched, phase, ReadyCount, eno, outRing, indRing,
                   cardVars>>

\* Every branch of vidi_dispatch_ind takes one message.
Dispatch(k, m) ==
    /\ pc = "ind" /\ nr > 0
    /\ m = Head(indRing) /\ m.k = k
    /\ indRing' = Tail(indRing) /\ nr' = nr - 1
    /\ UNCHANGED <<oob, queue, nrInd, sched, pc, phase, ReadyCount, eno,
                   outRing, cardVars>>

SysAckReq == LET m == Head(indRing) IN
    /\ Dispatch("ack_req", m)
    /\ pend' = IF m.n <= pend THEN pend - m.n ELSE pend
    /\ UNCHANGED <<wait, flow, ent, idVars, fragFree, stateVars, ackVars,
                   rnrVars>>

SysRnrInd == LET m == Head(indRing) IN
    /\ Dispatch("rnr_ind", m)
    /\ \E a \in Answers : ProcessRnr(0, a)
    /\ timer' = StopTimer(rnrq', TRUE)
    /\ UNCHANGED <<wait, flow, ent, idVars, fragFree, stateVars, pend>>

SysState == LET m == Head(indRing) IN
    /\ \/ /\ Dispatch("start", m) /\ started' = TRUE
          /\ UNCHANGED <<cpuStop, stopFlag>>
       \/ /\ Dispatch("cpu_stop", m) /\ cpuStop' = TRUE
          /\ UNCHANGED <<started, stopFlag>>
       \/ /\ Dispatch("warning", m) /\ stopFlag' = TRUE
          /\ UNCHANGED <<started, cpuStop>>
    /\ UNCHANGED <<wait, flow, ent, idVars, fragFree, pend, ackVars, rnrVars>>

\* Mutants: the fragment is given back with any return code, or never.
FreesAlways(x, ext) == x.XOffset # NoFrag
FreesNever(x, ext) == FALSE

\* The fragment of a request is given back with its return code, but not with
\* the one that ends flow control.
Frees(x, ext) == ext # "OK_FC" /\ x.XOffset # NoFrag

Freed(x, ext) == IF Frees(x, ext) THEN fragFree \cup {x.XOffset} ELSE fragFree
Returned(x, ext) == [x EXCEPT !.XBUSY = FALSE,
                              !.XOffset = IF Frees(x, ext) THEN NoFrag ELSE @]

\* The client's callback for a return code.  The end of flow control completes
\* nothing: what the client sent meanwhile is on another channel.
ClientRc(e, m) ==
    /\ wait' = IF m.ext = "OK_FC" THEN wait ELSE [wait EXCEPT ![e] = FALSE]
    /\ flow' = IF m.rc = "OK_FC" THEN flow \cup {e}
               ELSE IF m.ext = "OK_FC" \/ ent'[e].Id = 0 THEN flow \ {e}
               ELSE flow

Removal(e, m) == e \in rmPending /\ m.rc = "OK"

\* Mutant: any OK answers a pending REMOVE.
NeverPremature(e, m) == FALSE
Premature(e, m) == e \notin DSIG /\ m.ext # "REMOVE_COMPLETE"

RcIgnored == LET m == Head(indRing) IN
    /\ Dispatch("rc", m) /\ m.Id # 0
    /\ LET e == IdTable[m.Id] IN e # Null /\ Removal(e, m) /\ Premature(e, m)
    /\ UNCHANGED <<wait, flow, ent, idVars, fragFree, stateVars, pend,
                   ackVars, rnrVars>>

RcRemoved == \E e \in Entity : LET m == Head(indRing) IN
    /\ Dispatch("rc", m) /\ m.Id # 0
    /\ e = IdTable[m.Id] /\ Removal(e, m) /\ ~Premature(e, m)
    /\ rmPending' = rmPending \ {e}
    /\ CancelRnr(m.Id)
    /\ IdTable' = [IdTable EXCEPT ![m.Id] = Null]
    /\ fragFree' = Freed(ent[e], m.ext)
    /\ ent' = [ent EXCEPT ![e] = [Returned(@, m.ext) EXCEPT !.Id = 0]]
    /\ ClientRc(e, m)
    /\ UNCHANGED <<assign, stateVars, pend, idAck>>

RcAnswer == \E e \in Entity : LET m == Head(indRing) IN
    /\ Dispatch("rc", m) /\ m.Id # 0
    /\ e = IdTable[m.Id] /\ ~Removal(e, m)
    /\ fragFree' = Freed(ent[e], m.ext)
    /\ ent' = [ent EXCEPT ![e] = Returned(@, m.ext)]
    /\ ClientRc(e, m)
    /\ UNCHANGED <<idVars, stateVars, pend, ackVars, rnrVars>>

\* The answer to an ASSIGN comes with its reference.
RcAssign == \E e \in Entity : LET m == Head(indRing) IN
    /\ Dispatch("rc", m) /\ m.rc \in {"ASSIGN_OK", "ASSIGN_FAIL"}
    /\ e = m.own /\ e \in assign
    /\ assign' = assign \ {e}
    /\ fragFree' = Freed(ent[e], m.ext)
    /\ ent' = [ent EXCEPT ![e] = [Returned(@, m.ext) EXCEPT !.Id = m.Id]]
    /\ IdTable' = IF m.rc = "ASSIGN_OK" THEN [IdTable EXCEPT ![m.Id] = e]
                  ELSE IdTable
    /\ ClientRc(e, m)
    /\ UNCHANGED <<rmPending, stateVars, pend, ackVars, rnrVars>>

AckBuf(m) == bufAck' = IF m.buf # 0 THEN Append(bufAck, m.buf) ELSE bufAck

\* An indication for an entity that is being removed (or for no entity at all)
\* only gives its buffer back.
IndDropped == LET m == Head(indRing) IN
    /\ Dispatch("ind", m)
    /\ IdTable[m.Id] \in rmPending \cup {Null}
    /\ AckBuf(m)
    /\ UNCHANGED <<wait, flow, ent, idVars, fragFree, stateVars, pend,
                   idAck, rnrVars>>

IndTaken == LET m == Head(indRing) IN
    /\ Dispatch("ind", m)
    /\ IdTable[m.Id] \in Entity \ rmPending
    /\ AckBuf(m) /\ idAck' = Append(idAck, m.Id)
    /\ UNCHANGED <<wait, flow, ent, idVars, fragFree, stateVars, pend,
                   rnrVars>>

IndRnr == LET m == Head(indRing) IN
    /\ Dispatch("ind", m)
    /\ IdTable[m.Id] \in Entity \ rmPending
    /\ SaveRnr(m)
    /\ UNCHANGED <<wait, flow, ent, idVars, fragFree, stateVars, pend>>

IndEnd ==
    /\ pc = "ind" /\ nr = 0
    /\ pc' = "out" /\ phase' = 1
    /\ UNCHANGED <<clientVars, idVars, fragFree, stateVars, pend, nrInd,
                   ackVars, rnrVars, sched, nr, ReadyCount, eno, outRing,
                   indRing, cardVars>>

-----------------------------------------------------------------------------
(* The DPC: requests *)

Least(a, b) == IF a < b THEN a ELSE b

\* The handles of q go out in messages of per handles each.  The last ring
\* entry takes one handle only: the loop looks at ReadyCount for each of them.
Taken(q, per, room) ==
    IF room = 0 THEN 0 ELSE Least(Len(q), (room - 1) * per + 1)

Batches(kind, q, per, room) ==
    LET n == Taken(q, per, room)
    IN  [j \in 1..((n + per - 1) \div per) |->
           [k |-> kind, of |-> SubSeq(q, (j - 1) * per + 1, Least(j * per, n))]]

Rest(q, per, room) == SubSeq(q, Taken(q, per, room) + 1, Len(q))

If(cond, m) == IF cond THEN <<m>> ELSE <<>>

\* Mutant: nr_ind_processed is not reset.
NoReset(acked) == nrInd
Unacked(acked) == IF acked THEN 0 ELSE nrInd

\* DIDpcRoutine calls out once more after the dpc.
OutOver ==
    /\ phase' = 2
    /\ pc' = IF phase = 1 THEN "out" ELSE "idle"

OutImpossible ==
    /\ pc = "out"
    /\ ~started \/ cpuStop \/ pend >= ReqMax
    /\ OutOver
    /\ UNCHANGED <<clientVars, idVars, fragFree, stateVars, pend, nrInd,
                   ackVars, rnrVars, sched, nr, ReadyCount, eno, outRing,
                   indRing, cardVars>>

\* vidi_host_pr_out up to the requests.  The queue is looked at here.
OutSystem ==
    /\ pc = "out" /\ started /\ ~cpuStop /\ pend < ReqMax
    /\ LET stop  == If(stopFlag, [k |-> "stop"])
           room1 == ReqMax - pend - Len(stop)
           ack   == If(nrInd > 1 /\ room1 > 0, [k |-> "ack_ind", n |-> nrInd])
           room2 == room1 - Len(ack)
           want  == IF stopFlag THEN 0 ELSE timer
           tmr   == If(want # 0 /\ room2 > 0, [k |-> "timer", on |-> want = 1])
           room3 == room2 - Len(tmr)
           bufs  == Batches("ack_buf", bufAck, AckPer, room3)
           room4 == room3 - Len(bufs)
           ids   == Batches("ack_id", idAck, IdPer, room4)
           out   == stop \o ack \o tmr \o bufs \o ids
       IN /\ reqRing' = reqRing \o out /\ staged' = Len(out)
          /\ pend' = pend + Len(out)
          /\ ReadyCount' = ReqMax - pend - Len(out)
          /\ nrInd' = Unacked(ack # <<>>)
          /\ timer' = IF tmr # <<>> THEN 0 ELSE want
          /\ bufAck' = Rest(bufAck, AckPer, room3)
          /\ idAck' = Rest(idAck, IdPer, room4)
    /\ stopFlag' = FALSE
    /\ eno' = IF queue = <<>> THEN Null ELSE Head(queue)
    /\ pc' = "req"
    /\ UNCHANGED <<clientVars, idVars, fragFree, started, cpuStop, rnrq,
                   hdrFree, bufFree, sched, phase, nr, indRing, cardVars>>

\* Mutant: the request is not counted.
Uncounted == pend
Counted == pend + 1

\* One request: much data goes to a fragment.
OutRequest == \E e \in {eno}, f \in fragFree \cup {NoFrag} :
    /\ pc = "req" /\ e # Null /\ ReadyCount # 0
    /\ ent[e].Req = "BIG" <=> f # NoFrag
    /\ fragFree' = fragFree \ {f}
    /\ ent' = [ent EXCEPT ![e].XOffset = f]
    /\ reqRing' = Append(reqRing, ReqMsg(ent[e].Req, ent[e].Id, e, f))
    /\ staged' = staged + 1 /\ pend' = Counted
    /\ ReadyCount' = ReadyCount - 1
    /\ queue' = Tail(queue)
    /\ eno' = IF queue' = <<>> THEN Null ELSE Head(queue')
    /\ assign' = IF ent[e].Id = 0 THEN assign \cup {e} ELSE assign
    /\ IF ent[e].Req = "REMOVE"
       THEN rmPending' = rmPending \cup {e} /\ CancelRnr(ent[e].Id)
       ELSE UNCHANGED <<rmPending, rnrVars, bufAck>>
    /\ UNCHANGED <<wait, flow, oob, IdTable, stateVars, nrInd, idAck, sched,
                   pc, phase, nr, indRing, cardVars>>

NoFragment(e) == e # Null /\ ent[e].Req = "BIG" /\ fragFree = {}

\* diva_vidi_sync_buffers_and_start_tx_dma: the card sees what was staged.
OutSync ==
    /\ pc = "req" /\ (eno = Null \/ ReadyCount = 0 \/ NoFragment(eno))
    /\ staged' = 0
    /\ OutOver
    /\ UNCHANGED <<clientVars, idVars, fragFree, stateVars, pend, nrInd,
                   ackVars, rnrVars, sched, nr, ReadyCount, eno, reqRing,
                   indRing, cardVars>>

-----------------------------------------------------------------------------
(* The card (external) *)

HostFrame == UNCHANGED <<clientVars, idVars, fragFree, stateVars, pend, nrInd,
                         ackVars, rnrVars, dpcVars, staged>>

\* Every message interrupts the host.  One entry is left for acknowledges.
Post(m) ==
    /\ indFree > (IF m.k = "ack_req" THEN 0 ELSE 1)
    /\ indRing' = Append(indRing, m) /\ indFree' = indFree - 1
    /\ sched' = TRUE

CardTake(m) ==
    /\ ~cardStop /\ Len(reqRing) > staged
    /\ m = Head(reqRing)
    /\ reqRing' = Tail(reqRing) /\ done' = done + 1
    /\ HostFrame
    /\ UNCHANGED <<sched, indRing, cardId, held, cardStop>>

SeqSet(s) == {s[k] : k \in DOMAIN s}

CardSystem == LET m == Head(reqRing) IN
    /\ CardTake(m)
    /\ m.k \in {"ack_ind", "timer", "ack_buf", "ack_id"}
    /\ indFree' = IF m.k = "ack_ind" THEN indFree + m.n ELSE indFree
    /\ timerOn' = IF m.k = "timer" THEN m.on ELSE timerOn
    /\ cardBufs' = IF m.k = "ack_buf" THEN cardBufs \cup SeqSet(m.of)
                   ELSE cardBufs
    /\ await' = IF m.k = "ack_id" THEN await \ SeqSet(m.of) ELSE await
    /\ UNCHANGED jobs

CardRequest == LET m == Head(reqRing) IN
    /\ CardTake(m) /\ m.k \in Code \cup {"stop"}
    /\ jobs' = jobs \cup {m}
    /\ UNCHANGED <<indFree, timerOn, cardBufs, await>>

CardPost(m) ==
    /\ ~cardStop /\ Post(m)
    /\ HostFrame /\ UNCHANGED <<reqRing, timerOn>>

\* What a request asks for is done when it is answered.
CardJob(m, kinds, answer) ==
    /\ m.k \in kinds
    /\ CardPost(answer)
    /\ jobs' = jobs \ {m} /\ UNCHANGED <<done, cardBufs>>

CardStops == \E m \in jobs :
    /\ CardJob(m, {"stop"}, [k |-> "cpu_stop"])
    /\ cardStop' = TRUE /\ UNCHANGED <<cardId, await, held>>

CardAssign(m) ==
    /\ \/ \E d \in Ids :
            /\ cardId[d] = Null
            /\ CardJob(m, {"ASSIGN"}, Rc("ASSIGN_OK", d, m.own, "none"))
            /\ cardId' = [cardId EXCEPT ![d] = m.own]
       \/ /\ MayFail
          /\ CardJob(m, {"ASSIGN"}, Rc("ASSIGN_FAIL", 0, m.own, "none"))
          /\ UNCHANGED cardId
    /\ UNCHANGED <<await, held, cardStop>>

CardData(m) ==
    /\ \/ /\ CardJob(m, {"DATA", "BIG", "CTRL"}, Rc("OK", m.Id, m.own, "none"))
          /\ UNCHANGED held
       \/ /\ CardJob(m, {"DATA", "BIG"}, Rc("OK_FC", m.Id, m.own, "none"))
          /\ m.own \notin DSIG
          /\ held' = held \cup {m.Id}
    /\ UNCHANGED <<cardId, await, cardStop>>

\* After the answer to a REMOVE nothing more comes for the Id.
CardRemove(m) ==
    /\ CardJob(m, {"REMOVE"},
               Rc("OK", m.Id, m.own,
                  IF m.own \in DSIG THEN "none" ELSE "REMOVE_COMPLETE"))
    /\ cardId' = [cardId EXCEPT ![m.Id] = Null]
    /\ await' = await \ {m.Id} /\ held' = held \ {m.Id}
    /\ UNCHANGED cardStop

CardXon == \E d \in held :
    /\ CardPost(Rc("OK", d, cardId[d], "OK_FC"))
    /\ held' = held \ {d}
    /\ UNCHANGED <<jobs, done, await, cardBufs, cardId, cardStop>>

CardAck ==
    /\ done > 0 /\ CardPost([k |-> "ack_req", n |-> done])
    /\ done' = 0
    /\ UNCHANGED <<jobs, await, cardBufs, held, cardId, cardStop>>

\* One indication per Id until it is acknowledged.
CardInd == \E d \in Ids \ await, b \in cardBufs \cup {0}, big \in BOOLEAN :
    /\ cardId[d] # Null /\ (big => b # 0)
    /\ CardPost(Ind(d, cardId[d], b, big))
    /\ await' = await \cup {d} /\ cardBufs' = cardBufs \ {b}
    /\ UNCHANGED <<jobs, done, held, cardId, cardStop>>

\* The timer ticks again and again; bound: one tick in the ring.
CardTick ==
    /\ timerOn /\ \A k \in DOMAIN indRing : indRing[k].k # "rnr_ind"
    /\ CardPost([k |-> "rnr_ind"])
    /\ UNCHANGED <<jobs, done, await, cardBufs, held, cardId, cardStop>>

\* Bound: one warning, and only with nothing else in the ring.
CardWarn ==
    /\ MayStop /\ ~stopFlag /\ indRing = <<>>
    /\ \A k \in DOMAIN reqRing : reqRing[k].k # "stop"
    /\ \A m \in jobs : m.k # "stop"
    /\ CardPost([k |-> "warning"])
    /\ UNCHANGED <<jobs, done, await, cardBufs, held, cardId, cardStop>>

-----------------------------------------------------------------------------
ClientNext == \/ \E e \in Entity, r \in Reqs \cup {"ASSIGN"} : Request(e, r)
              \/ \E d \in Ids : Xon(d)

IndNext == \/ SysAckReq \/ SysRnrInd \/ SysState
           \/ RcIgnored \/ RcRemoved \/ RcAnswer \/ RcAssign
           \/ IndDropped \/ IndTaken \/ IndRnr

DpcNext == \/ DpcStart \/ Oob \/ Count \/ IndNext \/ IndEnd
           \/ OutImpossible \/ OutSystem \/ OutRequest \/ OutSync

CardReads == CardSystem \/ CardRequest
CardAnswers(e) == \E m \in jobs :
    /\ m.k # "stop" /\ m.own = e
    /\ CardAssign(m) \/ CardData(m) \/ CardRemove(m)

CardNext == \/ CardReads \/ CardStops \/ \E e \in Entity : CardAnswers(e)
            \/ CardXon \/ CardAck \/ CardInd \/ CardTick \/ CardWarn

Next == ClientNext \/ DpcNext \/ CardNext

Spec == Init /\ [][Next]_vars

\* The client of d takes an indication that it refused before.
TakenAtLast(d) ==
    /\ SysRnrInd \/ Oob
    /\ \E k \in DOMAIN idAck' \ DOMAIN idAck : idAck'[k] = d

\* The soft ISR that is scheduled runs, and no client refuses for ever.  The
\* card works off the request ring, its timer ticks, and no request is passed
\* over by other messages for ever.
Fairness == /\ WF_vars(DpcNext) /\ \A d \in Ids : SF_vars(TakenAtLast(d))
            /\ WF_vars(CardReads) /\ WF_vars(CardAck) /\ SF_vars(CardTick)
            /\ \A e \in Entity : SF_vars(CardAnswers(e))

FairSpec == Spec /\ Fairness

-----------------------------------------------------------------------------
(* Properties *)

REntry == [Id : Ids, own : Entity, keep : {"local", "buf", "rx"},
           ctr : 0..RnrTicks, buf : RxBuf \cup {0}]

\* Every variable of the host stays in its type.
TypeOK ==
    /\ wait \in [Entity -> BOOLEAN] /\ flow \subseteq Entity
    /\ ent \in [Entity -> [Id : Ids \cup {0}, Req : Code, XBUSY : BOOLEAN,
                           XOffset : Frag \cup {RingPage, NoFrag}]]
    /\ queue \in Seq(Entity) /\ oob \in Seq(Ids) /\ Len(oob) <= OobMax
    /\ assign \subseteq Entity /\ rmPending \subseteq Entity
    /\ IdTable \in [Ids -> Entity \cup {Null}]
    /\ fragFree \subseteq Frag
    /\ pend \in 0..ReqMax /\ nrInd \in 0..IndMax /\ timer \in 0..2
    /\ bufAck \in Seq(RxBuf) /\ idAck \in Seq(Ids) /\ rnrq \in Seq(REntry)
    /\ hdrFree \in 0..Hdrs /\ bufFree \in 0..Hdrs
    /\ nr \in 0..IndMax /\ ReadyCount \in 0..ReqMax
    /\ eno \in Entity \cup {Null}
    /\ staged \in 0..Len(reqRing) /\ indFree \in 0..IndMax

At(s, P(_)) == {k \in DOMAIN s : P(s[k])}

\* A bounded sum over the messages of a ring
Amount(m, kind) == IF m.k = kind THEN m.n ELSE 0
SumTo(s, kind) ==
    LET f[k \in 0..Len(s)] == IF k = 0 THEN 0
                              ELSE f[k - 1] + Amount(s[k], kind)
    IN  f
SumOf(s, kind) == SumTo(s, kind)[Len(s)]

\* The host never writes a ring entry that the card still reads: what it counts
\* as pending is what is in the ring, read and not acknowledged yet, or
\* acknowledged by a message that is on its way.
RequestCredits == pend = Len(reqRing) + done + SumOf(indRing, "ack_req")

\* The same for the entries of the indication ring.
IndicationCredits ==
    indFree + Len(indRing) + (nrInd - nr) + SumOf(reqRing, "ack_ind") = IndMax

\* Where messages of the request ring that acknowledge name x
Named(kind, x) ==
    {p \in (DOMAIN reqRing) \X (1..(AckPer + IdPer)) :
       /\ reqRing[p[1]].k = kind /\ p[2] \in DOMAIN reqRing[p[1]].of
       /\ reqRing[p[1]].of[p[2]] = x}

\* Every receive buffer is in exactly one place: in the card, with an
\* indication in the ring or in the RNR queue, in the queue of acknowledges or
\* in an acknowledge on its way.
Places(b) ==
    Cardinality(IF b \in cardBufs THEN {b} ELSE {})
    + Cardinality(At(indRing, LAMBDA m : m.k = "ind" /\ m.buf = b))
    + Cardinality(At(rnrq, LAMBDA h : h.keep = "rx" /\ h.buf = b))
    + Cardinality(At(bufAck, LAMBDA x : x = b))
    + Cardinality(Named("ack_buf", b))
BuffersKept == \A b \in RxBuf : Places(b) = 1

\* An indication is acknowledged exactly once, and to the Id it came for: while
\* the card waits there is one indication, RNR entry or acknowledge of the Id,
\* otherwise none.  A REMOVE, when it is sent, takes what is left.  Indications
\* in the ring that were meant for an earlier owner of the Id do not count: the
\* host drops them without an acknowledge.
Acks(d) ==
    Cardinality(At(idAck, LAMBDA x : x = d)) + Cardinality(Named("ack_id", d))
Open(d) == Cardinality(At(indRing, LAMBDA m : m.k = "ind" /\ m.Id = d
                                           /\ m.own = cardId[d]))
           + Cardinality(WithId(d))
AckedOnce ==
    \A d \in Ids : LET due == IF d \in await THEN 1 ELSE 0 IN
      /\ Acks(d) <= due
      /\ cardId[d] \in Entity \ rmPending => Acks(d) + Open(d) = due

\* An indication that is kept for later is still meant for the entity that has
\* its Id now, so that no client ever gets the data of another one; no Id has
\* two of them, and no header is lost.
RnrOwned ==
    /\ \A k \in DOMAIN rnrq : IdTable[rnrq[k].Id] = rnrq[k].own
    /\ \A j, k \in DOMAIN rnrq : rnrq[j].Id = rnrq[k].Id => j = k
    /\ hdrFree + bufFree + Len(rnrq) = Hdrs

\* As long as an indication is kept the card's timer runs, or is going to be
\* started by the last message about it.
TimerMsgs == At(reqRing, LAMBDA m : m.k = "timer")
TimerWanted ==
    IF timer # 0 THEN timer = 1
    ELSE IF TimerMsgs # {}
         THEN \A k \in TimerMsgs : reqRing[k].on \/ \E j \in TimerMsgs : j > k
         ELSE timerOn
StopSent == cardStop \/ (\E m \in jobs : m.k = "stop") \/ At(reqRing, LAMBDA m : m.k = "stop") # {}
TimerRuns == rnrq # <<>> => TimerWanted \/ StopSent

\* A fragment is in use as long as its entity waits for the return code and the
\* card may read it, and is given back once; the ring's own page, which XOffset
\* names while the request is queued, is never given to the allocator.
FragmentsKept ==
    /\ RingPage \notin fragFree
    /\ \A f \in Frag : f \notin fragFree <=>
          \E e \in Entity : ent[e].XOffset = f /\ wait[e]
    /\ \A e, c \in Entity : ent[e].XOffset = ent[c].XOffset
          /\ ent[e].XOffset \in Frag => e = c
    /\ \A m \in SeqSet(reqRing) \cup jobs : m.k = "BIG"
          => ent[m.own].XOffset = m.frag

\* Every request is answered, whatever the rings, fragments and timers do, as
\* long as the card is not stopped.
EveryRequestAnswered == \A e \in Entity : wait[e] ~> ~wait[e]

\* Every indication is acknowledged, or its entity removed: one that a client
\* had no room for is offered again.
EveryIndicationAcked == \A d \in Ids : d \in await ~> d \notin await

\* The entries of both rings are accounted, on both sides and whatever message
\* uses them (vidi_di.c:169, 193).
Credits == TypeOK /\ RequestCredits /\ IndicationCredits

\* Receive buffers and fragments are given back once, by whoever ends what
\* holds them (vidi_di.c:436, 344; io.c:573).
MemoryKept == BuffersKept /\ FragmentsKept

\* Every indication belongs to the entity that it came for until it is
\* acknowledged, once (vidi_di.c:825, 896).
IndicationsOwned == AckedOnce /\ RnrOwned
=============================================================================
