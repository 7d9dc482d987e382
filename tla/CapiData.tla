------------------------------ MODULE CapiData ------------------------------
(***************************************************************************)
(* The way of data from an application to the card in kernel/message.c:    *)
(* DATA_B3_REQ, its transmit buffer, the list of each NCCI, the one        *)
(* request of the network layer entity that may be outstanding, flow       *)
(* control by channel, DATA_B3_CONF, and the end of a connection.          *)
(*                                                                         *)
(* All of it runs under api_lock, a message of the application or a        *)
(* callback of the card at a time, and is one step here; so the PLCI is a  *)
(* record, and the functions of the driver are operators on it.  An NCCI   *)
(* has the number of its channel (for the others see CapiNcci).            *)
(***************************************************************************)
EXTENDS Integers, FiniteSets, SequencesExt

CONSTANTS
    MaxNcci,        \* the NCCIs of the PLCI
    Bufs,           \* the transmit buffers of the application
    MaxData,        \* MAX_DATA_B3
    MaxAck,         \* MAX_DATA_ACK
    MaxQueue,       \* bound: messages that msg_in_queue takes
    Transparent,    \* B3_TRANSPARENT, otherwise a protocol with N_DISC at once
    FlowControl,    \* whether the card returns OK_FC
    NReset,         \* MANUFACTURER_FEATURE2_TRANSPARENT_N_RESET
    AckFlags        \* whether data asks for a delivery confirmation: a subset of BOOLEAN

Nccis == 1..MaxNcci

ConstantsOK ==
    /\ MaxNcci \in Nat \ {0} /\ MaxData \in Nat \ {0} /\ MaxAck \in Nat \ {0}
    /\ MaxQueue \in Nat
    /\ {Transparent, FlowControl, NReset} \subseteq BOOLEAN
    /\ AckFlags \subseteq BOOLEAN
    /\ Transparent => MaxNcci = 1       \* one connection for each B channel
    /\ 0 \notin Bufs

VARIABLES
    plci,       \* the driver: PLCI, NCCIs, transmit buffers
    fcOwed,     \* the card: flow control that it will end
    ackOwed,    \* N_DATA_ACKs that it will send
    discOwed    \* N_DISC_ACKs that it will send

vars == <<plci, fcOwed, ackOwed, discOwed>>

Handles == 1..(MaxData + MaxAck + MaxQueue)

Init ==
    /\ plci = [state    |-> [n \in Nccis |-> "IDLE"],   \* ncci_state
               dbuf     |-> [n \in Nccis |-> << >>],    \* DBuffer, data_pending
               acks     |-> [n \in Nccis |-> << >>],    \* DataAck
               queue    |-> << >>,                      \* msg_in_queue
               free     |-> Bufs,                       \* xbuffer_table
               ring     |-> MaxNcci,                    \* ncci_ring_list
               nl_req   |-> "NONE", reqCh |-> 0,
               out      |-> "NONE",                     \* without return code
               twice    |-> FALSE,                      \* a request meets another
               sent     |-> 0,                          \* data_sent, data_sent_ptr
               req_in   |-> FALSE, reqs |-> << >>,      \* RBuffer
               command  |-> "NONE", number |-> 0,
               reset    |-> FALSE,                      \* internal_command
               send_disc |-> 0,
               fc       |-> [n \in Nccis |-> FALSE],    \* N_OK_FC_PENDING
               fcId     |-> [n \in Nccis |-> FALSE],    \* FlowControlIdTable
               fcSkip   |-> [n \in Nccis |-> FALSE],    \* FlowControlSkipTable
               waiting  |-> [n \in Nccis |-> << >>],    \* DATA_B3_REQ without CONF
               asked    |-> {},                         \* DISCONNECT_B3_REQ without CONF
               wrong    |-> FALSE]                      \* a CONF nobody waits for
    /\ fcOwed = [n \in Nccis |-> FALSE]
    /\ ackOwed = [n \in Nccis |-> 0]
    /\ discOwed = [n \in Nccis |-> FALSE]

-----------------------------------------------------------------------------
(* Confirmations *)

\* f(p), with p computed once.
Then(p, f(_)) == CHOOSE r \in {f(q) : q \in {p}} : TRUE

Without(seq, h) == SelectSeq(seq, LAMBDA x : x # h)

Conf(p, n, h) == [p EXCEPT !.waiting[n] = Without(@, h)]

\* DISCONNECT_B3_CONF for the NCCI n, with the number of a message: that of
\* the DISCONNECT_B3_REQ for the NCCI number, or 0, some other message.
DiscConf(p, n, number) ==
    [p EXCEPT !.asked = @ \ {number},
              !.wrong = @ \/ number # n \/ number \notin p.asked]

-----------------------------------------------------------------------------
(* Transmit buffers and lists *)

\* Data for n in msg_in_queue.
Queued(p, n) == SelectSeq(p.queue, LAMBDA m : m.cmd = "DATA" /\ m.ncci = n)

BufsOf(seq) == {seq[i].buf : i \in DOMAIN seq}

\* Mutant: a buffer that the card still reads is given back, too.
CleanupAll(p, n) ==
    [p EXCEPT !.free = @ \cup BufsOf(p.dbuf[n]),
              !.dbuf[n] = << >>, !.acks[n] = << >>,
              !.waiting[n] = [i \in 1..Len(Queued(p, n)) |-> Queued(p, n)[i].h]]

\* Forget the data of n, without confirmation; msg_in_queue keeps its own.
cleanup_ncci_data(p, n) ==
    [p EXCEPT !.free = @ \cup (BufsOf(p.dbuf[n]) \ {p.sent}),
              !.dbuf[n] = << >>, !.acks[n] = << >>,
              !.waiting[n] = [i \in 1..Len(Queued(p, n)) |-> Queued(p, n)[i].h]]

\* Mutant: data with a delivery confirmation is confirmed here, too.
DataRcConfirmsAll(p, n, b) ==
    Then(IF b = p.sent THEN p ELSE [p EXCEPT !.free = @ \cup {b}],
         LAMBDA q : IF q.dbuf[n] # << >> /\ Head(q.dbuf[n]).buf = b
                    THEN [Conf(q, n, Head(q.dbuf[n]).h) EXCEPT !.dbuf[n] = Tail(@)]
                    ELSE q)

\* The card has taken the buffer b of n.
data_rc(p, n, b) ==
    Then(IF b = p.sent THEN p ELSE [p EXCEPT !.free = @ \cup {b}],
         LAMBDA q :
             LET head == Head(q.dbuf[n])
             IN  IF q.dbuf[n] # << >> /\ head.buf = b
                 THEN [(IF head.ack THEN q ELSE Conf(q, n, head.h))
                          EXCEPT !.dbuf[n] = Tail(@)]
                 ELSE q)

\* The other end has the oldest data that asked for it.
data_ack(p, n) ==
    IF p.acks[n] # << >>
    THEN [Conf(p, n, Head(p.acks[n])) EXCEPT !.acks[n] = Tail(@)]
    ELSE p

-----------------------------------------------------------------------------
(* Requests of the network layer entity *)

\* DIRequest: the return code that ends flow control and that of the request
\* are two, of which one is left out.
request(p, req, ch) ==
    [p EXCEPT !.nl_req = req, !.reqCh = ch, !.out = req,
              !.twice = @ \/ p.out # "NONE",
              !.fcSkip[ch] = @ \/ p.fcId[ch]]

nl_req_ncci(p, req, n) ==
    [p EXCEPT !.req_in = TRUE, !.reqs = Append(@, [req |-> req, ch |-> n])]

send_req(p) ==
    IF p.reqs = << >> \/ p.nl_req # "NONE" THEN p
    ELSE request([p EXCEPT !.reqs = Tail(@)], Head(p.reqs).req, Head(p.reqs).ch)

\* The k-th NCCI of the ring behind the one served last.
InRing(p, k) == ((p.ring + k - 1) % MaxNcci) + 1

Sends(p, n) ==
    p.dbuf[n] # << >> /\ (p.state[n] = "CONNECTED" \/ p.send_disc = n)

DiscDue(p, n) ==
    p.dbuf[n] = << >> /\ p.send_disc = n /\ p.command = "NONE"

\* One turn of the loop of send_data.  NCCIs that are not in use are not in
\* the ring.
Serve(p, n) ==
    IF p.nl_req # "NONE" \/ p.state[n] = "IDLE" THEN p
    ELSE LET q == [p EXCEPT !.ring = n]
         IN  IF p.fc[n] THEN q
             ELSE IF Sends(q, n)
             THEN [request(q, "DATA", n) EXCEPT !.sent = Head(q.dbuf[n]).buf]
             ELSE IF q.dbuf[n] # << >> THEN cleanup_ncci_data(q, n)
             ELSE IF DiscDue(q, n)
             THEN [request(q, "DISC", n) EXCEPT !.command = "DISC", !.send_disc = 0]
             ELSE q

\* Mutant: only the next NCCI of the ring is looked at.
SendDataNext(p) == Serve(p, InRing(p, 1))

send_data(p) ==
    FoldLeft(LAMBDA q, n : Then(q, LAMBDA r : Serve(r, n)), p,
             [k \in 1..MaxNcci |-> InRing(p, k)])

-----------------------------------------------------------------------------
(* Messages of the application *)

Busy(p) == p.req_in \/ p.reset \/ p.queue # << >>

\* Mutant: delivery confirmations have no limit of their own.
TakesAcks(p, n) == Len(p.dbuf[n]) + Len(Queued(p, n)) < MaxData

\* api_put takes data for n.
Takes(p, n) ==
    /\ Len(p.dbuf[n]) + Len(Queued(p, n)) < MaxData
    /\ Len(p.acks[n]) + Len(SelectSeq(Queued(p, n), LAMBDA m : m.ack)) < MaxAck

data_b3_req(p, m) ==
    LET n == m.ncci
        entry == [buf |-> m.buf, ack |-> m.ack, h |-> m.h]
    IN  IF p.state[n] = "CONNECTED"
        THEN Then([p EXCEPT !.free = @ \ {m.buf}, !.dbuf[n] = Append(@, entry),
                            !.acks[n] = IF m.ack THEN Append(@, m.h) ELSE @],
                  send_data)
        ELSE [Conf(p, n, m.h) EXCEPT !.free = @ \cup {m.buf}]

\* Mutant: N_DISC waits for the data of any connection.
DiscBehindData(p, n) ==
    LET q == [p EXCEPT !.state[n] = "OUTG_DIS_PENDING"]
    IN  IF p.state[n] # "CONNECTED" THEN DiscConf(p, n, n)
        ELSE IF p.dbuf[n] # << >> THEN [q EXCEPT !.send_disc = n, !.command = "NONE"]
        ELSE Then(nl_req_ncci(q, "DISC", n), send_req)

\* Data of a transparent connection is sent before it ends, others' is not.
disconnect_b3_req(p, n) ==
    LET q == [p EXCEPT !.state[n] = "OUTG_DIS_PENDING"]
    IN  IF p.state[n] # "CONNECTED" THEN DiscConf(p, n, n)
        ELSE IF Transparent /\ p.dbuf[n] # << >>
        THEN [q EXCEPT !.send_disc = n, !.command = "NONE"]
        ELSE Then(nl_req_ncci(cleanup_ncci_data(q, n), "DISC", n), send_req)

ConfirmNext(p, n) == data_rc(p, n, Head(p.dbuf[n]).buf)

\* All data is confirmed, sent or not, and N_RESET follows.
reset_b3_req(p, n) ==
    LET confirmed == FoldLeft(LAMBDA q, i : Then(q, LAMBDA x : ConfirmNext(x, n)),
                              p, p.dbuf[n])
        acked == FoldLeft(LAMBDA q, i : Then(q, LAMBDA x : data_ack(x, n)),
                          confirmed, p.acks[n])
    IN  [Then(nl_req_ncci(acked, "RESET", n), send_req)
            EXCEPT !.command = "NONE", !.reset = TRUE]

\* Of a PLCI without that NCCI: the message is refused by its confirmation.
Refuse(p, m) ==
    CASE m.cmd = "DATA" -> [Conf(p, m.ncci, m.h) EXCEPT !.free = @ \cup {m.buf}]
      [] m.cmd = "DISC" -> DiscConf(p, m.ncci, m.ncci)
      [] OTHER -> p

Handle(p, m) ==
    CASE m.cmd = "DATA" -> data_b3_req(p, m)
      [] m.cmd = "DISC" -> disconnect_b3_req(p, m.ncci)
      [] m.cmd = "RESET" /\ p.state[m.ncci] = "CONNECTED" -> reset_b3_req(p, m.ncci)
      [] m.cmd = "ACK" -> send_req(nl_req_ncci(p, "ACK", m.ncci))
      [] OTHER -> p                         \* no request to the card

\* Mutant: the buffer of data that is refused late is not given back.
DispatchLeaks(p, m) ==
    IF p.state[m.ncci] = "IDLE" THEN Conf(p, m.ncci, m.h)
    ELSE Then(Handle([p EXCEPT !.command = m.cmd,
                               !.number = IF m.cmd = "DISC" THEN m.ncci ELSE 0], m),
              LAMBDA q : IF q.req_in THEN q ELSE [q EXCEPT !.command = "NONE"])

\* The rest of api_put, for a message that is not queued.
Dispatch(p, m) ==
    IF p.state[m.ncci] = "IDLE" THEN Refuse(p, m)
    ELSE Then(Handle([p EXCEPT !.command = m.cmd,
                               !.number = IF m.cmd = "DISC" THEN m.ncci ELSE 0], m),
              LAMBDA q : IF q.req_in THEN q ELSE [q EXCEPT !.command = "NONE"])

Put(p, m) ==
    IF Busy(p) THEN [p EXCEPT !.queue = Append(@, m)] ELSE Dispatch(p, m)

HasRoom(p) == Busy(p) => Len(p.queue) < MaxQueue

-----------------------------------------------------------------------------
(* The callback of the card *)

TakeNext(p) ==
    IF p.req_in \/ p.reset \/ p.queue = << >> THEN p
    ELSE Dispatch([p EXCEPT !.queue = Tail(@)], Head(p.queue))

Drain(p) ==
    FoldLeft(LAMBDA q, m : Then(q, TakeNext), p, p.queue)

\* The end of every callback: queued messages, then data, then requests.
Suffix(p) ==
    Then(Then(Drain(p), LAMBDA q : IF q.req_in \/ q.reset THEN q ELSE send_data(q)),
         send_req)

\* The last request of a message is answered on the channel ch.
control_rc(p, ch) ==
    LET q == [p EXCEPT !.req_in = FALSE]
    IN  IF p.reqs # << >> THEN p
        ELSE IF q.command = "DISC"
        THEN [DiscConf(q, ch, q.number) EXCEPT !.command = "NONE"]
        ELSE [q EXCEPT !.command = "NONE"]

\* The request is done, unless nl_req says that it is another one.
Answered(p, ch) ==
    IF p.nl_req = "NONE" /\ p.sent # 0
    THEN Then(Then(data_rc([p EXCEPT !.sent = 0], ch, p.sent),
                   LAMBDA q : IF q.reset THEN control_rc(q, ch) ELSE q), Suffix)
    ELSE Then(control_rc(p, ch), Suffix)

\* A return code: OK_FC takes the data and stops the channel; later OK ends
\* that, and counts for the request only if it is on that channel, of two
\* return codes the second one.
Rc(p, ch, rc) ==
    IF rc = "OK_FC"
    THEN Answered([p EXCEPT !.fcId[ch] = TRUE, !.fcSkip[ch] = FALSE,
                            !.fc[ch] = TRUE, !.nl_req = "NONE"], ch)
    ELSE IF p.fcId[ch] /\ p.fcSkip[ch] THEN [p EXCEPT !.fcId[ch] = FALSE]
    ELSE Answered([p EXCEPT !.fcId[ch] = FALSE, !.fc[ch] = FALSE,
                            !.nl_req = IF p.fc[ch] /\ ch # p.reqCh THEN @ ELSE "NONE"], ch)

\* N_DISC or N_DISC_ACK: ncci_remove, and the end of a reset.
Disconnected(p, n) ==
    LET q == [cleanup_ncci_data(p, n) EXCEPT !.state[n] = "IDLE", !.reset = FALSE]
    IN  Then(IF p.send_disc = n
             THEN [DiscConf(q, n, p.number) EXCEPT !.send_disc = 0] ELSE q, Suffix)

-----------------------------------------------------------------------------
(* Steps *)

NewHandle(p, n) == CHOOSE h \in Handles : h \notin ToSet(p.waiting[n])

AppData(n, b, ack) ==
    LET m == [cmd |-> "DATA", ncci |-> n, buf |-> b, ack |-> ack,
              h |-> NewHandle(plci, n)]
        p == [plci EXCEPT !.waiting[n] = Append(@, m.h)]
    IN  /\ plci.state[n] # "IDLE" /\ b \in plci.free
        /\ HasRoom(plci) /\ Takes(plci, n)
        /\ plci' = IF Busy(plci) THEN Put([p EXCEPT !.free = @ \ {b}], m) ELSE Put(p, m)
        /\ UNCHANGED <<fcOwed, ackOwed, discOwed>>

AppDisc(n) ==
    /\ plci.state[n] # "IDLE" /\ n \notin plci.asked /\ HasRoom(plci)
    /\ plci' = Put([plci EXCEPT !.asked = @ \cup {n}], [cmd |-> "DISC", ncci |-> n])
    /\ UNCHANGED <<fcOwed, ackOwed, discOwed>>

\* RESET_B3_REQ, DATA_B3_RESP with N_DATA_ACK, and messages that ask nothing
\* of the card (DATA_B3_RESP without).
AppOther(n, cmd) ==
    /\ plci.state[n] # "IDLE" /\ ~Busy(plci)
    /\ cmd = "RESET" => Transparent /\ NReset
    /\ plci' = Put(plci, [cmd |-> cmd, ncci |-> n])
    /\ UNCHANGED <<fcOwed, ackOwed, discOwed>>

\* A connection is there; its channel has nothing left of the last one.
Connect(n) ==
    /\ plci.state[n] = "IDLE" /\ ~Busy(plci) /\ ~fcOwed[n]
    /\ plci.out = "NONE" \/ plci.reqCh # n
    /\ plci' = [plci EXCEPT !.state[n] = "CONNECTED", !.command = "NONE",
                            !.number = 0, !.asked = @ \ {n}]
    /\ discOwed' = [discOwed EXCEPT ![n] = FALSE]
    /\ UNCHANGED <<fcOwed, ackOwed>>

\* The card returns rc for the request that it has.
CardRc(rc) ==
    LET ch == plci.reqCh
        head == Head(plci.dbuf[ch])
        acks == plci.out = "DATA" /\ plci.dbuf[ch] # << >>
                /\ head.buf = plci.sent /\ head.ack
    IN  /\ plci.out # "NONE"
        /\ rc = "OK_FC" => plci.out = "DATA" /\ FlowControl /\ ~fcOwed[ch]
        /\ plci' = Rc([plci EXCEPT !.out = "NONE"], ch, rc)
        /\ fcOwed' = [fcOwed EXCEPT ![ch] = @ \/ rc = "OK_FC"]
        /\ ackOwed' = [ackOwed EXCEPT ![ch] = IF acks THEN @ + 1
                                  ELSE IF plci.out = "RESET" THEN 0 ELSE @]
        /\ discOwed' = [discOwed EXCEPT ![ch] =
                            @ \/ (plci.out = "DISC" /\ plci.state[ch] # "IDLE")]

CardEndsFc(n) ==
    /\ fcOwed[n]
    /\ fcOwed' = [fcOwed EXCEPT ![n] = FALSE]
    /\ plci' = Rc(plci, n, "OK")
    /\ UNCHANGED <<ackOwed, discOwed>>

CardAcks(n) ==
    /\ ackOwed[n] > 0
    /\ ackOwed' = [ackOwed EXCEPT ![n] = @ - 1]
    /\ plci' = Then(data_ack(plci, n), Suffix)
    /\ UNCHANGED <<fcOwed, discOwed>>

\* N_RESET_ACK, after the return code of N_RESET.
CardResets ==
    /\ plci.reset /\ plci.out # "RESET"
    /\ \A i \in DOMAIN plci.reqs : plci.reqs[i].req # "RESET"
    /\ plci' = Then([plci EXCEPT !.reset = FALSE], Suffix)
    /\ UNCHANGED <<fcOwed, ackOwed, discOwed>>

CardDisc(n) ==
    /\ plci.state[n] # "IDLE"
    /\ plci' = Disconnected(plci, n)
    /\ ackOwed' = [ackOwed EXCEPT ![n] = 0]
    /\ discOwed' = [discOwed EXCEPT ![n] = FALSE]
    /\ UNCHANGED fcOwed

CardDiscAck(n) == discOwed[n] /\ CardDisc(n)

Next ==
    \/ CardRc("OK") \/ CardRc("OK_FC") \/ CardResets
    \/ \E n \in Nccis :
          \/ \E b \in Bufs, ack \in AckFlags : AppData(n, b, ack)
          \/ \E cmd \in {"RESET", "ACK", "RESP"} : AppOther(n, cmd)
          \/ AppDisc(n) \/ Connect(n)
          \/ CardEndsFc(n) \/ CardAcks(n) \/ CardDisc(n)

Spec == Init /\ [][Next]_vars

\* The card answers, ends flow control, acknowledges what arrived and answers
\* the end of a connection; the application owes nothing.
Fairness ==
    /\ WF_vars(CardRc("OK") \/ CardRc("OK_FC")) /\ WF_vars(CardResets)
    /\ \A n \in Nccis :
          WF_vars(CardEndsFc(n)) /\ WF_vars(CardAcks(n)) /\ WF_vars(CardDiscAck(n))

FairSpec == Spec /\ Fairness

-----------------------------------------------------------------------------
(* Properties *)

TypeOK ==
    /\ plci.state \in [Nccis -> {"IDLE", "CONNECTED", "OUTG_DIS_PENDING"}]
    /\ plci.free \subseteq Bufs /\ plci.sent \in Bufs \cup {0}
    /\ plci.nl_req \in {"NONE", "DATA", "DISC", "RESET", "ACK"}
    /\ plci.send_disc \in Nccis \cup {0}
    /\ fcOwed \in [Nccis -> BOOLEAN] /\ ackOwed \in [Nccis -> Nat]

\* A transmit buffer is free, or one message has it, or only the card still
\* reads it: none is lost or used twice, over queueing, refusal, reset and the
\* end of connections (message.c:1198-1222, 4229-4232, 6704, 5837).
BuffersOwned ==
    LET held == [n \in Nccis |-> BufsOf(plci.dbuf[n])]
        queued == BufsOf(SelectSeq(plci.queue, LAMBDA m : m.cmd = "DATA"))
        all == UNION Range(held) \cup queued
    IN  /\ plci.free = Bufs \ (all \cup {plci.sent})
        /\ Cardinality(all) =
              Len(SelectSeq(plci.queue, LAMBDA m : m.cmd = "DATA"))
                + FoldSet(LAMBDA n, sum : sum + Len(plci.dbuf[n]), 0, Nccis)

\* While the card has a request with data, the buffer is known to be in use;
\* and nothing is sent while a request is out (message.c:12365, 5673-5704).
CardReadsOwn ==
    /\ plci.out = "DATA" => plci.sent # 0 /\ plci.sent \notin plci.free
    /\ ~plci.twice

\* The rings DBuffer and DataAck of an NCCI are not overrun, with what waits
\* in msg_in_queue let in (message.c:643-676, 4227, 4246).
RingsKept ==
    \A n \in Nccis : Len(plci.dbuf[n]) <= MaxData /\ Len(plci.acks[n]) <= MaxAck

\* What the application waits for is what the driver holds for it, in the
\* order of its requests: sent and to be acknowledged, to be sent, queued.
\* So each DATA_B3_REQ is confirmed once (message.c:6714-6722, 6745-6751).
WaitingHeld ==
    \A n \in Nccis :
        LET toSend == [i \in DOMAIN plci.dbuf[n] |-> plci.dbuf[n][i].h]
            sent == SelectSeq(plci.acks[n], LAMBDA h : h \notin ToSet(toSend))
            q == Queued(plci, n)
        IN  plci.waiting[n] = sent \o toSend \o [i \in DOMAIN q |-> q[i].h]

\* Data is confirmed, or its connection ends.
DataAnswered ==
    \A n \in Nccis, h \in Handles :
        h \in ToSet(plci.waiting[n]) ~> h \notin ToSet(plci.waiting[n])

\* No transmit buffer stays in use for ever.
BuffersReturn == \A b \in Bufs : b \notin plci.free ~> b \in plci.free

\* A connection that the application wants to end does end: N_DISC is sent,
\* behind the data that is left, whatever else is under way
\* (message.c:4088-4098, 12430-12448).
EndReached ==
    \A n \in Nccis : plci.state[n] = "OUTG_DIS_PENDING" ~> plci.state[n] = "IDLE"

\* DISCONNECT_B3_CONF is for the NCCI and has the number of a
\* DISCONNECT_B3_REQ that is not confirmed yet (message.c:6086, 12447).
ConfRight == ~plci.wrong
=============================================================================
