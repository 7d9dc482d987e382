------------------------------ MODULE CapiFlow ------------------------------
(***************************************************************************)
(* The way of data from the card to an application in kernel/message.c:    *)
(* the pool of receive buffers, flow control with N_XON by channel,        *)
(* DATA_B3_IND and DATA_B3_RESP, and connections that begin and end        *)
(* meanwhile.  One PLCI with the connections Nccis of one application; an  *)
(* NCCI has the number of its channel.  As in CapiData, all runs under     *)
(* api_lock, the driver is a record, and a message or a callback is a      *)
(* step.  The application answers what it gets in the order it gets it.    *)
(***************************************************************************)
EXTENDS Integers, FiniteSets, SequencesExt, Functions, TLC

CONSTANTS
    Nccis,          \* connections, by their channel
    MaxNCCI,        \* what the application has registered for: connections
    MaxNCCIData,    \* and unanswered data of each
    DiscardAt,      \* refusals in a row until data is discarded
    XonFeature,     \* MANUFACTURER_FEATURE_XONOFF_FLOW_CONTROL
    AckFlags,       \* whether data wants N_DATA_ACK: a subset of BOOLEAN
    Outgoing,       \* the application makes connections, too
    MaxCall,        \* bound: messages to the application when it is called
    MaxApp          \* bound: messages to the application when data comes

\* MaxBuffer
Bufs == 1..(MaxNCCI * MaxNCCIData)

ConstantsOK ==
    /\ {MaxNCCI, MaxNCCIData, DiscardAt, MaxCall, MaxApp} \subseteq Nat \ {0}
    /\ IsFiniteSet(Nccis) /\ 0 \notin Nccis
    /\ {XonFeature, Outgoing} \subseteq BOOLEAN /\ AckFlags \subseteq BOOLEAN

VARIABLES
    plci,       \* the driver
    app,        \* messages the application has not answered yet
    held        \* the card: channels with data that was refused

vars == <<plci, app, held>>

\* late: the buffer was taken when the application was not done with it, for
\* the properties only.
None == [n |-> 0, i |-> 0, late |-> FALSE]

\* A message other than DATA_B3_IND.
Message(m, n) == [msg |-> m, n |-> n, i |-> 0, late |-> FALSE]

Init ==
    /\ plci = [call   |-> "PENDING",                    \* State
               state  |-> [n \in Nccis |-> "IDLE"],     \* ncci_state
               dis    |-> << >>,                        \* inc_dis_ncci_table
               data   |-> [i \in Bufs |-> 0],           \* DataNCCI
               given  |-> [i \in Bufs |-> FALSE],       \* DataFlags & 0x10
               ack    |-> [i \in Bufs |-> FALSE],       \* DataFlags & 0x4
               copy   |-> None,                         \* RNum, while it is filled
               flow   |-> [n \in Nccis |-> {}],         \* ch_flow_control
               ring   |-> << >>,                        \* ch_flow_ring_list, the next one first
               nl_req |-> "NONE", reqCh |-> 0,
               req_in |-> FALSE, reqs |-> << >>,
               timer  |-> 0]                            \* NCCIDataFlowCtrlTimer
    /\ app = << >>
    /\ held = [n \in Nccis |-> FALSE]

-----------------------------------------------------------------------------
(* Receive buffers *)

\* Mutant: the buffers of all connections count.
CountAll(p, n) == Cardinality({i \in Bufs : p.data[i] # 0 /\ n \in Nccis})

Count(p, n) == Cardinality({i \in Bufs : p.data[i] = n})

FreeBufs(p) == {i \in Bufs : p.data[i] = 0}

\* The flags of a free buffer have no meaning.
Release(p, bufs) ==
    [p EXCEPT !.data = [i \in Bufs |-> IF i \in bufs THEN 0 ELSE @[i]],
              !.given = [i \in Bufs |-> @[i] /\ i \notin bufs],
              !.ack = [i \in Bufs |-> @[i] /\ i \notin bufs]]

\* Mutant: the buffers of all connections are freed.
FreeAll(p, n) == Release(p, {i \in Bufs : p.data[i] # 0 /\ n \in Nccis})

ncci_free_receive_buffers(p, n) == Release(p, {i \in Bufs : p.data[i] = n})

-----------------------------------------------------------------------------
(* Flow control *)

channel_x_off(p, n, flags) ==
    IF p.flow[n] # {} THEN p
    ELSE [p EXCEPT !.flow[n] = {"XOFF"} \cup flags,
                   !.ring = IF n \in ToSet(@) THEN @ ELSE <<n>> \o @]

channel_request_xon(p, n) ==
    IF "XOFF" \in p.flow[n] THEN [p EXCEPT !.flow[n] = {"REQ"}] ELSE p

\* Channels of the ring that want N_XON.
Pending(p) == {k \in DOMAIN p.ring : XonFeature /\ "REQ" \in p.flow[p.ring[k]]}

\* N_XON for the next channel, which becomes the last of the ring.
channel_xmit_xon(p) ==
    IF p.nl_req # "NONE" \/ Pending(p) = {} THEN p
    ELSE LET k == Min(Pending(p))
             n == p.ring[k]
         IN  [p EXCEPT !.flow[n] = {"SENT"}, !.nl_req = "XON", !.reqCh = n,
                       !.ring = SubSeq(@, k + 1, Len(@)) \o SubSeq(@, 1, k)]

channel_xmit_extended_xon(p) ==
    LET wanted == {n \in ToSet(p.ring) : {"XOFF", "CONN"} \subseteq p.flow[n]}
    IN  IF wanted = {} THEN p
        ELSE channel_xmit_xon([p EXCEPT !.flow = [n \in Nccis |->
                                   IF n \in wanted THEN {"REQ"} ELSE p.flow[n]]])

\* Mutant: not when all buffers of the connection are free.
CanXonSome(p, n) == Count(p, n) \in 1..2 /\ FreeBufs(p) # {}

channel_can_xon(p, n) == Count(p, n) <= 2 /\ FreeBufs(p) # {}

-----------------------------------------------------------------------------
(* Requests *)

nl_req_ncci(p, req, n) ==
    [p EXCEPT !.req_in = TRUE, !.reqs = Append(@, [req |-> req, ch |-> n])]

send_req(p0) ==
    LET p == channel_xmit_xon(p0)
    IN  IF p.reqs = << >> \/ p.nl_req # "NONE" THEN p
        ELSE [p EXCEPT !.nl_req = Head(p.reqs).req, !.reqCh = Head(p.reqs).ch,
                       !.reqs = Tail(@)]

-----------------------------------------------------------------------------
(* Answers of the application *)

data_b3_res(p, n, i) ==
    IF p.data[i] = n /\ p.given[i]
    THEN LET q == Release(p, {i})
             r == channel_xmit_xon(IF channel_can_xon(q, n)
                                   THEN channel_request_xon(q, n) ELSE q)
         IN  IF p.ack[i] THEN nl_req_ncci(r, "ACK", n) ELSE r
    ELSE p

disconnect_b3_res(p, n) ==
    IF n \notin ToSet(p.dis) THEN p
    ELSE ncci_free_receive_buffers([p EXCEPT !.dis = RemoveFirst(@, n)], n)

connect_b3_res(p, n) ==
    IF p.state[n] # "INC_CON_PENDING" THEN p
    ELSE nl_req_ncci([p EXCEPT !.state[n] = "INC_ACT_PENDING"], "CONNECT_ACK", n)

\* CONNECT_B3_ACTIVE_IND follows at once.
Active(p, m) ==
    IF m.msg = "CONN" /\ p.state[m.n] = "INC_CON_PENDING"
    THEN <<Message("ACTIVE", m.n)>> ELSE << >>

connect_b3_a_res(p, n) ==
    IF p.state[n] # "INC_ACT_PENDING" THEN p
    ELSE channel_xmit_xon(channel_request_xon([p EXCEPT !.state[n] = "CONNECTED"], n))

\* DISCONNECT_B3_REQ, or CONNECT_B3_RESP with a reason to refuse.
disconnect_b3_req(p, n) ==
    IF p.state[n] \in {"IDLE", "OUTG_DIS_PENDING"} THEN p
    ELSE LET q == [p EXCEPT !.state[n] = "OUTG_DIS_PENDING"]
         IN  nl_req_ncci(channel_xmit_xon(channel_request_xon(q, n)), "DISC", n)

\* The end of a message: the function that has a request for the card returns 1.
Put(p) ==
    \E q \in {channel_xmit_extended_xon(p)} :
        plci' = IF q.reqs # plci.reqs THEN send_req(q) ELSE q

-----------------------------------------------------------------------------
(* Indications *)

\* A callback with an indication; the request that waits is sent at its end.
Callback(p) == \E q \in {p} : plci' = send_req(q)

Begin == channel_xmit_xon(plci)

\* An indication is taken (or discarded): the channel is not stopped.
Taken(p, n) == [p EXCEPT !.flow[n] = {}]

Full(p, n) == Count(p, n) >= MaxNCCIData \/ FreeBufs(p) = {}

-----------------------------------------------------------------------------
(* Steps: the application *)

Answer(m) ==
    CASE m.msg = "DATA"   -> data_b3_res(plci, m.n, m.i)
      [] m.msg = "DISC"   -> disconnect_b3_res(plci, m.n)
      [] m.msg = "CONN"   -> connect_b3_res(plci, m.n)
      [] m.msg = "ACTIVE" -> connect_b3_a_res(plci, m.n)
      [] m.msg = "CALL"   -> [plci EXCEPT !.call = "CONNECTED"]

\* A message of a connection that ended, which has no PLCI.
NoPlci(m) == m.msg \in {"DATA", "CONN", "ACTIVE"} /\ plci.state[m.n] = "IDLE"

\* While a request of a message waits for its return code a message waits in
\* msg_in_queue, unless it has no PLCI or is DATA_B3_RESP without N_DATA_ACK.
Waits(m) ==
    /\ plci.req_in /\ ~NoPlci(m)
    /\ m.msg = "DATA" => plci.data[m.i] = m.n /\ plci.given[m.i] /\ plci.ack[m.i]

AnswerAt(k) ==
    /\ ~Waits(app[k])
    /\ IF NoPlci(app[k]) THEN UNCHANGED plci ELSE Put(Answer(app[k]))
    /\ app' = RemoveAt(app, k) \o Active(plci, app[k])
    /\ UNCHANGED held

AppAnswers == app # << >> /\ AnswerAt(1)

\* The answers before it wait in msg_in_queue.
AppOvertakes ==
    \E k \in DOMAIN app : (\A j \in 1..(k - 1) : Waits(app[j])) /\ k > 1 /\ AnswerAt(k)

\* CONNECT_B3_REQ
AppConnects ==
    /\ Outgoing /\ ~plci.req_in
    /\ plci.call = "CONNECTED" /\ Len(app) < MaxCall
    /\ Put(nl_req_ncci(plci, "CONNECT", 0))
    /\ UNCHANGED <<app, held>>

AppDisc(n) ==
    /\ ~plci.req_in
    /\ plci.state[n] \in 
           {"INC_CON_PENDING", "OUTG_CON_PENDING", "INC_ACT_PENDING", "CONNECTED"}
    /\ Put(disconnect_b3_req(plci, n))
    /\ UNCHANGED <<app, held>>

\* DATA_B3_REQ (CapiData has its way).
AppData ==
    /\ \E n \in Nccis : plci.state[n] = "CONNECTED"
    /\ plci.nl_req = "NONE"
    /\ Put([plci EXCEPT !.nl_req = "DATA", !.reqCh = 0])
    /\ UNCHANGED <<app, held>>

-----------------------------------------------------------------------------
(* Steps: the card *)

\* CALL_CON
CallConnected ==
    /\ plci.call = "PENDING"
    /\ Callback([plci EXCEPT !.call = "INC_ACT_PENDING"])
    /\ app' = Append(app, Message("CALL", 0))
    /\ UNCHANGED held

Offers(n) == ~held[n] \/ ~XonFeature

\* The card takes a channel for which it has no request; the driver may not be
\* done with the last connection.
Usable(n) == plci.state[n] = "IDLE" /\ plci.reqCh # n

\* N_CONNECT: refused until the call is connected.
Connect(n) ==
    /\ Usable(n) /\ Offers(n) /\ Len(app) < MaxCall
    /\ IF plci.call = "PENDING"
       THEN /\ Callback(channel_x_off(Begin, n, {"CONN"}))
            /\ held' = [held EXCEPT ![n] = TRUE]
            /\ UNCHANGED app
       ELSE /\ Callback(Taken([Begin EXCEPT !.state[n] = "INC_CON_PENDING"], n))
            /\ held' = [held EXCEPT ![n] = FALSE]
            /\ app' = Append(app, Message("CONN", n))

\* The application has not answered the end of the last connection, or has an
\* answer for this buffer left of it.
Late(n, i) ==
    \/ n \in ToSet(plci.dis)
    \/ \E k \in DOMAIN app : app[k].msg = "DATA" /\ app[k].n = n /\ app[k].i = i

Offer(n, ack) ==
    /\ plci.state[n] \notin {"IDLE", "OUTG_CON_PENDING"} /\ Offers(n) /\ plci.copy = None
    /\ UNCHANGED app
    /\ LET p == Begin
           i == Min(FreeBufs(p))
           t == IF p.timer < DiscardAt THEN p.timer + 1 ELSE DiscardAt
       IN  CASE p.state[n] = "INC_CON_PENDING" ->
                  /\ Callback(channel_x_off(p, n, {}))
                  /\ held' = [held EXCEPT ![n] = TRUE]
             [] p.state[n] # "INC_CON_PENDING" /\ Full(p, n) /\ t = DiscardAt ->
                  /\ Callback(Taken([p EXCEPT !.timer = t], n))
                  /\ held' = [held EXCEPT ![n] = FALSE]
             [] p.state[n] # "INC_CON_PENDING" /\ Full(p, n) /\ t # DiscardAt ->
                  /\ Callback(channel_x_off([p EXCEPT !.timer = t], n, {}))
                  /\ held' = [held EXCEPT ![n] = TRUE]
             [] OTHER ->
                  /\ Len(app) < MaxApp
                  /\ Callback(Taken([p EXCEPT !.timer = 0, !.data[i] = n,
                                              !.given[i] = FALSE, !.ack[i] = ack,
                                              !.copy = [n |-> n, i |-> i,
                                                        late |-> Late(n, i)]], n))
                  /\ held' = [held EXCEPT ![n] = FALSE]

\* All data of the indication is there.
Complete ==
    /\ plci.copy # None
    /\ Callback([Begin EXCEPT !.given[plci.copy.i] = TRUE, !.copy = None])
    /\ app' = Append(app, [msg |-> "DATA"] @@ plci.copy)
    /\ UNCHANGED held

\* N_CONNECT_ACK
ConnectAck(n) ==
    /\ plci.state[n] = "OUTG_CON_PENDING"
    /\ Callback([Begin EXCEPT !.state[n] = "INC_ACT_PENDING"])
    /\ app' = Append(app, Message("ACTIVE", n))
    /\ UNCHANGED held

\* Mutant: what is known of the flow control stays.
DisconnectedFlow(n) ==
    [Begin EXCEPT !.state[n] = "IDLE", !.dis = Append(@, n)]

\* ncci_remove, and the flow control of the channel ends.
Disconnected(n) ==
    [Begin EXCEPT !.state[n] = "IDLE", !.dis = Append(@, n), !.flow[n] = {}]

\* N_DISC or N_DISC_ACK
CardDisc(n) ==
    /\ plci.state[n] # "IDLE" /\ plci.copy.n # n
    /\ Callback(Disconnected(n))
    /\ app' = Append(app, Message("DISC", n))
    /\ held' = [held EXCEPT ![n] = FALSE]

\* N_DISC_ACK is the answer to N_DISC.
DiscAck(n) ==
    /\ plci.state[n] = "OUTG_DIS_PENDING" /\ plci.reqCh # n
    /\ \A k \in DOMAIN plci.reqs : plci.reqs[k].ch # n
    /\ CardDisc(n)

\* A request of a message is done when it was the last one.
Done(p, req) == [p EXCEPT !.req_in = @ /\ (req = "DATA" \/ p.reqs # << >>)]

\* The return code of a request.  After that of N_XON the card goes on, with
\* that of N_CONNECT it may have a channel.
CardRc ==
    /\ plci.nl_req # "NONE"
    /\ UNCHANGED app
    /\ LET n == plci.reqCh
           p == [plci EXCEPT !.nl_req = "NONE", !.reqCh = 0]
       IN  \/ /\ plci.nl_req = "XON"
              /\ Callback([p EXCEPT !.flow[n] = @ \ {"SENT"}])
              /\ held' = [held EXCEPT ![n] = FALSE]
           \/ /\ plci.nl_req # "XON"
              /\ Callback(channel_xmit_xon(Done(p, plci.nl_req)))
              /\ UNCHANGED held
           \/ /\ plci.nl_req = "CONNECT"
              /\ \E c \in Nccis :
                    /\ Usable(c) /\ ~held[c]
                    /\ Callback(channel_xmit_xon(
                          [Done(p, "CONNECT") EXCEPT !.state[c] = "OUTG_CON_PENDING"]))
              /\ UNCHANGED held

Next ==
    \/ AppAnswers \/ AppOvertakes \/ AppConnects \/ AppData \/ CallConnected \/ Complete \/ CardRc
    \/ \E n \in Nccis :
          \/ AppDisc(n) \/ Connect(n) \/ ConnectAck(n) \/ CardDisc(n)
          \/ \E ack \in AckFlags : Offer(n, ack)

Spec == Init /\ [][Next]_vars

\* The application answers, strongly fair as a message that meets another one
\* waits in msg_in_queue and is the next; the card answers and has the data of
\* an indication, and confirms connections and their ends.
Fairness ==
    /\ SF_vars(AppAnswers) /\ WF_vars(CardRc) /\ WF_vars(Complete)
    /\ WF_vars(CallConnected)
    /\ \A n \in Nccis : WF_vars(ConnectAck(n)) /\ WF_vars(DiscAck(n))

FairSpec == Spec /\ Fairness
-----------------------------------------------------------------------------
(* Properties *)

TypeOK ==
    /\ plci.data \in [Bufs -> Nccis \cup {0}] /\ plci.timer \in 0..DiscardAt
    /\ \A n \in Nccis : plci.flow[n] \subseteq {"XOFF", "REQ", "SENT", "CONN"}
    /\ plci.reqCh \in Nccis \cup {0}
    /\ ToSet(plci.ring) \subseteq Nccis /\ Cardinality(ToSet(plci.ring)) = Len(plci.ring)
    /\ held \in [Nccis -> BOOLEAN]

\* The receive buffers that the connection of n fills or has filled since the
\* end of its predecessor.
Own(n) ==
    LET ends == {k \in DOMAIN app : app[k].msg = "DISC" /\ app[k].n = n}
        after == {k \in DOMAIN app : app[k].msg = "DATA" /\ app[k].n = n
                                       /\ \A e \in ends : e < k}
    IN  {app[k].i : k \in after} \cup {i \in {plci.copy.i} \ {0} : plci.copy.n = n}

\* What the application has not answered is still in its buffer, and nothing
\* else is: the buffer of DATA_B3_IND is not given away before DATA_B3_RESP or
\* DISCONNECT_B3_RESP (message.c:4291-4296, 10104, 10133), unless the NCCI was
\* used again before its last DISCONNECT_B3_RESP, which frees it (1172).
HeldKept ==
    LET given == {k \in DOMAIN app : app[k].msg = "DATA" /\ ~app[k].late}
    IN  /\ \A k \in given : plci.data[app[k].i] = app[k].n
        /\ \A k, l \in given : app[k].i = app[l].i => k = l
        /\ plci.copy # None /\ ~plci.copy.late =>
              /\ plci.data[plci.copy.i] = plci.copy.n
              /\ \A k \in given : app[k].i # plci.copy.i

\* The driver knows every channel with refused data, and no other one, so that
\* N_XON will be sent (message.c:5778-5790, 24152-24170, 24224-24246).
FlowKnown ==
    \A n \in Nccis : XonFeature => (held[n] <=> plci.flow[n] # {})

\* Data of a connection is refused only when the application has as much of
\* it as it registered for (message.c:10096-10120), its predecessor with the
\* same NCCI included until DISCONNECT_B3_RESP.
Rejects(n) ==
    /\ plci.state[n] \in {"INC_ACT_PENDING", "CONNECTED", "OUTG_DIS_PENDING"}
    /\ n \notin ToSet(plci.dis)
    /\ ~held[n] /\ held'[n]
RejectsOnlyAtLimit == \A n \in Nccis : Rejects(n) => Cardinality(Own(n)) >= MaxNCCIData
RejectsAtLimit == [][RejectsOnlyAtLimit]_vars

\* Only data of other connections fills the buffers: nothing starts the channel
\* again (message.c:4298-4301).
Starved(n) ==
    /\ plci.state[n] = "CONNECTED"
    /\ plci.copy.n = n => plci.copy.late
    /\ \A k \in DOMAIN app : app[k].msg = "DATA" /\ app[k].n = n => app[k].late

\* The card may send again on a channel whose data was refused, if there is an
\* answer of the application to wait for (message.c:4298-4301, 4033-4034,
\* 24172-24197).
Restarted == \A n \in Nccis : held[n] /\ ~Starved(n) ~> ~held[n]

\* Every connection that ended is forgotten, buffers included.
Forgotten ==
    \A n \in Nccis : n \in ToSet(plci.dis) ~> n \notin ToSet(plci.dis)
=============================================================================
