------------------------------ MODULE CapiCall ------------------------------
(***************************************************************************)
(* Calls in kernel/message.c: the PLCIs of an adapter, the entities of the *)
(* signalling and of the network layer that a PLCI has on the card, the    *)
(* listening PLCIs, calls offered to several applications and calls from   *)
(* applications, and how they end.  A message of an application and a      *)
(* callback are one step each, under api_lock; the driver is a record that *)
(* the functions of the code map to a record.                              *)
(*                                                                         *)
(* Left out: connections on the B channel (CapiData, CapiFlow), supple-    *)
(* mentary services, codecs, D channel data, SELECT_B, ALERT.              *)
(***************************************************************************)
EXTENDS Integers, FiniteSets, SequencesExt, Functions

CONSTANTS
    NumPlci,        \* a->max_plci
    Appls,          \* max_appl of them
    MaxListen,      \* a->max_listen
    AssignFails,    \* the card may be out of entities
    MaxBox          \* bound: messages to an application when a call comes

Plcis == 1..NumPlci

ConstantsOK ==
    /\ {NumPlci, MaxListen, MaxBox} \subseteq Nat \ {0}
    /\ IsFiniteSet(Appls) /\ 0 \notin Appls /\ AssignFails \in BOOLEAN

VARIABLES
    cap,        \* the driver, and what it has sent in this step
    card,       \* the card: the call of each PLCI, and whether its HANGUP is due
    box,        \* messages to the applications that want an answer
    told,       \* calls an application was told of or took, and not of their end
    asked       \* calls for which it waits for DISCONNECT_CONF

vars == <<cap, card, box, told, asked>>

\* f(s), with s computed once.
Then(s, f(_)) == CHOOSE r \in {f(t) : t \in {s}} : TRUE

\* What get_plci leaves in a PLCI.
Fresh ==
    [used |-> TRUE, State |-> "IDLE",
     sig |-> FALSE, nl |-> FALSE,           \* Sig.Id, NL.Id
     cur |-> "NONE",                        \* sig_req or nl_req
     reqs |-> << >>, req_in |-> FALSE,      \* requests in RBuffer
     sigRem |-> FALSE, nlRem |-> FALSE,     \* sig_remove_id, nl_remove_id
     nlBad |-> FALSE,                       \* nl_assign_rc
     appl |-> 0, mask |-> {},               \* c_ind_mask_table
     command |-> "NONE",
     int |-> FALSE,                         \* LISTEN_SIG_ASSIGN_PEND
     msgs |-> << >>]                        \* msg_in_queue

-----------------------------------------------------------------------------
(* Requests *)

sig_req(r, req) ==
    [r EXCEPT !.reqs = Append(@, req), !.req_in = TRUE,
              !.sigRem = IF req = "REMOVE" THEN r.sig ELSE @]

nl_req(r, req) ==
    [r EXCEPT !.reqs = Append(@, req), !.req_in = TRUE,
              !.nlRem = IF req = "NL_REMOVE" THEN r.nl ELSE @]

\* An entity without an Id gets the one of its kind, until the card assigns one.
send_req(r) ==
    IF r.cur # "NONE" \/ r.reqs = << >> THEN r
    ELSE [r EXCEPT !.cur = Head(r.reqs), !.reqs = Tail(@),
                   !.sig = @ \/ Head(r.reqs) = "ASSIGN",
                   !.nl = @ \/ Head(r.reqs) = "NL_ASSIGN"]

Hangup(r) == send_req(sig_req(r, "HANGUP"))

Sendf(s, x, msg, p) == [s EXCEPT !.out = Append(@, [x |-> x, msg |-> msg, p |-> p])]

\* To all of a set of applications.
SendAll(s, xs, msg, p) ==
    [s EXCEPT !.out = @ \o SetToSeq({[x |-> x, msg |-> msg, p |-> p] : x \in xs})]

-----------------------------------------------------------------------------
(* PLCIs *)

Listener == send_req(sig_req([Fresh EXCEPT !.State = "LISTENING", !.int = TRUE], "ASSIGN"))

\* Free PLCIs are taken until max_listen of them listen.
Listen(s) ==
    LET k == Min({Max({MaxListen - s.listen_active, 0}), Len(s.free)})
        new == ToSet(SubSeq(s.free, 1, k))
    IN  [s EXCEPT !.plci = [p \in Plcis |-> IF p \in new THEN Listener ELSE @[p]],
                  !.free = SubSeq(@, k + 1, Len(@)),
                  !.listen_active = @ + k]

listen_check(s) == Then(s, Listen)

free_plci(s, p) ==
    [s EXCEPT !.free = Append(@, p),
              !.plci[p] = [@ EXCEPT !.used = FALSE, !.State = "IDLE", !.appl = 0,
                                    !.msgs = << >>, !.command = "NONE"]]

Removable(r) == ~r.nl /\ r.mask = {} /\ ~r.sig

\* Mutant: no PLCI listens instead.
RemoveNoListen(s, p) ==
    IF ~Removable(s.plci[p]) THEN s
    ELSE IF s.plci[p].used THEN free_plci(s, p) ELSE s

plci_remove_check(s, p) ==
    Then(s, LAMBDA t :
             IF ~Removable(t.plci[p]) THEN t
             ELSE listen_check(IF t.plci[p].used THEN free_plci(t, p) ELSE t))

plci_remove_(s, p) ==
    LET r == [s.plci[p] EXCEPT !.int = FALSE]
        q == IF ~r.sigRem /\ (r.sig \/ r.reqs # << >> \/ r.cur # "NONE") THEN Hangup(r) ELSE r
    IN  IF Removable(r) THEN plci_remove_check(s, p)
        ELSE [s EXCEPT !.plci[p] =
                 [q EXCEPT !.msgs = << >>, !.appl = 0,
                           !.State = IF @ = "INC_CON_PENDING" THEN "OUTG_DIS_PENDING" ELSE @]]

plci_remove(s, p) == Then(s, LAMBDA t : plci_remove_(t, p))

-----------------------------------------------------------------------------
(* Messages of an application *)

\* Mutant: the others are not told.
AssignQuiet(s, p, x) ==
    [s EXCEPT !.plci[p].appl = x, !.plci[p].mask = @ \ {x}]

assign_incoming_call(s, p, x) ==
    SendAll([s EXCEPT !.plci[p].appl = x, !.plci[p].mask = @ \ {x}],
            s.plci[p].mask \ {x}, "DISC", p)

\* reject_call after ignore_incoming_call: the last one hangs up.
Reject(s, p, x) ==
    LET r == [s.plci[p] EXCEPT !.mask = @ \ {x}]
    IN  IF r.mask = {}
        THEN [s EXCEPT !.plci[p] = [Hangup(r) EXCEPT !.appl = x]]
        ELSE Sendf([s EXCEPT !.plci[p] = r], x, "DISC", p)

\* CONNECT_RESP that accepts; "WRONG" has a wrong B protocol.
Accept(s, p, x, v) ==
    LET t == assign_incoming_call(s, p, x)
        r == [t.plci[p] EXCEPT !.State = "INC_CON_ACCEPT"]
    IN  [t EXCEPT !.plci[p] =
            IF v = "WRONG" THEN Hangup(r)
            ELSE send_req(sig_req(nl_req(r, "NL_ASSIGN"), "CALL_RES"))]

connect_res(s, p, x, v) ==
    IF s.plci[p].State # "INC_CON_PENDING" THEN s
    ELSE IF v = "REJECT" THEN Reject(s, p, x) ELSE Accept(s, p, x, v)

disconnect_req(s, p, x) ==
    LET t == IF s.plci[p].State = "INC_CON_PENDING"
             THEN [assign_incoming_call(s, p, x) EXCEPT !.plci[p].State = "OUTG_DIS_PENDING"]
             ELSE s
        r == t.plci[p]
    IN  IF r.sig /\ r.appl # 0 /\ r.State \notin {"IDLE", "INC_DIS_PENDING"}
        THEN [t EXCEPT !.plci[p] = [Hangup(r) EXCEPT !.State = "OUTG_DIS_PENDING"]]
        ELSE Sendf(t, x, "DCONF", p)

\* Mutant: the answers of the other applications are not waited for.
DisconnectResAny(s, p, x) ==
    LET t == [s EXCEPT !.plci[p].mask = {}]
    IN  IF t.plci[p].State = "INC_DIS_PENDING"
        THEN plci_remove([t EXCEPT !.plci[p].State = "IDLE"], p)
        ELSE t

disconnect_res(s, p, x) ==
    LET t == [s EXCEPT !.plci[p].mask = @ \ {x}]
        r == t.plci[p]
    IN  CASE Removable(r) -> plci_remove_check(t, p)
          [] ~Removable(r) /\ r.State = "INC_DIS_PENDING" /\ r.mask = {} ->
                plci_remove([t EXCEPT !.plci[p].State = "IDLE"], p)
          [] OTHER -> t

Handler(s, x, m) ==
    CASE m.cmd = "CONNECT_RESP" -> connect_res(s, m.p, x, m.v)
      [] m.cmd = "DISC_REQ"     -> disconnect_req(s, m.p, x)
      [] m.cmd = "DISC_RESP"    -> disconnect_res(s, m.p, x)

Known(r, m) ==
    r.used /\ (r.appl # 0 \/ r.State = "INC_CON_PENDING" \/ m.cmd = "DISC_RESP")

\* A message for a PLCI that is not in use.
Unknown(s, x, m) == IF m.cmd = "DISC_REQ" THEN Sendf(s, x, "DCONF", m.p) ELSE s

Dispatch(s, x, m) ==
    LET t == Handler([s EXCEPT !.plci[m.p].command = m.cmd], x, m)
    IN  IF t.plci[m.p].req_in THEN t ELSE [t EXCEPT !.plci[m.p].command = "NONE"]

\* queued: the message comes from the queue of the PLCI.
api_put_reenter(s, x, m, queued) ==
    LET r == s.plci[m.p]
    IN  CASE ~Known(r, m) -> Unknown(s, x, m)
          [] Known(r, m) /\ (r.req_in \/ r.int \/ (r.msgs # << >> /\ ~queued)) ->
                [s EXCEPT !.plci[m.p].msgs = Append(@, [x |-> x, m |-> m])]
          [] OTHER -> Dispatch(s, x, m)

connect_req(s, x) ==
    LET p == Head(s.free)
        r == [Fresh EXCEPT !.appl = x, !.command = "CONNECT_REQ"]
    IN  IF s.free = << >> THEN s
        ELSE [s EXCEPT !.free = Tail(@),
                 !.plci[p] = send_req(sig_req(nl_req(sig_req(r, "ASSIGN"), "NL_ASSIGN"), "CALL_REQ"))]

-----------------------------------------------------------------------------
(* Callbacks *)

\* A message that was queued, of an application that was not released since.
TakeNext(s, p) ==
    LET r == s.plci[p]
        e == Head(r.msgs)
        t == [s EXCEPT !.plci[p].msgs = Tail(@)]
    IN  IF r.req_in \/ r.int \/ r.msgs = << >> THEN s
        ELSE IF e.x = 0 THEN t ELSE api_put_reenter(t, e.x, e.m, TRUE)

Suffix(s, p) ==
    LET n == Len(s.plci[p].msgs)
        t == FoldLeft(LAMBDA u, k : Then(u, LAMBDA v : TakeNext(v, p)), s, [k \in 1..n |-> k])
    IN  [t EXCEPT !.plci[p] = send_req(@)]

\* The end of the switch on plci->command.
CommandDone(s, p, req) ==
    LET t == [s EXCEPT !.plci[p].command = "NONE"]
    IN  IF req \in {"ASSIGN", "NL_ASSIGN"} THEN plci_remove_check(t, p) ELSE t

ConnectRc(s, p, req, ok) ==
    LET r == s.plci[p]
    IN  IF ~ok \/ r.nlBad THEN plci_remove(s, p)
        ELSE Sendf([s EXCEPT !.plci[p].State = "OUTG_CON_PENDING"], r.appl, "CONF", p)

CommandRc(s, p, req, ok) ==
    LET r == s.plci[p]
        ended == r.State \in {"IDLE", "INC_DIS_PENDING"}
        accepted == [r EXCEPT !.State = "INC_CON_ACCEPT"]
    IN  CASE r.command = "CONNECT_REQ" /\ r.State # "INC_DIS_PENDING" -> ConnectRc(s, p, req, ok)
          [] r.command = "CONNECT_RESP" /\ ~ended ->
                [s EXCEPT !.plci[p] = IF r.nlBad THEN Hangup(accepted) ELSE accepted]
          [] r.command = "DISC_REQ" /\ ~ended ->
                Sendf([s EXCEPT !.plci[p].State = "OUTG_DIS_PENDING"], r.appl, "DCONF", p)
          [] OTHER -> s

ListenRc(s, p, ok) ==
    IF ok THEN [s EXCEPT !.plci[p] = send_req(sig_req([@ EXCEPT !.int = FALSE], "INDICATE_REQ"))]
    ELSE free_plci([s EXCEPT !.listen_active = @ - 1, !.plci[p].int = FALSE], p)

\* Requests that are left are cancelled only when the signalling entity could
\* not be assigned.
control_rc(s0, p, req, ok) ==
    LET nlBad == s0.plci[p].nlBad \/ (req = "NL_ASSIGN" /\ ~ok)
        left == s0.plci[p].reqs # << >> /\ ~(req = "ASSIGN" /\ ~ok)
        s == [s0 EXCEPT !.plci[p] = [@ EXCEPT !.reqs = << >>, !.req_in = FALSE]]
        r == s.plci[p]
    IN  CASE left -> [s0 EXCEPT !.plci[p].nlBad = nlBad]
          [] ~left /\ r.appl # 0 /\ req \notin {"ASSIGN", "NL_ASSIGN"} /\ Removable(r) ->
                plci_remove_check(s, p)
          [] ~left /\ r.appl # 0 /\ (req \in {"ASSIGN", "NL_ASSIGN"} \/ ~Removable(r)) ->
                IF r.command = "NONE" THEN s
                ELSE CommandDone(CommandRc([s EXCEPT !.plci[p].nlBad = nlBad], p, req, ok), p, req)
          [] ~left /\ r.appl = 0 /\ r.int -> ListenRc(s, p, ok)
          [] OTHER -> plci_remove_check(s, p)

\* The Ids of the entities after a return code.
Entities(r, req, ok) ==
    [r EXCEPT !.cur = "NONE",
              !.sig = @ /\ ~(req = "REMOVE" \/ (req = "ASSIGN" /\ ~ok)),
              !.nl = @ /\ ~(req = "NL_REMOVE" \/ (req = "NL_ASSIGN" /\ ~ok)),
              !.sigRem = @ /\ req # "REMOVE", !.nlRem = @ /\ req # "NL_REMOVE"]

Rc(s, p, ok) ==
    LET req == s.plci[p].cur
    IN  Then(Then([s EXCEPT !.plci[p] = Entities(@, req, ok)],
                  LAMBDA t : control_rc(t, p, req, ok)),
             LAMBDA t : Suffix(t, p))

\* Applications that listen for the call: those with a bit in CIP_Mask that
\* want its service, any of those that are registered.
indicate_ind(s0, p, xs) ==
    LET s == [s0 EXCEPT !.plci[p].mask = xs]
        t == IF xs = {}
             THEN [s EXCEPT !.plci[p] = [Hangup(@) EXCEPT !.State = "IDLE"]]
             ELSE SendAll([s EXCEPT !.plci[p].State = "INC_CON_PENDING"], xs, "IND", p)
    IN  listen_check([t EXCEPT !.listen_active = @ - 1])

call_con(s, p) ==
    IF s.plci[p].State = "INC_ACT_PENDING" THEN s
    ELSE [s EXCEPT !.plci[p].State = "INC_ACT_PENDING"]

\* Nobody has the call: both entities are removed.
RemoveEntities(r) ==
    LET q == IF r.nl /\ ~r.nlRem THEN nl_req(r, "NL_REMOVE") ELSE r
    IN  send_req(IF q.sigRem THEN q ELSE sig_req(q, "REMOVE"))

\* Mutant: DISCONNECT_IND for each HANGUP.
HangupTwice(s0, p) ==
    LET r0 == s0.plci[p]
        offered == r0.State = "INC_CON_PENDING"
        r == [r0 EXCEPT !.mask = IF offered THEN @ ELSE {}, !.int = FALSE]
        s == SendAll([s0 EXCEPT !.plci[p] = r], IF offered THEN r.mask ELSE {}, "DISC", p)
    IN  CASE r.appl = 0 /\ r.mask = {} ->
                [s EXCEPT !.listen_active = IF r.State = "LISTENING" THEN @ - 1 ELSE @,
                          !.plci[p] = RemoveEntities([r EXCEPT !.State = "IDLE"])]
          [] r.appl = 0 /\ r.mask # {} -> [s EXCEPT !.plci[p].State = "INC_DIS_PENDING"]
          [] OTHER -> Sendf([s EXCEPT !.plci[p].State = "INC_DIS_PENDING"], r.appl, "DISC", p)

hangup_ind(s0, p) ==
    LET r0 == s0.plci[p]
        offered == r0.State = "INC_CON_PENDING"
        r == [r0 EXCEPT !.mask = IF offered THEN @ ELSE {}, !.int = FALSE]
        s == SendAll([s0 EXCEPT !.plci[p] = r], IF offered THEN r.mask ELSE {}, "DISC", p)
    IN  CASE r.appl = 0 /\ r.mask = {} ->
                [s EXCEPT !.listen_active = IF r.State = "LISTENING" THEN @ - 1 ELSE @,
                          !.plci[p] = RemoveEntities([r EXCEPT !.State = "IDLE"])]
          [] r.appl = 0 /\ r.mask # {} -> [s EXCEPT !.plci[p].State = "INC_DIS_PENDING"]
          [] r.appl # 0 /\ r.State \notin {"IDLE", "INC_DIS_PENDING"} ->
                Sendf([s EXCEPT !.plci[p].State = "INC_DIS_PENDING"], r.appl, "DISC", p)
          [] OTHER -> s

\* Indications are discarded while the signalling entity is removed.
Ind(s, p, t) ==
    Then(IF s.plci[p].sigRem THEN s ELSE t, LAMBDA u : Suffix(u, p))

-----------------------------------------------------------------------------
(* Applications *)

FreeQueued(r, x) ==
    [r EXCEPT !.msgs = [k \in DOMAIN @ |-> IF @[k].x = x THEN [@[k] EXCEPT !.x = 0] ELSE @[k]]]

\* Mutant: calls that are offered to the application stay so.
ReleaseKeepsOffer(s, p, x) ==
    LET r == s.plci[p]
    IN  CASE r.used /\ r.appl = x -> plci_remove([s EXCEPT !.plci[p].appl = 0], p)
          [] r.used /\ r.appl # x -> [s EXCEPT !.plci[p] = FreeQueued(r, x)]
          [] OTHER -> s

\* CapiRelease for one PLCI.
ReleasePlci(s0, p, x) ==
    LET r0 == s0.plci[p]
        last == x \in r0.mask /\ r0.mask = {x}
        r1 == [r0 EXCEPT !.mask = @ \ {x}]
        r2 == IF r0.State = "INC_CON_PENDING" /\ last
              THEN [Hangup(r1) EXCEPT !.State = "OUTG_DIS_PENDING"] ELSE r1
        s == [s0 EXCEPT !.plci[p] = IF r0.appl = x THEN r2 ELSE FreeQueued(r2, x)]
    IN  CASE ~r0.used -> s0
          [] r0.used /\ r0.appl = x -> plci_remove([s EXCEPT !.plci[p].appl = 0], p)
          [] r0.used /\ r0.appl = 0 /\ last /\ r0.State # "INC_CON_PENDING" -> plci_remove(s, p)
          [] OTHER -> s

CapiRelease(s, x) ==
    listen_check(FoldLeft(LAMBDA u, p : ReleasePlci(u, p, x),
                          [s EXCEPT !.reg = @ \ {x}], [p \in Plcis |-> p]))

-----------------------------------------------------------------------------
(* Steps *)

To(s, x) == SelectSeq(s.out, LAMBDA m : m.x = x)

\* What an application knows after a message.
Learns(known, m) ==
    CASE m.msg \in {"IND", "CONF"} -> known \cup {m.p}
      [] m.msg = "DISC" -> known \ {m.p}
      [] OTHER -> known

\* Incoming calls an application gets with its own message.
Taken(s, x) ==
    {p \in Plcis : cap.plci[p].State = "INC_CON_PENDING" /\ cap.plci[p].appl # x
                     /\ s.plci[p].appl = x}

\* The driver goes to s; b are the messages the applications have not answered.
Commit(s, b) ==
    /\ cap' = [s EXCEPT !.out = << >>]
    /\ box' = [x \in Appls |-> b[x] \o
                  [k \in DOMAIN SelectSeq(To(s, x), LAMBDA m : m.msg \in {"IND", "DISC"}) |->
                     LET m == SelectSeq(To(s, x), LAMBDA n : n.msg \in {"IND", "DISC"})[k]
                     IN  [msg |-> m.msg, p |-> m.p]]]
    /\ told' = [x \in Appls |-> FoldLeft(Learns, told[x] \cup Taken(s, x), To(s, x))]

\* DISCONNECT_CONF has come, or a new call of the PLCI.
Answered(s, x) == {m.p : m \in {n \in ToSet(To(s, x)) : n.msg # "DISC"}}

Asked(s, more) ==
    asked' = [x \in Appls |-> (asked[x] \cup more[x]) \ Answered(s, x)]

NoMore == [x \in Appls |-> {}]

Init ==
    /\ cap = listen_check([plci |-> [p \in Plcis |-> [Fresh EXCEPT !.used = FALSE]],
                           free |-> [p \in Plcis |-> p], listen_active |-> 0,
                           reg |-> Appls, out |-> << >>])
    /\ card = [p \in Plcis |-> [line |-> "NONE", hang |-> FALSE]]
    /\ box = [x \in Appls |-> << >>]
    /\ told = [x \in Appls |-> {}]
    /\ asked = NoMore

\* An application answers its next message.
AppAnswers(x) ==
    /\ box[x] # << >>
    /\ LET m == Head(box[x])
           b == [box EXCEPT ![x] = Tail(@)]
       IN  \E v \in IF m.msg = "IND" THEN {"ACCEPT", "REJECT", "WRONG"} ELSE {"NONE"} :
              \E s \in {api_put_reenter(cap, x,
                          [cmd |-> IF m.msg = "IND" THEN "CONNECT_RESP" ELSE "DISC_RESP",
                           p |-> m.p, v |-> v], FALSE)} :
                 Commit(s, b) /\ Asked(s, NoMore)
    /\ UNCHANGED card

AppConnects(x) ==
    /\ x \in cap.reg /\ cap.free # << >>
    /\ \E s \in {connect_req(cap, x)} :
          Commit(s, box) /\ Asked(s, NoMore)
    /\ UNCHANGED card

HasMsg(x, p, msg) == \E k \in DOMAIN box[x] : box[x][k] = [msg |-> msg, p |-> p]

\* DISCONNECT_REQ for a call the application believes to have.
AppDisconnects(x, p) ==
    /\ p \in told[x] \/ HasMsg(x, p, "DISC")
    /\ ~HasMsg(x, p, "IND") /\ p \notin asked[x]
    /\ \E s \in {api_put_reenter(cap, x, [cmd |-> "DISC_REQ", p |-> p, v |-> "NONE"], FALSE)} :
          Commit(s, box) /\ Asked(s, [NoMore EXCEPT ![x] = {p}])
    /\ UNCHANGED card

AppReleases(x) ==
    /\ x \in cap.reg
    /\ \E s \in {CapiRelease(cap, x)} :
          /\ cap' = [s EXCEPT !.out = << >>]
          /\ box' = [box EXCEPT ![x] = << >>]
          /\ told' = [told EXCEPT ![x] = {}]
          /\ asked' = [asked EXCEPT ![x] = {}]
    /\ UNCHANGED card

\* CapiRegister, and LISTEN_REQ.
AppRegisters(x) ==
    /\ x \notin cap.reg
    /\ cap' = listen_check([cap EXCEPT !.reg = @ \cup {x}])
    /\ UNCHANGED <<card, box, told, asked>>

-----------------------------------------------------------------------------
(* Steps of the card *)

Rings == {"OFFERED", "CALLING", "ANSWERED", "UP"}

\* The call of a PLCI after a request.
Line(c, req, ok) ==
    CASE req = "ASSIGN"       -> [line |-> IF ok THEN "IDLE" ELSE "NONE", hang |-> FALSE]
      [] req = "INDICATE_REQ" -> [c EXCEPT !.line = "LISTEN"]
      [] req = "CALL_REQ"     -> [c EXCEPT !.line = IF ok THEN "CALLING" ELSE @]
      [] req = "CALL_RES"     -> [c EXCEPT !.line = IF @ = "OFFERED" THEN "ANSWERED" ELSE @]
      [] req = "HANGUP"       -> [line |-> "IDLE", hang |-> TRUE]
      [] req = "REMOVE"       -> [line |-> "NONE", hang |-> FALSE]
      [] OTHER                -> c

MayFail == {"ASSIGN", "NL_ASSIGN", "CALL_REQ"}

CardRc(p) ==
    /\ cap.plci[p].cur # "NONE"
    /\ \E ok \in IF AssignFails /\ cap.plci[p].cur \in MayFail THEN BOOLEAN ELSE {TRUE} :
          \E s \in {Rc(cap, p, ok)} :
             /\ Commit(s, box) /\ Asked(s, NoMore)
             /\ card' = [card EXCEPT ![p] = Line(@, cap.plci[p].cur, ok)]

\* INDICATE_IND
CardOffers(p) ==
    /\ card[p].line = "LISTEN"
    /\ \A x \in Appls : Len(box[x]) < MaxBox
    /\ \E xs \in SUBSET cap.reg :
          \E s \in {Ind(cap, p, indicate_ind(cap, p, xs))} :
             Commit(s, box) /\ Asked(s, NoMore)
    /\ card' = [card EXCEPT ![p].line = "OFFERED"]

\* CALL_IND, CALL_CON
CardConnects(p) ==
    /\ card[p].line \in {"CALLING", "ANSWERED"}
    /\ \E s \in {Ind(cap, p, call_con(cap, p))} :
          Commit(s, box) /\ Asked(s, NoMore)
    /\ card' = [card EXCEPT ![p].line = "UP"]

HangupInd(p) ==
    \E s \in {Ind(cap, p, hangup_ind(cap, p))} :
       /\ Commit(s, box) /\ Asked(s, NoMore)
       /\ card' = [card EXCEPT ![p] = [line |-> "IDLE", hang |-> FALSE]]

\* HANGUP, as answer to HANGUP or from the line.
CardAnswersHangup(p) == card[p].hang /\ HangupInd(p)

CardHangsUp(p) ==
    ~card[p].hang /\ card[p].line \in Rings \cup {"LISTEN"} /\ HangupInd(p)

Next ==
    \/ \E x \in Appls :
          \/ AppAnswers(x) \/ AppConnects(x) \/ AppReleases(x) \/ AppRegisters(x)
          \/ \E p \in Plcis : AppDisconnects(x, p)
    \/ \E p \in Plcis :
          \/ CardRc(p) \/ CardOffers(p) \/ CardConnects(p)
          \/ CardAnswersHangup(p) \/ CardHangsUp(p)

Spec == Init /\ [][Next]_vars

\* Applications answer; the card answers requests, HANGUP also with HANGUP.
Fairness ==
    /\ \A x \in Appls : WF_vars(AppAnswers(x))
    /\ \A p \in Plcis : WF_vars(CardRc(p)) /\ WF_vars(CardAnswersHangup(p))

FairSpec == Spec /\ Fairness
-----------------------------------------------------------------------------
(* Properties *)

States ==
    {"IDLE", "LISTENING", "INC_CON_PENDING", "INC_CON_ACCEPT", "INC_ACT_PENDING",
     "OUTG_CON_PENDING", "OUTG_DIS_PENDING", "INC_DIS_PENDING"}

TypeOK ==
    /\ ToSet(cap.free) = {p \in Plcis : ~cap.plci[p].used}
    /\ Len(cap.free) = Cardinality(ToSet(cap.free))
    /\ cap.listen_active \in 0..MaxListen /\ cap.reg \subseteq Appls
    /\ \A p \in Plcis :
          /\ cap.plci[p].State \in States
          /\ cap.plci[p].appl \in cap.reg \cup {0} /\ cap.plci[p].mask \subseteq cap.reg
          /\ ~cap.plci[p].used => cap.plci[p].cur = "NONE" /\ cap.plci[p].reqs = << >>

\* listen_active counts the PLCIs that wait for a call, and there are as many as
\* there should be while a PLCI is free, or none is being removed, whose end calls
\* listen_check (message.c:8234, 8587, 12456-12486, 13133-13159).
Listening ==
    /\ cap.listen_active = Cardinality({p \in Plcis : cap.plci[p].State = "LISTENING"})
    /\ cap.free # << >> /\ ~AssignFails /\ (\A p \in Plcis : ~cap.plci[p].sigRem)
         => cap.listen_active = MaxListen

\* The PLCI has a call.
InCall(p) == cap.plci[p].used /\ cap.plci[p].State # "LISTENING"

\* A call that was accepted has one application: to the others that know of it
\* the driver has sent DISCONNECT_IND (message.c:1398-1416).
Single ==
    \A p \in Plcis : cap.plci[p].State # "INC_CON_PENDING" =>
       \A x \in Appls : p \in told[x] /\ x \in cap.plci[p].mask => x = cap.plci[p].appl

\* A PLCI in c_ind_mask_table of which an application is has a call: it is not
\* given away (message.c:2332-2336, 13133-13159).
Awaits == \A p \in Plcis : cap.plci[p].mask # {} => InCall(p)

\* DISCONNECT_IND can reach the application: it has the call, or it is in the mask.
Reaches(x, p) == cap.plci[p].used /\ (x = cap.plci[p].appl \/ x \in cap.plci[p].mask)

Queued(x, p, cmd) == \E e \in ToSet(cap.plci[p].msgs) : e.x = x /\ e.m.cmd = cmd

\* DISCONNECT_RESP of an earlier call of the PLCI is under way.
Stale(x, p) == HasMsg(x, p, "DISC") \/ Queued(x, p, "DISC_RESP")

\* Who gets to know a call, and who knows of one, stays reachable for its end
\* (message.c:1380-1416, 2326, 8565, 8629), whatever the others, the card and
\* the application itself do; only its answer to the end of an earlier call of
\* the PLCI may take it out (2326).
StaysReachable ==
    \A x \in Appls, p \in Plcis :
       p \in told'[x] /\ (p \in told[x] => Reaches(x, p) /\ ~Stale(x, p)) => Reaches(x, p)'

Discs(b, x, p) == Cardinality({k \in DOMAIN b[x] : b[x][k] = [msg |-> "DISC", p |-> p]})

\* An application gets DISCONNECT_IND for a call it knows, and then does not
\* know it any more: no second one for the collisions of HANGUP with DISCONNECT
\* and CONNECT_RESP (message.c:8605-8633).  It may also be the answer to its own
\* message for a call that has ended.
EndedOnce ==
    \A x \in Appls, p \in Plcis :
       Discs(box', x, p) > Discs(box, x, p) =>
          /\ Discs(box', x, p) = Discs(box, x, p) + 1
          /\ p \notin told'[x]
          /\ p \in told[x] \/ Len(box'[x]) = Len(box[x])

\* For an application that was told that another one has the call the driver
\* waits until it has answered (message.c:2324-2336), but not longer than to
\* the end of the call (8565-8572).
AnswersAwaited ==
    \A x \in Appls, p \in Plcis :
       x \in cap.plci[p].mask /\ HasMsg(x, p, "DISC") =>
          \/ x \in cap'.plci[p].mask
          \/ Discs(box', x, p) < Discs(box, x, p) \/ Queued(x, p, "DISC_RESP")
          \/ HangupInd(p)

\* A call that is to end, ends: the PLCI and its entities are freed.
Ends ==
    \A p \in Plcis :
       cap.plci[p].used /\ cap.plci[p].State \in {"OUTG_DIS_PENDING", "INC_DIS_PENDING"}
         ~> ~InCall(p)
=============================================================================
