------------------------------- MODULE VidiXlog ------------------------------
(***************************************************************************)
(* Reading the trace of a card with the message interface (vidi_pcm_req of *)
(* kernel/vidi_di.c) and its stop.  Both set a bit of request_flags and    *)
(* wait; the soft ISR sends the message for a bit and clears it, without   *)
(* the lock the others hold.  The answer, cut into pieces, is copied to    *)
(* the buffer of the reader that waits, which may have given up by then.   *)
(***************************************************************************)
EXTENDS Integers, Sequences

CONSTANTS
    Reader,     \* processes that read the trace (diva_card_read_xlog)
    MaxPieces,  \* ring entries a message of the card is cut into
    Bound,      \* bound: requests sent, and times a reader gives up
    Shared      \* the processors may change request_flags at the same time

None == "none"
Free == {None}
Stopper == "stopper"    \* the process that stops the adapter
Dpc == "dpc"            \* the soft ISR
Actor == Reader \cup {Stopper, Dpc}

ConstantsOK ==
    /\ {None, Stopper, Dpc} \cap Reader = {} /\ MaxPieces \in Nat \ {0}
    /\ Bound \in Nat /\ Shared \in BOOLEAN

VARIABLES
    flags,      \* request_flags
    reg,        \* flags as loaded by who is changing them, or Free
    pcm,        \* pcm_data: the reader whose buffer it is
    state,      \* pcm_state: pieces in the buffer, 0 before the first one
    pc,         \* of the readers and the stopper
    buf,        \* the buffers: sequences of pieces
    got,        \* what readers were given, in order
    gaveUp,     \* how often a reader gave up
    dpc,        \* of the soft ISR
    sched,      \* it is scheduled
    asked,      \* READ_XLOG messages sent
    stopSent,   \* STOP_AND_INTERRUPT was sent
    card,       \* answers begun by the card; the piece it sends next
    ring        \* pieces in the indication ring

vars == <<flags, reg, pcm, state, pc, buf, got, gaveUp, dpc, sched, asked,
          stopSent, card, ring>>
cardVars == <<asked, card, ring>>

\* Piece i of n of message m
Piece == [m : 1..Bound, i : 1..MaxPieces, n : 1..MaxPieces]

Init ==
    /\ flags = {} /\ reg = [a \in Actor |-> Free]
    /\ pcm = None /\ state = 0
    /\ pc = [a \in Reader \cup {Stopper} |-> "out"]
    /\ buf = [r \in Reader |-> <<>>] /\ got = <<>> /\ gaveUp = 0
    /\ dpc = "idle" /\ sched = FALSE /\ stopSent = FALSE
    /\ asked = 0 /\ card = [m |-> 0, i |-> 1, n |-> 0] /\ ring = <<>>

-----------------------------------------------------------------------------
(* request_flags *)

\* data_spin_lock is held while a process changes the flags.
Locked == \E a \in Actor \ {Dpc} : reg[a] # Free

Load(a) ==
    /\ reg[a] = Free /\ (Shared \/ \A b \in Actor : reg[b] = Free)
    /\ a # Dpc => ~Locked
    /\ reg' = [reg EXCEPT ![a] = flags]
    /\ UNCHANGED flags

Store(a, f) == flags' = f /\ reg' = [reg EXCEPT ![a] = Free]

-----------------------------------------------------------------------------
(* vidi_pcm_req: one reader at a time *)

Enter(r) ==
    /\ \A q \in Reader : pc[q] = "out"
    /\ Load(r) /\ pc' = [pc EXCEPT ![r] = "enter"]
    /\ UNCHANGED <<pcm, state, buf, got, gaveUp, dpc, sched, stopSent, cardVars>>

Entered(r) ==
    /\ pc[r] = "enter" /\ pc' = [pc EXCEPT ![r] = "wait"]
    /\ Store(r, reg[r] \cup {"xlog"})
    /\ pcm' = r /\ state' = 0 /\ sched' = TRUE
    /\ UNCHANGED <<buf, got, gaveUp, dpc, stopSent, cardVars>>

\* The last turn of the loop: the read is complete, or it took too long.
Check(r) ==
    /\ pc[r] = "wait" /\ ~Locked
    /\ IF pcm = None THEN pc' = [pc EXCEPT ![r] = "complete"] /\ UNCHANGED gaveUp
       ELSE /\ gaveUp < Bound /\ gaveUp' = gaveUp + 1
            /\ pc' = [pc EXCEPT ![r] = "late"]
    /\ UNCHANGED <<flags, reg, pcm, state, buf, got, dpc, sched, stopSent, cardVars>>

Leave(r) ==
    /\ pc[r] \in {"complete", "late"}
    /\ Load(r)
    /\ UNCHANGED <<pcm, state, pc, buf, got, gaveUp, dpc, sched, stopSent, cardVars>>

\* Mutant: a reader that gave up leaves its buffer to the soft ISR.
PcmKept == pcm

PcmLeft == None

Left(r) ==
    /\ pc[r] \in {"complete", "late"} /\ reg[r] # Free
    /\ Store(r, reg[r] \ {"xlog"})
    /\ pcm' = PcmLeft /\ state' = 0
    /\ got' = IF pc[r] = "complete" THEN Append(got, buf[r]) ELSE got
    /\ buf' = [buf EXCEPT ![r] = <<>>]
    /\ pc' = [pc EXCEPT ![r] = "out"]
    /\ UNCHANGED <<gaveUp, dpc, sched, stopSent, cardVars>>

-----------------------------------------------------------------------------
(* stop_pri_v3_hardware and its like *)

Stop ==
    /\ pc[Stopper] = "out"
    /\ Load(Stopper) /\ pc' = [pc EXCEPT ![Stopper] = "enter"]
    /\ UNCHANGED <<pcm, state, buf, got, gaveUp, dpc, sched, stopSent, cardVars>>

Stopping ==
    /\ pc[Stopper] = "enter" /\ pc' = [pc EXCEPT ![Stopper] = "wait"]
    /\ Store(Stopper, reg[Stopper] \cup {"stop"})
    /\ sched' = TRUE
    /\ UNCHANGED <<pcm, state, buf, got, gaveUp, dpc, stopSent, cardVars>>

-----------------------------------------------------------------------------
(* The soft ISR *)

Frame == UNCHANGED <<pc, got, gaveUp>>

DpcStart ==
    /\ dpc = "idle" /\ sched
    /\ dpc' = "ind" /\ sched' = FALSE
    /\ UNCHANGED <<flags, reg, pcm, state, buf, stopSent, cardVars>> /\ Frame

\* Mutant: a piece is appended whatever came before it.
Appended(p) == TRUE

Continues(p) == state # 0

\* vidi_dispatch_ind: DIVA_SYS_MSG_READ_XLOG
Xlog ==
    LET p == Head(ring)
        store == pcm # None /\ (p.i = 1 \/ Continues(p))
    IN  /\ dpc = "ind" /\ ring # <<>> /\ ~Locked
        /\ ring' = Tail(ring)
        /\ IF ~store
           THEN state' = (IF pcm = None THEN 0 ELSE state) /\ UNCHANGED <<pcm, buf>>
           ELSE /\ buf' = [buf EXCEPT ![pcm] = IF p.i = 1 THEN <<p>> ELSE Append(@, p)]
                /\ pcm' = IF p.i = p.n THEN None ELSE pcm
                /\ state' = IF p.i = p.n THEN 0
                            ELSE IF p.i = 1 THEN 1 ELSE state + 1
        /\ UNCHANGED <<flags, reg, dpc, sched, stopSent, asked, card>> /\ Frame

\* From vidi_host_pr_dpc to vidi_host_pr_out
OutStart ==
    /\ dpc = "ind" /\ dpc' = "stop"
    /\ UNCHANGED <<flags, reg, pcm, state, buf, sched, stopSent, cardVars>> /\ Frame

\* The flag is looked at, its message sent, and the flag cleared.
OutLook(f, next) ==
    /\ dpc = f /\ reg[Dpc] = Free
    /\ IF f \in flags THEN Load(Dpc) /\ UNCHANGED dpc
       ELSE dpc' = next /\ UNCHANGED <<flags, reg>>

OutStop ==
    /\ OutLook("stop", "xlog")
    /\ stopSent' = (stopSent \/ "stop" \in flags)
    /\ UNCHANGED <<pcm, state, buf, sched, cardVars>> /\ Frame

OutXlog ==
    /\ OutLook("xlog", "idle")
    /\ "xlog" \in flags => asked < Bound
    /\ asked' = IF "xlog" \in flags THEN asked + 1 ELSE asked
    /\ UNCHANGED <<pcm, state, buf, sched, stopSent, card, ring>> /\ Frame

\* Mutant: all flags are cleared.
ClearedAll(f) == {}

\* Mutant: the flag stays.
ClearedNone(f) == f

Cleared(f) == f \ {dpc}

OutClear ==
    /\ reg[Dpc] # Free
    /\ Store(Dpc, Cleared(reg[Dpc]))
    /\ dpc' = IF dpc = "stop" THEN "xlog" ELSE "idle"
    /\ UNCHANGED <<pcm, state, buf, sched, stopSent, cardVars>> /\ Frame

-----------------------------------------------------------------------------
(* The card: an answer for each request, cut into pieces *)

CardPiece ==
    /\ \/ card.i <= card.n /\ ring' = Append(ring, card)
          /\ card' = [card EXCEPT !.i = @ + 1]
       \/ /\ card.i > card.n /\ card.m < asked
          /\ \E n \in 1..MaxPieces :
                LET p == [m |-> card.m + 1, i |-> 1, n |-> n]
                IN  ring' = Append(ring, p) /\ card' = [p EXCEPT !.i = 2]
    /\ sched' = TRUE
    /\ UNCHANGED <<flags, reg, pcm, state, pc, buf, got, gaveUp, dpc, asked, stopSent>>

Next ==
    \/ \E r \in Reader : Enter(r) \/ Entered(r) \/ Check(r) \/ Leave(r) \/ Left(r)
    \/ Stop \/ Stopping
    \/ DpcStart \/ Xlog \/ OutStart \/ OutStop \/ OutXlog \/ OutClear
    \/ CardPiece

Spec == Init /\ [][Next]_vars

-----------------------------------------------------------------------------
(* Properties *)

Whole(s) == /\ s # <<>> /\ Len(s) = s[1].n
            /\ \A k \in DOMAIN s : s[k] = [s[1] EXCEPT !.i = k]

\* What a reader is given is one message of the card, from its first to its
\* last piece, and messages keep their order, also when earlier readers gave up
\* while theirs was on its way (vidi_di.c:698-727, 1217-1225).
WholeAnswer ==
    /\ \A k \in DOMAIN got : Whole(got[k])
    /\ \A j, k \in DOMAIN got : j < k => got[j][1].m < got[k][1].m

\* Nothing is written to the buffer of a reader that has left, which is freed
\* (vidi_di.c:1222-1226).
NoLateWrite ==
    [][\A r \in Reader : Len(buf'[r]) > Len(buf[r]) => pc[r] \in {"wait", "late"}]_vars

\* The wish to stop the card is not lost before the message is sent: the clear
\* of the other flag must not take it away (vidi_di.c:187, 305, 1223).
StopKept == pc[Stopper] = "wait" => "stop" \in flags \/ stopSent

\* A message is lost only for a reader that gave up: a late answer serves the
\* next reader (vidi_di.c:724).
Taken == card.m - (IF card.i <= card.n THEN 1 ELSE 0)
InHand == IF \E r \in Reader : buf[r] # <<>> THEN 1 ELSE 0
Heads(s) == Len(SelectSeq(s, LAMBDA p : p.i = p.n))
LossBounded == Taken - Heads(ring) - Len(got) - InHand <= gaveUp
=============================================================================
