------------------------------ MODULE PlciQueue -----------------------------
(***************************************************************************)
(* The queue of commands of a PLCI, msg_in_queue of kernel/message.c:      *)
(* a CAPI message that comes while a request or an internal command is     *)
(* under way is copied to a ring, and the callback of the adapter executes *)
(* it later.  A message takes its length and a pointer to its application, *)
(* rounded up to whole words, and is never split.                          *)
(*                                                                         *)
(* The positions are those of the code: both are Size while the queue is   *)
(* empty; a message that does not fit behind the last one goes to 0 and    *)
(* wrap remembers where those at the end of the buffer stop.  Busy stands  *)
(* for "req_in or internal_command": what a message does when it is        *)
(* executed is the subject of other modules.  The bytes of a message that  *)
(* was taken out are Junk: Undamaged shows that none of them is read.      *)
(***************************************************************************)
EXTENDS Integers, Sequences

CONSTANTS
    Size,           \* MSG_IN_QUEUE_SIZE
    WordSize,       \* sizeof(void *), also MSG_IN_OVERHEAD
    Lens,           \* lengths of the messages
    Appls, NoAppl   \* the applications; the pointer of one that is gone

ConstantsOK ==
    /\ WordSize \in Nat \ {0}
    /\ Size \in Nat /\ Size % WordSize = 0
    /\ Lens \subseteq Nat \ {0}
    \* MAX_MSG_SIZE is 2100, MSG_IN_QUEUE_SIZE 8192
    /\ \A len \in Lens : 3 * (len + 2 * WordSize) < Size
    /\ NoAppl \notin Appls

VARIABLES
    rd, wr, wrap,   \* msg_in_read_pos, msg_in_write_pos, msg_in_wrap_pos
    mem,            \* the message whose header lies at an address, or Junk
    busy            \* plci->req_in or plci->internal_command is set

vars == <<rd, wr, wrap, mem, busy>>

Addr == {a \in 0..Size - 1 : a % WordSize = 0}

Messages == [len : Lens, appl : Appls \cup {NoAppl}]

\* What a message does not begin with: no length of a message.
Junk == [len |-> 0, appl |-> NoAppl]

Round(n) == ((n + WordSize - 1) \div WordSize) * WordSize

\* The bytes that a message of this length takes.
Need(len) == Round(len) + WordSize

Init ==
    /\ rd = Size /\ wr = Size /\ wrap = Size
    /\ mem = [a \in Addr |-> Junk]
    /\ busy \in BOOLEAN

-----------------------------------------------------------------------------
(* api_put_reenter *)

\* Where a message would be put: behind the last one, or at the base.
At(r, w, len) == IF w >= r /\ w + len + WordSize > Size THEN 0 ELSE w

\* Mutant: nothing is reserved for the message at the base.
FreeUnreserved(r, w, len) ==
    IF w >= r
    THEN IF w + len + WordSize <= Size THEN Size - w + 1 ELSE r
    ELSE IF r > w THEN r - w ELSE 0

\* Mutant: the room before the first message is not looked at.
FreeAtEnd(r, w, len) ==
    IF w >= r THEN IF w + len + WordSize <= Size THEN Size - w + 1 ELSE 0
    ELSE r - w

\* The room that is found with these positions.  While the ring is wrapped,
\* as many bytes as the message at the base takes are held back at its end,
\* so that it can be put there after it was taken out.
Free(r, w, len) ==
    IF w >= r
    THEN IF w + len + WordSize <= Size THEN Size - w + 1 ELSE r
    ELSE LET n == Round(mem[0].len + WordSize)
             end == IF r > Size - n THEN Size - n + 1 ELSE r
         IN  IF end > w THEN end - w ELSE 0

\* Mutant: a message may fill the ring to the last byte.
FullToTheBrim(r, w, len) == Free(r, w, len) < Round(len + WordSize)

Full(r, w, len) == Free(r, w, len) <= Round(len + WordSize)

\* The bytes [at, at + Need(len)) are overwritten by a message.
Stored(at, m) ==
    [a \in Addr |-> IF a = at THEN m
                    ELSE IF at < a /\ a < at + Need(m.len) THEN Junk ELSE mem[a]]

\* Mutant: the end of the messages before the base is not remembered.
EnqueueNoWrap(m) ==
    LET at == At(rd, wr, m.len)
    IN  /\ mem' = Stored(at, m)
        /\ wr' = at + Need(m.len)
        /\ UNCHANGED <<rd, wrap, busy>>

Enqueue(m) ==
    LET at == At(rd, wr, m.len)
    IN  /\ wrap' = IF at = 0 THEN wr ELSE wrap
        /\ mem' = Stored(at, m)
        /\ wr' = at + Need(m.len)
        /\ UNCHANGED <<rd, busy>>

\* A message of an application waits for what is under way, and for those
\* that wait already.
MustWait == busy \/ wr # rd

\* A message of an application: refused, queued, or executed.  (A response to
\* DATA_B3_IND does not wait unless it sends a request; it leaves the queue
\* alone.)
Put(len, appl) ==
    /\ ~Full(rd, wr, len)
    /\ IF MustWait
       THEN Enqueue([len |-> len, appl |-> appl])
       ELSE busy' \in BOOLEAN /\ UNCHANGED <<rd, wr, wrap, mem>>

-----------------------------------------------------------------------------
(* the end of callback: messages are taken out and executed *)

\* Where the first message lies: those before the base are through when the
\* place where the ring wrapped is reached.
First == IF rd = wrap THEN 0 ELSE rd

\* The positions after it was taken out.
Taken ==
    LET r == First + Need(mem[First].len)
        p == IF rd = wrap THEN Size ELSE wrap
    IN  IF r = wr THEN [rd |-> Size, wr |-> Size, wrap |-> p]
        ELSE IF r = p THEN [rd |-> Size, wr |-> wr, wrap |-> Size]
        ELSE [rd |-> r, wr |-> wr, wrap |-> p]

\* It is given to api_put_reenter again, which looks for room for it first:
\* without room it is not executed and lost.  One without an application is
\* skipped.
Dequeue ==
    /\ ~busy /\ wr # rd
    /\ rd' = Taken.rd /\ wr' = Taken.wr /\ wrap' = Taken.wrap
    /\ IF mem[First].appl = NoAppl \/ Full(Taken.rd, Taken.wr, mem[First].len)
       THEN UNCHANGED busy
       ELSE busy' \in BOOLEAN
    /\ mem' = [mem EXCEPT ![First] = Junk]

\* The request or the internal command under way is through.
Done == busy /\ busy' = FALSE /\ UNCHANGED <<rd, wr, wrap, mem>>

-----------------------------------------------------------------------------
(* plci_free_msg_in_queue and plci_free_queued_appl_msg *)

FreeAll ==
    /\ rd' = Size /\ wr' = Size /\ wrap' = Size
    /\ mem' = [a \in Addr |-> Junk]
    /\ UNCHANGED busy

\* The addresses of the messages, first to last, as the code finds them.
Places ==
    LET start(p) == IF p = wrap THEN 0 ELSE p
        walk[n \in 0..(Size \div WordSize), p \in 0..Size] ==
            IF p = wr \/ n = 0 THEN <<>>
            ELSE LET next == start(p) + Need(mem[start(p)].len)
                 IN  <<start(p)>> \o
                     (IF next > Size THEN <<>> ELSE walk[n - 1, next])
    IN  walk[Size \div WordSize, rd]

\* The application is gone: its messages stay, without an application.
Forget(appl) ==
    /\ LET at == Places
       IN  mem' = [a \in Addr |->
                      IF (\E k \in DOMAIN at : at[k] = a) /\ mem[a].appl = appl
                      THEN [mem[a] EXCEPT !.appl = NoAppl] ELSE mem[a]]
    /\ UNCHANGED <<rd, wr, wrap, busy>>

Next ==
    \/ \E len \in Lens, appl \in Appls : Put(len, appl)
    \/ Dequeue \/ Done \/ FreeAll
    \/ \E appl \in Appls : Forget(appl)

\* The adapter answers, and every answer ends with the loop of callback.
Spec == Init /\ [][Next]_vars

-----------------------------------------------------------------------------
(* Properties *)

TypeOK ==
    /\ rd \in 0..Size /\ wr \in 0..Size /\ wrap \in 0..Size
    /\ mem \in [Addr -> Messages \cup {Junk}]
    /\ busy \in BOOLEAN

End(a) == a + Need(mem[a].len)

\* The messages that are found from msg_in_read_pos on are messages, lie side
\* by side without sharing a byte, and end where the next one is to be
\* written: neither a wrap nor the reserve may let one overwrite another
\* (message.c:611-634, 718-733).
Undamaged ==
    LET at == Places
    IN  /\ \A k \in DOMAIN at : mem[at[k]] # Junk /\ End(at[k]) <= Size
        /\ \A i, k \in DOMAIN at :
              i < k => End(at[i]) <= at[k] \/ End(at[k]) <= at[i]
        /\ at # <<>> => End(at[Len(at)]) = wr
        /\ wr < rd => mem[0] # Junk

\* While nothing waits, a message of any length finds room: what lay in the
\* ring before leaves nothing behind (message.c:5819-5828).
EmptyTakesAll == wr = rd => \A len \in Lens : ~Full(rd, wr, len)

\* The first message is refused when it is taken out to be executed.
Loses ==
    /\ wr # rd /\ mem[First].appl # NoAppl
    /\ Full(Taken.rd, Taken.wr, mem[First].len)

\* The room that is held back is for the message that is taken out, which is
\* looked at as if it had to be queued again.  It is enough in all cases but
\* one: the ring is wrapped and the message ends in the very bytes that are
\* held back, so that they do not count.  Then it is lost
\* (message.c:620-634, 5829-5838).
LostOnlyWrapped ==
    Loses => wr < First /\ End(First) > Size - Need(mem[0].len)

Waiting == LET at == Places IN [k \in DOMAIN at |-> mem[at[k]]]

\* The ring is a queue: what waits in it changes as a first-in first-out queue
\* of commands does, and an application that is gone takes nobody else's
\* commands with it (message.c:1544-1598, 611-741, 5800-5828).
Fifo == INSTANCE CmdFifo WITH fifo <- Waiting
FifoStep == Fifo!Next \/ UNCHANGED Waiting
FifoSpec == Fifo!Spec
=============================================================================
