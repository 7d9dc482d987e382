------------------------------- MODULE MsgQueue -----------------------------
(***************************************************************************)
(* The ring of messages of variable length in kernel/dqueue.c: the queues  *)
(* of return codes and of indications of user mode IDI.  kernel/debug.c    *)
(* has the same functions for the buffer of the trace driver.              *)
(*                                                                         *)
(* A message is a header with its size, then its data; the whole is a      *)
(* multiple of four bytes long and never split: one that does not fit      *)
(* between tail and the end of the buffer goes to its base, and wrap       *)
(* remembers where the messages at the end of the buffer stop.             *)
(* Addresses are offsets from Base, so that wrap = 0 means "not wrapped",  *)
(* as in the code, and High = Size.  Head, Tail, Wrap and Count of the     *)
(* code are written in lower case: Sequences has the names.                *)
(***************************************************************************)
EXTENDS Integers, Sequences

CONSTANTS
    Size,           \* bytes of the buffer
    Sizes,          \* sizes of the messages
    MaxMsgs         \* bound: messages in a behaviour

\* A size with the bit DIVA_MSG_INCOMPLETE could not be told from a message
\* that is still being written, and near 2^16 "need" would overflow.
ASSUME MsgQueueAssumption ==
    /\ Size \in Nat
    /\ Sizes \subseteq Nat /\ \A s \in Sizes : s < 32768
    /\ MaxMsgs \in Nat

VARIABLES
    head, tail, wrap, count,
    mem,        \* what the buffer holds at the addresses a header can be at
    msgs,       \* the messages in order: address, size and whether it was
                \* completed, as those who allocated them know them
    allocs      \* messages allocated so far

vars == <<head, tail, wrap, count, mem, msgs, allocs>>

Hdr == 4        \* sizeof(DIVA_MSG_HEAD)
Word == 65536

Need(size) == ((Hdr + size + 3) \div 4) * 4 % Word

Addr == {a \in 0..Size - 1 : a % 4 = 0}

\* Data that is read as a header: some size, and complete.
Data == [size |-> 0, done |-> TRUE]

Init ==
    /\ head = 0 /\ tail = 0 /\ wrap = 0 /\ count = 0
    /\ mem = [a \in Addr |-> Data]
    /\ msgs = <<>> /\ allocs = 0

-----------------------------------------------------------------------------
(* queueAllocMsg *)

\* Mutant: the end of the buffer is not looked at.
AppendFits(n) ==
    \/ tail = head /\ wrap = 0 /\ n <= Size
    \/ tail > head
    \/ tail < head /\ tail + n <= head

\* Mutant: a full ring is taken for an empty one.
FullIsEmpty(n) ==
    \/ tail = head /\ n <= Size
    \/ tail > head /\ tail + n <= Size
    \/ tail < head /\ tail + n <= head

\* The message goes to tail: the queue is empty, or there is room ...
AtTail(n) ==
    \/ tail = head /\ wrap = 0 /\ n <= Size
    \/ tail > head /\ tail + n <= Size
    \/ tail < head /\ tail + n <= head

\* Mutant: the first message is not looked at.
AtBaseAlways(n) == tail > head /\ tail + n > Size

\* ... or the queue wraps around and it goes to Base.
AtBase(n) == tail > head /\ tail + n > Size /\ n <= head

Fits(n) == AtTail(n) \/ AtBase(n)

\* Where a message of n bytes is put.
At(n) == IF AtBase(n) THEN 0 ELSE tail

\* Mutant: the rounded size is counted.
CountedNeed(size) == count + Need(size)

Counted(size) == count + size

Reserve(size) ==
    LET n == Need(size)
    IN  /\ Fits(n)
        /\ wrap' = IF AtBase(n) THEN tail ELSE wrap
        /\ tail' = At(n) + n
        /\ count' = Counted(size)
        /\ allocs' = allocs + 1
        /\ UNCHANGED head

Message(at, size, done) == [at |-> at, size |-> size, done |-> done]

Alloc(size) ==
    LET at == At(Need(size))
    IN  /\ allocs < MaxMsgs /\ Reserve(size)
        /\ mem' = [mem EXCEPT ![at] = [size |-> size, done |-> FALSE]]
        /\ msgs' = Append(msgs, Message(at, size, FALSE))

-----------------------------------------------------------------------------
(* the owner of message k writes it, then queueCompleteMsg *)

\* The addresses that the owner of a message writes to.
Inside(m) == {a \in Addr : m.at < a /\ a < m.at + Hdr + m.size}

\* The buffer with the data of m and its header, marked complete.
Written(m, size) ==
    [a \in Addr |->
        IF a = m.at THEN [size |-> size, done |-> TRUE]
        ELSE IF a \in Inside(m) THEN Data ELSE mem[a]]

Complete(k) ==
    /\ ~msgs[k].done
    /\ mem' = Written(msgs[k], mem[msgs[k].at].size)
    /\ msgs' = [msgs EXCEPT ![k] = Message(@.at, @.size, TRUE)]
    /\ UNCHANGED <<head, tail, wrap, count, allocs>>

-----------------------------------------------------------------------------
(* queuePeekMsg and queueFreeMsg *)

\* Mutant: the mark of incomplete messages is not looked at.
PeekAny == ~(head = tail /\ wrap = 0)

\* There is a message, and the first one is complete.
Peek == ~(head = tail /\ wrap = 0) /\ mem[head].done

\* Mutant: the place where the queue wrapped is not forgotten.
KeepWrap(h) ==
    IF wrap # 0
    THEN head' = (IF h >= wrap THEN 0 ELSE h) /\ UNCHANGED <<tail, wrap>>
    ELSE /\ head' = IF h >= tail THEN 0 ELSE h
         /\ tail' = IF h >= tail THEN 0 ELSE tail
         /\ UNCHANGED wrap

Advance(h) ==
    IF wrap # 0
    THEN /\ head' = IF h >= wrap THEN 0 ELSE h
         /\ wrap' = IF h >= wrap THEN 0 ELSE wrap
         /\ UNCHANGED tail
    ELSE /\ head' = IF h >= tail THEN 0 ELSE h
         /\ tail' = IF h >= tail THEN 0 ELSE tail
         /\ UNCHANGED wrap

\* Freed by whom has looked at it: the size is the one in the header.
Free ==
    /\ Peek
    /\ Advance(head + Need(mem[head].size))
    /\ count' = count - mem[head].size
    /\ msgs' = IF msgs = <<>> THEN msgs ELSE Tail(msgs)
    /\ UNCHANGED <<mem, allocs>>

Next ==
    \/ \E size \in Sizes : Alloc(size)
    \/ \E k \in 1..Len(msgs) : Complete(k)
    \/ Free

Spec == Init /\ [][Next]_vars

-----------------------------------------------------------------------------
(* Properties *)

End(m) == m.at + Need(m.size)

TypeOK ==
    /\ head \in Nat /\ tail \in Nat /\ wrap \in Nat
    /\ count \in Int /\ allocs \in Nat
    /\ mem \in [Addr -> [size : Sizes \cup {0}, done : BOOLEAN]]
    /\ msgs \in Seq([at : Addr, size : Sizes, done : BOOLEAN])

\* Two messages never share a byte, and none ends behind the buffer: with any
\* order of sizes, wraps and frees, what one owner writes is nobody else's
\* (dqueue.c:96-126).
Disjoint ==
    /\ \A i \in 1..Len(msgs) : End(msgs[i]) <= Size
    /\ \A i, j \in 1..Len(msgs) :
          i < j => End(msgs[i]) <= msgs[j].at \/ End(msgs[j]) <= msgs[i].at

\* The header in the buffer is the one of the message: no other write has
\* reached it, and a message that is being written is marked (dqueue.c:118).
HeadersKept ==
    \A i \in 1..Len(msgs) :
        mem[msgs[i].at] = [size |-> msgs[i].size, done |-> msgs[i].done]

\* queueCount is the number of bytes of data in the queue, whatever order
\* they were put and freed in (dqueue.c:123, 134): in debug.c the reader is
\* woken up and polls by it, without a look at the messages.
BytesOf(q) ==
    LET bytes[k \in 0..Len(q)] == IF k = 0 THEN 0 ELSE bytes[k - 1] + q[k].size
    IN  bytes[Len(q)]
CountExact == count = BytesOf(msgs)

\* A reader is shown a message if and only if there is one and it was
\* completed; and a queue that was emptied takes every message that the
\* buffer can hold, wherever the ones before it had been (dqueue.c:96, 136).
EmptyIsEmpty ==
    /\ Peek <=> msgs # <<>> /\ msgs[1].done
    /\ msgs = <<>> => \A size \in Sizes : Need(size) <= Size => Fits(Need(size))

\* The messages that are found in the buffer, from head on.
Used == IF wrap = 0 THEN tail - head ELSE wrap - head + tail
Place(n) == IF wrap # 0 /\ head + n >= wrap THEN head + n - wrap ELSE head + n
Contents ==
    LET from[n \in 0..Size] ==
            IF n >= Used \/ Place(n) \notin Addr THEN <<>>
            ELSE LET m == mem[Place(n)]
                     next == n + Need(m.size)
                 IN  <<m>> \o IF next > Used THEN <<>> ELSE from[next]
    IN  from[0]

\* The ring is a queue: what lies in the buffer changes as the messages of a
\* first-in first-out queue do (dqueue.c:72-155).
Fifo == INSTANCE MsgFifo WITH fifo <- Contents
FifoSpec == Fifo!Spec

\* Whatever the sizes and the order of completion, the messages of the ring
\* lie apart and whole where the reader looks for them, and are counted
\* (dqueue.c:72-155).
RingSafe == TypeOK /\ Disjoint /\ HeadersKept /\ EmptyIsEmpty /\ CountExact

=============================================================================
