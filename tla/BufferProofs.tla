---------------------------- MODULE BufferProofs ----------------------------
(***************************************************************************)
(* Proofs about the two kinds of memory the drivers share out.  MsgQueue:  *)
(* for every buffer, all sizes of messages and any order of allocation,    *)
(* completion and release.  DmaFrag: for every number of pages and every   *)
(* fragment map, buffers never overlap, no page leaks, and the look at the *)
(* head of the queue finds every free fragment.                            *)
(***************************************************************************)
EXTENDS MsgQueue, DmaFrag, FiniteSetTheorems, SequenceTheorems, TLAPS

-----------------------------------------------------------------------------
(* The ring of messages: its inductive invariant *)

\* Where the message behind m begins.
Behind(m) == IF wrap # 0 /\ End(m) = wrap THEN 0 ELSE End(m)

\* The end of the messages that lie from head on.
Limit == IF wrap = 0 THEN tail ELSE wrap

Aligned == head % 4 = 0 /\ tail % 4 = 0 /\ wrap % 4 = 0

\* Head, tail and wrap against each other.
Bounds ==
    /\ msgs = <<>> => head = 0 /\ tail = 0 /\ wrap = 0
    /\ msgs # <<>> /\ wrap = 0 => head < tail
    /\ tail <= Size /\ wrap <= Size
    /\ wrap # 0 => tail <= head /\ head < wrap

\* The messages follow each other from head to tail ...
Chain ==
    /\ msgs # <<>> => msgs[1].at = head /\ End(msgs[Len(msgs)]) = tail
    /\ \A i \in 1..Len(msgs) : i < Len(msgs) => msgs[i + 1].at = Behind(msgs[i])
    /\ msgs # <<>> /\ wrap # 0 => msgs[Len(msgs)].at < head

\* ... each of them between head and the end of the messages, or before tail
\* when the ring has wrapped around ...
Placed ==
    \A i \in 1..Len(msgs) :
        \/ head <= msgs[i].at /\ End(msgs[i]) <= Limit
        \/ wrap # 0 /\ msgs[i].at < head /\ End(msgs[i]) <= tail

\* ... in order on both sides.
Ordered ==
    \A i, j \in 1..Len(msgs) : i < j =>
        /\ msgs[j].at >= head => msgs[i].at >= head /\ End(msgs[i]) <= msgs[j].at
        /\ msgs[i].at < head /\ msgs[j].at < head => End(msgs[i]) <= msgs[j].at

Layout == Bounds /\ Aligned /\ Chain /\ Placed /\ Ordered

RingInv == TypeOK /\ Layout /\ HeadersKept

-----------------------------------------------------------------------------
(* Arithmetic *)

\* A number below 2^16 is its own remainder.
LEMMA InWord == ASSUME NEW n \in Nat, n < 65536 PROVE n % 65536 = n
  BY SMT

\* What rounding down to a multiple of four gives.
LEMMA Rounded ==
    ASSUME NEW n \in Nat
    PROVE  /\ (n \div 4) * 4 \in Nat /\ (n \div 4) * 4 <= n
           /\ n < (n \div 4) * 4 + 4 /\ ((n \div 4) * 4) % 4 = 0
  <1>1. n \div 4 \in Nat /\ 4 * (n \div 4) <= n /\ n < 4 * (n \div 4) + 4
    BY SMT
  <1>2. \A q \in Nat : (q * 4) % 4 = 0
    BY SMT
  <1>3. QED BY <1>1, <1>2

\* The space of a message: a multiple of four that holds header and data.
LEMMA NeedOf ==
    ASSUME NEW s \in Nat, s < 32768
    PROVE  Need(s) \in Nat /\ Need(s) % 4 = 0 /\ Need(s) >= s + 4
  <1>1. Hdr + s + 3 \in Nat /\ Hdr + s + 3 = s + 7
    BY DEF Hdr
  <1>2. /\ ((s + 7) \div 4) * 4 \in Nat /\ ((s + 7) \div 4) * 4 <= s + 7
        /\ s + 7 < ((s + 7) \div 4) * 4 + 4 /\ (((s + 7) \div 4) * 4) % 4 = 0
    BY <1>1, Rounded
  <1>3. Need(s) = ((s + 7) \div 4) * 4 % 65536
    BY <1>1 DEF Need, Word
  <1>4. ((s + 7) \div 4) * 4 < 65536
    BY <1>2
  <1>5. Need(s) = ((s + 7) \div 4) * 4
    BY <1>2, <1>3, <1>4, InWord
  <1>6. QED BY <1>2, <1>5

\* Multiples of four add up.
LEMMA Fours ==
    ASSUME NEW a \in Nat, NEW b \in Nat, a % 4 = 0, b % 4 = 0
    PROVE  a + b \in Nat /\ (a + b) % 4 = 0
  BY SMT

\* The sizes leave room for the mark of incomplete messages.
LEMMA SizeOf == \A s \in Sizes : s \in Nat /\ s < 32768
  BY MsgQueueAssumption DEF MsgQueueAssumption

\* What is known of a sequence with one more element.
LEMMA OneMore ==
    ASSUME NEW A, NEW s \in Seq(A), NEW a \in A
    PROVE  /\ Append(s, a) \in Seq(A) /\ Append(s, a) # <<>>
           /\ Len(s) \in Nat /\ Len(Append(s, a)) = Len(s) + 1
           /\ \A i \in 1..Len(s) : Append(s, a)[i] = s[i]
           /\ Append(s, a)[Len(s) + 1] = a
  BY AppendProperties, LenProperties

\* A message has at least a header, and ends where it should.
LEMMA EndOf ==
    ASSUME NEW m \in [at : Addr, size : Sizes, done : BOOLEAN]
    PROVE  /\ m.at \in Nat /\ m.at % 4 = 0 /\ m.at < Size
           /\ m.size \in Nat /\ m.size < 32768
           /\ End(m) \in Nat /\ End(m) % 4 = 0
           /\ m.at + m.size + 4 <= End(m)
  <1>1. m.at \in Addr /\ m.size \in Nat /\ m.size < 32768
    <2>1. m.at \in Addr /\ m.size \in Sizes
      OBVIOUS
    <2>2. QED BY <2>1, SizeOf
  <1>2. m.at \in Nat /\ m.at % 4 = 0 /\ m.at < Size
    BY <1>1, MsgQueueAssumption DEF Addr, MsgQueueAssumption
  <1>3. Need(m.size) \in Nat /\ Need(m.size) % 4 = 0 /\ Need(m.size) >= m.size + 4
    BY <1>1, NeedOf
  <1>4. m.at + Need(m.size) \in Nat /\ (m.at + Need(m.size)) % 4 = 0
    BY <1>2, <1>3, Fours
  <1>5. QED BY <1>1, <1>2, <1>3, <1>4 DEF End

\* The same of the messages in the queue.
LEMMA Ends ==
    ASSUME TypeOK, NEW i \in 1..Len(msgs)
    PROVE  /\ msgs[i] \in [at : Addr, size : Sizes, done : BOOLEAN]
           /\ msgs[i].at \in Nat /\ msgs[i].at % 4 = 0 /\ msgs[i].at < Size
           /\ msgs[i].size \in Nat /\ msgs[i].size < 32768
           /\ End(msgs[i]) \in Nat /\ End(msgs[i]) % 4 = 0
           /\ msgs[i].at + msgs[i].size + 4 <= End(msgs[i])
  <1>1. msgs[i] \in [at : Addr, size : Sizes, done : BOOLEAN]
    BY ElementOfSeq DEF TypeOK
  <1>2. QED BY <1>1, EndOf

\* The initial state.
LEMMA InitInv == Init => RingInv
  BY MsgQueueAssumption
  DEF Init, RingInv, TypeOK, Layout, Bounds, Aligned, Chain, Placed, Ordered,
      HeadersKept, MsgQueueAssumption, Data

-----------------------------------------------------------------------------
(* Allocation *)

\* Where a message is put: behind the last one, or at the base.
LEMMA Room ==
    ASSUME RingInv, NEW n \in Nat, n >= 4, n % 4 = 0, Fits(n)
    PROVE  /\ At(n) \in Nat /\ At(n) % 4 = 0 /\ At(n) + n <= Size
           /\ msgs = <<>> => At(n) = 0 /\ ~AtBase(n)
           /\ msgs # <<>> /\ wrap = 0 /\ ~AtBase(n) => At(n) = tail
           /\ wrap # 0 => At(n) = tail /\ tail + n <= head /\ ~AtBase(n)
           /\ AtBase(n) => At(n) = 0 /\ n <= head /\ head < tail /\ wrap = 0
  <1>1. head \in Nat /\ tail \in Nat /\ wrap \in Nat /\ tail % 4 = 0 /\ Bounds
    BY DEF RingInv, TypeOK, Layout, Aligned
  <1>2. Size \in Nat
    BY MsgQueueAssumption DEF MsgQueueAssumption
  <1>3. CASE AtBase(n)
    BY <1>1, <1>2, <1>3 DEF AtBase, At, Bounds
  <1>4. CASE ~AtBase(n)
    <2>1. AtTail(n) /\ At(n) = tail
      BY <1>4 DEF Fits, At
    <2>2. QED BY <1>1, <1>2, <1>4, <2>1 DEF AtTail, Bounds
  <1>5. QED BY <1>3, <1>4

\* The queue after an allocation.
LEMMA Appended ==
    ASSUME TypeOK, NEW size \in Sizes, Alloc(size), NEW at, at = At(Need(size)),
           at \in Addr
    PROVE  /\ Len(msgs') = Len(msgs) + 1 /\ msgs' # <<>>
           /\ \A i \in 1..Len(msgs) : msgs'[i] = msgs[i]
           /\ msgs'[Len(msgs) + 1] = Message(at, size, FALSE)
           /\ msgs' \in Seq([at : Addr, size : Sizes, done : BOOLEAN])
  <1>1. msgs \in Seq([at : Addr, size : Sizes, done : BOOLEAN])
    BY DEF TypeOK
  <1>2. Message(at, size, FALSE) \in [at : Addr, size : Sizes, done : BOOLEAN]
    BY DEF Message
  <1>3. msgs' = Append(msgs, Message(at, size, FALSE))
    BY DEF Alloc
  <1>4. QED
    <2>. DEFINE M == [at : Addr, size : Sizes, done : BOOLEAN]
                m == Message(at, size, FALSE)
    <2>1. msgs \in Seq(M) /\ m \in M /\ msgs' = Append(msgs, m)
      BY <1>1, <1>2, <1>3
    <2>. HIDE DEF M, m
    <2>2. /\ msgs' \in Seq(M) /\ msgs' # <<>>
          /\ Len(msgs') = Len(msgs) + 1
          /\ \A i \in 1..Len(msgs) : msgs'[i] = msgs[i]
          /\ msgs'[Len(msgs) + 1] = m
      BY <2>1, OneMore
    <2>3. QED BY <2>2 DEF M, m

\* Allocation keeps the invariant.
LEMMA AllocInv ==
    ASSUME RingInv, NEW size \in Sizes, Alloc(size)
    PROVE  RingInv'
  <1>. DEFINE n == Need(size)
              at == At(Need(size))
              new == Message(at, size, FALSE)
              L == Len(msgs)
  <1>1. size \in Nat /\ size < 32768 /\ Size \in Nat
    BY MsgQueueAssumption DEF MsgQueueAssumption
  <1>2. n \in Nat /\ n % 4 = 0 /\ n >= size + 4
    BY <1>1, NeedOf
  <1>3. Fits(n) /\ head' = head /\ tail' = at + n
        /\ wrap' = IF AtBase(n) THEN tail ELSE wrap
    BY DEF Alloc, Reserve
  <1>4. /\ at \in Nat /\ at % 4 = 0 /\ at + n <= Size
        /\ msgs = <<>> => at = 0 /\ ~AtBase(n)
        /\ msgs # <<>> /\ wrap = 0 /\ ~AtBase(n) => at = tail
        /\ wrap # 0 => at = tail /\ tail + n <= head /\ ~AtBase(n)
        /\ AtBase(n) => at = 0 /\ n <= head /\ head < tail /\ wrap = 0
    BY <1>1, <1>2, <1>3, Room
  <1>5. at \in Addr
    BY <1>1, <1>2, <1>4 DEF Addr
  <1>6. /\ Len(msgs') = L + 1 /\ msgs' # <<>> /\ L \in Nat
        /\ \A i \in 1..L : msgs'[i] = msgs[i]
        /\ msgs'[L + 1] = new
        /\ msgs' \in Seq([at : Addr, size : Sizes, done : BOOLEAN])
    <2>1. TypeOK
      BY DEF RingInv
    <2>2. L \in Nat
      BY <2>1, LenProperties DEF TypeOK
    <2>3. QED BY <1>5, <2>1, <2>2, Appended
  <1>7. new.at = at /\ new.size = size /\ ~new.done /\ End(new) = at + n
    BY DEF Message, End
  <1>8. /\ head \in Nat /\ tail \in Nat /\ wrap \in Nat
        /\ Bounds /\ Aligned /\ Chain /\ Placed /\ Ordered
    BY DEF RingInv, TypeOK, Layout
  <1>9. \A i \in 1..L : /\ msgs[i].at \in Nat /\ End(msgs[i]) \in Nat
                         /\ msgs[i].at + 4 <= End(msgs[i])
    <2>1. TypeOK
      BY DEF RingInv
    <2>2. SUFFICES ASSUME NEW i \in 1..L
                   PROVE  /\ msgs[i].at \in Nat /\ End(msgs[i]) \in Nat
                          /\ msgs[i].at + 4 <= End(msgs[i])
      OBVIOUS
    <2>3. msgs[i].size \in Nat /\ msgs[i].at \in Nat /\ End(msgs[i]) \in Nat
          /\ msgs[i].at + msgs[i].size + 4 <= End(msgs[i])
      BY <2>1, Ends
    <2>4. QED BY <2>3
  <1>10. (msgs = <<>> <=> L = 0) /\ L = Len(msgs)
    BY EmptySeq DEF RingInv, TypeOK
  <1>20. L \in Nat
    BY <1>6
  <1>11. TypeOK'
    <2>1. mem' = [mem EXCEPT ![at] = [size |-> size, done |-> FALSE]]
      BY DEF Alloc
    <2>2. mem' \in [Addr -> [size : Sizes \cup {0}, done : BOOLEAN]]
      BY <2>1, <1>5 DEF RingInv, TypeOK
    <2>3. count' \in Int /\ allocs' \in Nat
      BY <1>1 DEF Alloc, Reserve, Counted, RingInv, TypeOK
    <2>4. head' \in Nat /\ tail' \in Nat /\ wrap' \in Nat
      BY <1>2, <1>3, <1>4, <1>8
    <2>5. QED BY <1>6, <2>2, <2>3, <2>4 DEF TypeOK
  <1>21. mem' = [mem EXCEPT ![at] = [size |-> size, done |-> FALSE]]
    BY DEF Alloc
  <1>22. new = [at |-> at, size |-> size, done |-> FALSE]
    BY DEF Message
  <1>. HIDE DEF n, at, new, L
  <1>12. Bounds'
    BY <1>1, <1>2, <1>3, <1>4, <1>6, <1>8 DEF Bounds
  <1>13. Aligned'
    BY <1>2, <1>3, <1>4, <1>8, Fours DEF Aligned
  <1>14. Placed'
    <2>1. SUFFICES ASSUME NEW i \in 1..L + 1
                   PROVE  \/ head' <= msgs'[i].at /\ End(msgs'[i]) <= Limit'
                          \/ wrap' # 0 /\ msgs'[i].at < head' /\ End(msgs'[i]) <= tail'
      BY <1>6 DEF Placed
    <2>2. CASE i = L + 1
      <3>1. msgs'[i].at = at /\ End(msgs'[i]) = tail'
        BY <2>2, <1>3, <1>6, <1>7
      <3>2. CASE wrap # 0
        BY <3>1, <3>2, <1>2, <1>3, <1>4, <1>8 DEF Limit, Bounds
      <3>3. CASE AtBase(n)
        BY <3>1, <3>3, <1>2, <1>3, <1>4, <1>8 DEF Limit, Bounds
      <3>4. CASE wrap = 0 /\ ~AtBase(n)
        <4>1. head <= at
          BY <3>4, <1>4, <1>8 DEF Bounds
        <4>2. QED BY <3>1, <3>4, <4>1, <1>2, <1>3, <1>4, <1>8 DEF Limit
      <3>5. QED BY <3>2, <3>3, <3>4
    <2>3. CASE i \in 1..L
      <3>1. \/ head <= msgs[i].at /\ End(msgs[i]) <= Limit
            \/ wrap # 0 /\ msgs[i].at < head /\ End(msgs[i]) <= tail
        BY <2>3, <1>8, <1>10 DEF Placed
      <3>2. msgs # <<>>
        BY <2>3, <1>10
      <3>3. QED BY <2>3, <3>1, <3>2, <1>2, <1>3, <1>4, <1>6, <1>8, <1>9 DEF Limit
    <2>4. QED BY <2>2, <2>3, <1>6
  <1>15. Ordered'
    <2>1. SUFFICES ASSUME NEW i \in 1..L + 1, NEW j \in 1..L + 1, i < j
                   PROVE  /\ msgs'[j].at >= head' =>
                                msgs'[i].at >= head' /\ End(msgs'[i]) <= msgs'[j].at
                          /\ msgs'[i].at < head' /\ msgs'[j].at < head' =>
                                End(msgs'[i]) <= msgs'[j].at
      BY <1>6 DEF Ordered
    <2>2. i \in 1..L
      BY <2>1, <1>20
    <2>3. msgs # <<>>
      BY <2>2, <1>10
    <2>4. CASE j \in 1..L
      BY <2>1, <2>2, <2>4, <1>3, <1>6, <1>8, <1>10 DEF Ordered
    <2>5. CASE j = L + 1
      <3>1. msgs'[j].at = at /\ msgs'[i] = msgs[i]
        BY <2>2, <2>5, <1>6, <1>7
      <3>2. \/ head <= msgs[i].at /\ End(msgs[i]) <= Limit
            \/ wrap # 0 /\ msgs[i].at < head /\ End(msgs[i]) <= tail
        BY <2>2, <1>8, <1>10 DEF Placed
      <3>3. msgs[i].at \in Nat /\ End(msgs[i]) \in Nat
            /\ msgs[i].at + 4 <= End(msgs[i])
        BY <2>2, <1>9
      <3>4. CASE wrap # 0
        BY <3>1, <3>2, <3>3, <3>4, <1>1, <1>2, <1>3, <1>4, <1>8
      <3>5. CASE AtBase(n)
        BY <3>1, <3>2, <3>3, <3>5, <1>1, <1>2, <1>3, <1>4, <1>8
      <3>6. CASE wrap = 0 /\ ~AtBase(n)
        BY <2>3, <3>1, <3>2, <3>3, <3>6, <1>2, <1>3, <1>4, <1>8
        DEF Limit, Bounds
      <3>7. QED BY <3>4, <3>5, <3>6
    <2>6. QED BY <2>1, <2>4, <2>5, <1>20
  <1>16. Chain'
    <2>1. msgs'[1].at = head'
      <3>1. CASE L = 0
        <4>1. msgs'[1].at = at /\ at = 0
          BY <3>1, <1>4, <1>6, <1>7, <1>10
        <4>2. head = 0
          BY <3>1, <1>8, <1>10 DEF Bounds
        <4>3. QED BY <4>1, <4>2, <1>3
      <3>2. CASE L # 0
        BY <3>2, <1>3, <1>6, <1>8, <1>10 DEF Chain
      <3>3. QED BY <3>1, <3>2
    <2>2. End(msgs'[Len(msgs')]) = tail'
      BY <1>3, <1>6, <1>7
    <2>3. wrap' # 0 => msgs'[Len(msgs')].at < head'
      <3>1. msgs'[Len(msgs')].at = at
        BY <1>6, <1>7
      <3>2. wrap' # 0 => wrap # 0 \/ AtBase(n)
        BY <1>3
      <3>3. wrap # 0 \/ AtBase(n) => at < head
        BY <1>1, <1>2, <1>4, <1>8
      <3>4. QED BY <3>1, <3>2, <3>3, <1>3
    <2>4. ASSUME NEW i \in 1..L
          PROVE  msgs'[i + 1].at = Behind(msgs[i])'
      <3>1. msgs # <<>> /\ msgs'[i] = msgs[i]
        BY <1>6, <1>10
      <3>2. \/ head <= msgs[i].at /\ End(msgs[i]) <= Limit
            \/ wrap # 0 /\ msgs[i].at < head /\ End(msgs[i]) <= tail
        BY <1>8, <1>10 DEF Placed
      <3>3. CASE i = L
        <4>1. End(msgs[i]) = tail /\ msgs'[i + 1].at = at
          BY <3>1, <3>3, <1>6, <1>7, <1>8, <1>10 DEF Chain
        <4>2. wrap # 0 => tail < wrap
          BY <1>8 DEF Bounds
        <4>3. CASE AtBase(n)
          <5>1. wrap' = tail /\ tail # 0
            BY <4>3, <1>3, <1>4, <1>8
          <5>2. QED BY <3>1, <4>1, <4>3, <5>1, <1>4 DEF Behind
        <4>4. CASE ~AtBase(n)
          <5>1. wrap' = wrap /\ at = tail
            BY <3>1, <4>4, <1>3, <1>4
          <5>2. wrap # 0 => tail # wrap
            BY <4>2, <1>8
          <5>3. QED BY <3>1, <4>1, <5>1, <5>2 DEF Behind
        <4>5. QED BY <4>3, <4>4
      <3>4. CASE i # L
        <4>1. i < L /\ i + 1 \in 1..L /\ msgs'[i + 1] = msgs[i + 1]
          BY <3>4, <1>6
        <4>2. msgs[i + 1].at = Behind(msgs[i])
          BY <4>1, <1>8, <1>10 DEF Chain
        <4>3. CASE AtBase(n)
          <5>1. wrap = 0 /\ msgs[i + 1].at = End(msgs[i])
            BY <4>2, <4>3, <1>4 DEF Behind
          <5>2. End(msgs[i + 1]) <= tail
            <6>1. \/ head <= msgs[i + 1].at /\ End(msgs[i + 1]) <= Limit
                  \/ wrap # 0 /\ msgs[i + 1].at < head /\ End(msgs[i + 1]) <= tail
              BY <4>1, <1>8, <1>10 DEF Placed
            <6>2. QED BY <5>1, <6>1 DEF Limit
          <5>3. End(msgs[i]) < tail
            BY <4>1, <5>1, <5>2, <1>8, <1>9
          <5>4. wrap' = tail
            BY <4>3, <1>3
          <5>5. End(msgs[i]) # tail
            BY <5>3, <1>8, <1>9
          <5>6. QED BY <3>1, <4>1, <5>1, <5>4, <5>5 DEF Behind
        <4>4. CASE ~AtBase(n)
          <5>1. wrap' = wrap
            BY <4>4, <1>3
          <5>2. QED BY <3>1, <4>1, <4>2, <5>1 DEF Behind
        <4>5. QED BY <4>3, <4>4
      <3>5. QED BY <3>3, <3>4
    <2>5. ASSUME NEW i \in 1..Len(msgs'), i < Len(msgs')
          PROVE  msgs'[i + 1].at = Behind(msgs[i])'
      <3>1. i \in 1..L
        BY <2>5, <1>6, <1>20
      <3>2. QED BY <3>1, <2>4
    <2>6. QED BY <2>1, <2>2, <2>3, <2>5 DEF Chain
  <1>17. HeadersKept'
    <2>1. mem' = [mem EXCEPT ![at] = [size |-> size, done |-> FALSE]]
      BY <1>21
    <2>2. ASSUME NEW i \in 1..L + 1
          PROVE  mem'[msgs'[i].at] = [size |-> msgs'[i].size, done |-> msgs'[i].done]
      <3>1. CASE i = L + 1
        <4>1. msgs'[i].at = at /\ msgs'[i].size = size /\ msgs'[i].done = FALSE
          BY <3>1, <1>6, <1>22
        <4>2. mem'[at] = [size |-> size, done |-> FALSE]
          BY <2>1, <1>5 DEF RingInv, TypeOK
        <4>3. QED BY <4>1, <4>2
      <3>2. CASE i \in 1..L
        <4>1. msgs'[i] = msgs[i] /\ i < L + 1 /\ L + 1 \in 1..L + 1
          BY <3>2, <1>6
        <4>2. /\ at >= head => End(msgs[i]) <= at
              /\ msgs[i].at < head /\ at < head => End(msgs[i]) <= at
          <5>1. msgs'[L + 1].at = at /\ Len(msgs') = L + 1
            BY <1>6, <1>7
          <5>2. i \in 1..Len(msgs') /\ L + 1 \in 1..Len(msgs')
            BY <4>1, <5>1
          <5>3. QED BY <4>1, <5>1, <5>2, <1>3, <1>15 DEF Ordered
        <4>3. msgs[i].at # at
          BY <3>2, <4>2, <1>4, <1>8, <1>9
        <4>4. msgs[i].at \in Addr
          <5>1. msgs[i] \in [at : Addr, size : Sizes, done : BOOLEAN]
            BY <3>2, <1>10, Ends DEF RingInv
          <5>2. QED BY <5>1
        <4>5. mem'[msgs[i].at] = mem[msgs[i].at]
          BY <2>1, <4>3, <4>4 DEF RingInv, TypeOK
        <4>6. QED BY <3>2, <4>1, <4>5, <1>10 DEF RingInv, HeadersKept
      <3>3. QED BY <3>1, <3>2, <1>6
    <2>3. QED BY <2>2, <1>6 DEF HeadersKept
  <1>18. QED BY <1>11, <1>12, <1>13, <1>14, <1>15, <1>16, <1>17 DEF RingInv, Layout

-----------------------------------------------------------------------------
(* Completion *)

\* Two messages lie apart.
LEMMA Apart ==
    ASSUME RingInv, NEW i \in 1..Len(msgs), NEW j \in 1..Len(msgs), i < j
    PROVE  End(msgs[i]) <= msgs[j].at \/ End(msgs[j]) <= msgs[i].at
  <1>1. /\ msgs[i].at \in Nat /\ End(msgs[i]) \in Nat
        /\ msgs[j].at \in Nat /\ End(msgs[j]) \in Nat
    BY Ends DEF RingInv
  <1>2. /\ msgs[j].at >= head => End(msgs[i]) <= msgs[j].at
        /\ msgs[i].at < head /\ msgs[j].at < head => End(msgs[i]) <= msgs[j].at
    BY DEF RingInv, Layout, Ordered
  <1>3. \/ head <= msgs[j].at
        \/ wrap # 0 /\ End(msgs[j]) <= tail
    BY DEF RingInv, Layout, Placed
  <1>4. wrap # 0 => tail <= head
    BY DEF RingInv, Layout, Bounds
  <1>5. head \in Nat /\ tail \in Nat
    BY DEF RingInv, TypeOK
  <1>6. QED BY <1>1, <1>2, <1>3, <1>4, <1>5

\* Completion keeps the invariant.
LEMMA CompleteInv ==
    ASSUME RingInv, NEW k \in 1..Len(msgs), Complete(k)
    PROVE  RingInv'
  <1>. DEFINE M == [at : Addr, size : Sizes, done : BOOLEAN]
              m == msgs[k]
  <1>1. msgs \in Seq(M) /\ m \in M
    BY Ends DEF RingInv, TypeOK
  <1>2. /\ msgs' = [msgs EXCEPT ![k] = Message(m.at, m.size, TRUE)]
        /\ head' = head /\ tail' = tail /\ wrap' = wrap
        /\ count' = count /\ allocs' = allocs
    BY DEF Complete
  <1>3. /\ msgs' \in Seq(M) /\ Len(msgs') = Len(msgs)
        /\ \A i \in 1..Len(msgs) : i # k => msgs'[i] = msgs[i]
        /\ msgs'[k] = [at |-> m.at, size |-> m.size, done |-> TRUE]
    <2>1. [at |-> m.at, size |-> m.size, done |-> TRUE] \in M
      BY <1>1
    <2>2. msgs' = [msgs EXCEPT ![k] = [at |-> m.at, size |-> m.size, done |-> TRUE]]
      BY <1>2 DEF Message
    <2>. HIDE DEF M, m
    <2>3. QED BY <1>1, <2>1, <2>2, ExceptSeq
  <1>4. \A i \in 1..Len(msgs) : /\ msgs'[i].at = msgs[i].at
                                 /\ msgs'[i].size = msgs[i].size
                                 /\ End(msgs'[i]) = End(msgs[i])
    BY <1>3 DEF End
  <1>5. m.at \in Addr /\ mem[m.at] = [size |-> m.size, done |-> m.done]
    BY <1>1 DEF RingInv, HeadersKept
  <1>6. mem' = [a \in Addr |->
                  IF a = m.at THEN [size |-> m.size, done |-> TRUE]
                  ELSE IF a \in Inside(m) THEN Data ELSE mem[a]]
    <2>1. mem' = Written(m, mem[m.at].size)
      BY DEF Complete
    <2>2. QED BY <2>1, <1>5 DEF Written
  <1>7. TypeOK'
    <2>1. Data \in [size : Sizes \cup {0}, done : BOOLEAN]
      BY DEF Data
    <2>2. [size |-> m.size, done |-> TRUE] \in [size : Sizes \cup {0}, done : BOOLEAN]
      BY <1>1
    <2>3. mem \in [Addr -> [size : Sizes \cup {0}, done : BOOLEAN]]
      BY DEF RingInv, TypeOK
    <2>4. mem' \in [Addr -> [size : Sizes \cup {0}, done : BOOLEAN]]
      BY <1>6, <2>1, <2>2, <2>3
    <2>5. QED BY <1>2, <1>3, <2>4 DEF RingInv, TypeOK
  <1>8. msgs = <<>> <=> msgs' = <<>>
    BY <1>1, <1>3, EmptySeq
  <1>9. Len(msgs) \in Nat /\ (msgs # <<>> => Len(msgs) >= 1)
    BY <1>1, EmptySeq, LenProperties
  <1>10. Bounds' /\ Aligned'
    BY <1>2, <1>8 DEF RingInv, Layout, Bounds, Aligned
  <1>11. Placed'
    BY <1>2, <1>3, <1>4 DEF RingInv, Layout, Placed, Limit
  <1>12. Ordered'
    <2>1. SUFFICES ASSUME NEW i \in 1..Len(msgs), NEW j \in 1..Len(msgs), i < j
                   PROVE  /\ msgs'[j].at >= head' =>
                                msgs'[i].at >= head' /\ End(msgs'[i]) <= msgs'[j].at
                          /\ msgs'[i].at < head' /\ msgs'[j].at < head' =>
                                End(msgs'[i]) <= msgs'[j].at
      BY <1>3 DEF Ordered
    <2>2. /\ msgs[j].at >= head => msgs[i].at >= head /\ End(msgs[i]) <= msgs[j].at
          /\ msgs[i].at < head /\ msgs[j].at < head => End(msgs[i]) <= msgs[j].at
      BY <2>1 DEF RingInv, Layout, Ordered
    <2>3. QED BY <2>2, <1>2, <1>4
  <1>13. Chain'
    <2>1. Chain
      BY DEF RingInv, Layout
    <2>2. \A i \in 1..Len(msgs) : Behind(msgs[i])' = Behind(msgs[i])
      <3>1. SUFFICES ASSUME NEW i \in 1..Len(msgs)
                     PROVE  Behind(msgs[i])' = Behind(msgs[i])
        OBVIOUS
      <3>2. End(msgs[i])' = End(msgs[i])
        BY <1>4
      <3>3. QED BY <3>2, <1>2 DEF Behind
    <2>3. msgs' # <<>> => msgs'[1].at = head' /\ End(msgs'[Len(msgs')]) = tail'
      <3>1. SUFFICES ASSUME msgs' # <<>>
                     PROVE  msgs'[1].at = head' /\ End(msgs'[Len(msgs')]) = tail'
        OBVIOUS
      <3>2. 1 \in 1..Len(msgs) /\ Len(msgs) \in 1..Len(msgs) /\ msgs # <<>>
        BY <3>1, <1>8, <1>9
      <3>3. msgs[1].at = head /\ End(msgs[Len(msgs)]) = tail
        BY <2>1, <3>2 DEF Chain
      <3>4. QED BY <3>2, <3>3, <1>2, <1>3, <1>4
    <2>4. msgs' # <<>> /\ wrap' # 0 => msgs'[Len(msgs')].at < head'
      <3>1. SUFFICES ASSUME msgs' # <<>>, wrap' # 0
                     PROVE  msgs'[Len(msgs')].at < head'
        OBVIOUS
      <3>2. Len(msgs) \in 1..Len(msgs) /\ msgs # <<>>
        BY <3>1, <1>8, <1>9
      <3>3. msgs[Len(msgs)].at < head
        BY <2>1, <3>1, <3>2, <1>2 DEF Chain
      <3>4. QED BY <3>2, <3>3, <1>2, <1>3, <1>4
    <2>5. ASSUME NEW i \in 1..Len(msgs'), i < Len(msgs')
          PROVE  msgs'[i + 1].at = Behind(msgs[i])'
      <3>1. i \in 1..Len(msgs) /\ i + 1 \in 1..Len(msgs) /\ i < Len(msgs)
        BY <2>5, <1>3, <1>9
      <3>2. msgs[i + 1].at = Behind(msgs[i])
        BY <2>1, <3>1 DEF Chain
      <3>3. QED BY <2>2, <3>1, <3>2, <1>4
    <2>6. QED BY <2>3, <2>4, <2>5 DEF Chain
  <1>14. HeadersKept'
    <2>1. ASSUME NEW i \in 1..Len(msgs)
          PROVE  mem'[msgs'[i].at] = [size |-> msgs'[i].size, done |-> msgs'[i].done]
      <3>1. CASE i = k
        BY <3>1, <1>3, <1>5, <1>6
      <3>2. CASE i # k
        <4>1. msgs[i] \in M /\ msgs[i].at \in Nat /\ msgs[i].size \in Nat
              /\ End(msgs[i]) \in Nat
              /\ msgs[i].at + msgs[i].size + 4 <= End(msgs[i])
          BY Ends DEF RingInv
        <4>2. m.at \in Nat /\ m.size \in Nat /\ End(m) \in Nat
              /\ m.at + m.size + 4 <= End(m)
          BY Ends DEF RingInv
        <4>3. End(m) <= msgs[i].at \/ End(msgs[i]) <= m.at
          <5>1. CASE i < k
            BY <5>1, Apart
          <5>2. CASE k < i
            BY <5>2, Apart
          <5>3. QED BY <3>2, <5>1, <5>2
        <4>4. msgs[i].at # m.at /\ ~(m.at < msgs[i].at /\ msgs[i].at < m.at + 4 + m.size)
          <5>. HIDE DEF m
          <5>1. QED BY <4>1, <4>2, <4>3
        <4>5. msgs[i].at \in Addr /\ msgs[i].at \notin Inside(m)
          BY <4>1, <4>4 DEF Inside, Hdr
        <4>6. mem'[msgs[i].at] = mem[msgs[i].at]
          BY <4>4, <4>5, <1>6
        <4>7. QED BY <3>2, <4>6, <1>3 DEF RingInv, HeadersKept
      <3>3. QED BY <3>1, <3>2
    <2>2. QED BY <2>1, <1>3 DEF HeadersKept
  <1>15. QED BY <1>7, <1>10, <1>11, <1>12, <1>13, <1>14 DEF RingInv, Layout

-----------------------------------------------------------------------------
(* Release *)

\* What is known of a sequence without its first element.
LEMMA OneLess ==
    ASSUME NEW A, NEW s \in Seq(A), s # <<>>
    PROVE  /\ Tail(s) \in Seq(A) /\ Len(s) \in Nat /\ Len(s) >= 1
           /\ Len(Tail(s)) = Len(s) - 1
           /\ \A i \in 1..Len(s) - 1 : Tail(s)[i] = s[i + 1]
  BY HeadTailProperties, LenProperties, EmptySeq

\* Release keeps the invariant.
LEMMA FreeInv == ASSUME RingInv, Free PROVE RingInv'
  <1>. DEFINE M == [at : Addr, size : Sizes, done : BOOLEAN]
              L == Len(msgs)
              m == msgs[1]
              h == End(msgs[1])
  <1>1. /\ head \in Nat /\ tail \in Nat /\ wrap \in Nat /\ msgs \in Seq(M)
        /\ Bounds /\ Aligned /\ Chain /\ Placed /\ Ordered
    BY DEF RingInv, TypeOK, Layout
  <1>2. msgs # <<>>
    BY <1>1 DEF Free, Peek, Bounds
  <1>3. /\ msgs' = Tail(msgs) /\ msgs' \in Seq(M) /\ L \in Nat /\ L >= 1
        /\ Len(msgs') = L - 1 /\ L = Len(msgs)
        /\ \A i \in 1..L - 1 : msgs'[i] = msgs[i + 1]
    <2>1. msgs' = Tail(msgs)
      BY <1>2 DEF Free
    <2>. HIDE DEF M
    <2>2. QED BY <2>1, <1>1, <1>2, OneLess
  <1>4. \A i \in 1..L : /\ msgs[i].at \in Nat /\ End(msgs[i]) \in Nat
                         /\ msgs[i].at < End(msgs[i]) /\ End(msgs[i]) % 4 = 0
    <2>1. SUFFICES ASSUME NEW i \in 1..L
                   PROVE  /\ msgs[i].at \in Nat /\ End(msgs[i]) \in Nat
                          /\ msgs[i].at < End(msgs[i]) /\ End(msgs[i]) % 4 = 0
      OBVIOUS
    <2>2. /\ msgs[i].size \in Nat /\ msgs[i].at \in Nat /\ End(msgs[i]) \in Nat
          /\ msgs[i].at + msgs[i].size + 4 <= End(msgs[i]) /\ End(msgs[i]) % 4 = 0
      BY Ends DEF RingInv
    <2>3. QED BY <2>2
  <1>5. m.at = head /\ head < h /\ h \in Nat /\ h % 4 = 0
    BY <1>1, <1>2, <1>3, <1>4 DEF Chain
  <1>6. mem[head].size = m.size /\ h = head + Need(mem[head].size)
    <2>1. 1 \in 1..Len(msgs)
      BY <1>3
    <2>2. mem[msgs[1].at] = [size |-> msgs[1].size, done |-> msgs[1].done]
      BY <2>1 DEF RingInv, HeadersKept
    <2>3. mem[head].size = msgs[1].size
      BY <2>2, <1>5
    <2>4. End(msgs[1]) = head + Need(msgs[1].size)
      BY <1>5 DEF End
    <2>5. QED BY <2>3, <2>4
  <1>7. /\ mem' = mem /\ allocs' = allocs
        /\ count' = count - m.size /\ Advance(h)
    BY <1>6 DEF Free
  <1>8. \A i \in 1..L :
            \/ head <= msgs[i].at /\ End(msgs[i]) <= Limit
            \/ wrap # 0 /\ msgs[i].at < head /\ End(msgs[i]) <= tail
    BY <1>1, <1>3 DEF Placed
  <1>9. \A i, j \in 1..L : i < j =>
            /\ msgs[j].at >= head => msgs[i].at >= head /\ End(msgs[i]) <= msgs[j].at
            /\ msgs[i].at < head /\ msgs[j].at < head => End(msgs[i]) <= msgs[j].at
    BY <1>1 DEF Ordered
  <1>10. h <= Limit
    <2>1. 1 \in 1..L
      BY <1>3
    <2>2. \/ head <= msgs[1].at /\ End(msgs[1]) <= Limit
          \/ wrap # 0 /\ msgs[1].at < head /\ End(msgs[1]) <= tail
      BY <2>1, <1>8
    <2>. HIDE DEF h
    <2>3. QED BY <2>2, <1>1, <1>5 DEF h
  <1>11. L >= 2 => msgs[2].at = Behind(m) /\ 2 \in 1..L
    BY <1>1, <1>3 DEF Chain
  <1>12. End(msgs[L]) = tail /\ (wrap # 0 => msgs[L].at < head)
    BY <1>1, <1>2 DEF Chain
  <1>13. HeadersKept'
    <2>1. ASSUME NEW i \in 1..L - 1
          PROVE  mem[msgs'[i].at] = [size |-> msgs'[i].size, done |-> msgs'[i].done]
      <3>1. i + 1 \in 1..L /\ msgs'[i] = msgs[i + 1]
        BY <1>3
      <3>2. QED BY <3>1 DEF RingInv, HeadersKept
    <2>2. QED BY <2>1, <1>3, <1>7 DEF HeadersKept
  <1>14. m.size \in Nat
    BY <1>3, Ends DEF RingInv
  <1>15. TypeOK' /\ Aligned'
    <2>1. count' \in Int
      BY <1>7, <1>14 DEF RingInv, TypeOK
    <2>2. /\ head' \in Nat /\ tail' \in Nat /\ wrap' \in Nat
          /\ head' % 4 = 0 /\ tail' % 4 = 0 /\ wrap' % 4 = 0
      BY <1>1, <1>5, <1>7 DEF Advance, Aligned
    <2>3. QED BY <2>1, <2>2, <1>3, <1>7 DEF RingInv, TypeOK, Aligned
  <1>. HIDE DEF M, L, m, h
  \* every message left, in terms of its place before
  <1>16. ASSUME NEW i \in 1..L - 1
         PROVE  i + 1 \in 1..L /\ 1 < i + 1 /\ msgs'[i] = msgs[i + 1]
    BY <1>3
  <1>17. CASE L = 1
    <2>1. wrap = 0 /\ h = tail
      BY <1>1, <1>5, <1>12, <1>17 DEF m, h
    <2>2. head' = 0 /\ tail' = 0 /\ wrap' = 0
      BY <2>1, <1>1, <1>7 DEF Advance
    <2>3. msgs' = <<>> /\ Len(msgs') = 0
      BY <1>3, <1>17, EmptySeq
    <2>4. Bounds' /\ Chain' /\ Placed' /\ Ordered'
      BY <2>2, <2>3, MsgQueueAssumption
      DEF Bounds, Chain, Placed, Ordered, MsgQueueAssumption
    <2>5. QED BY <2>4, <1>13, <1>15 DEF RingInv, Layout
  <1>18. CASE L >= 2
    <2>1. msgs' # <<>>
      <3>1. Len(msgs') # 0
        BY <1>3, <1>18
      <3>2. QED BY <3>1, <1>3, EmptySeq
    <2>2. msgs'[1] = msgs[2] /\ msgs'[Len(msgs')] = msgs[L]
      <3>1. 1 \in 1..L - 1 /\ L - 1 \in 1..L - 1 /\ L - 1 + 1 = L
        BY <1>3, <1>18
      <3>2. QED BY <3>1, <1>3
    <2>3. ASSUME NEW i \in 1..L - 1
          PROVE  msgs'[i].at >= head => msgs'[i].at >= h
      <3>1. 1 \in 1..L /\ i + 1 \in 1..L /\ 1 < i + 1
        BY <1>3, <1>16
      <3>2. msgs[i + 1].at >= head => End(msgs[1]) <= msgs[i + 1].at
        BY <3>1, <1>9
      <3>3. QED BY <3>2, <1>16 DEF h
    <2>4. ASSUME NEW i \in 1..L - 1, NEW j \in 1..L - 1, i < j
          PROVE  /\ msgs'[j].at >= head =>
                        msgs'[i].at >= head /\ End(msgs'[i]) <= msgs'[j].at
                 /\ msgs'[i].at < head /\ msgs'[j].at < head =>
                        End(msgs'[i]) <= msgs'[j].at
      <3>1. i + 1 \in 1..L /\ j + 1 \in 1..L /\ i + 1 < j + 1
        BY <1>16, <2>4
      <3>2. QED BY <3>1, <1>9, <1>16
    <2>5. ASSUME NEW i \in 1..L - 1
          PROVE  /\ msgs'[i].at \in Nat /\ End(msgs'[i]) \in Nat
                 /\ msgs'[i].at < End(msgs'[i])
                 /\ \/ head <= msgs'[i].at /\ End(msgs'[i]) <= Limit
                    \/ wrap # 0 /\ msgs'[i].at < head /\ End(msgs'[i]) <= tail
      BY <1>4, <1>8, <1>16
    <2>6. ASSUME NEW i \in 1..L - 1, i < L - 1
          PROVE  msgs'[i + 1].at = Behind(msgs'[i])
      <3>1. i + 1 \in 1..L /\ i + 1 < L /\ i + 1 \in 1..L - 1
        BY <2>6, <1>3
      <3>2. msgs[i + 1 + 1].at = Behind(msgs[i + 1])
        BY <3>1, <1>1, <1>3 DEF Chain
      <3>3. QED BY <3>1, <3>2, <1>16
    <2>7. CASE h < Limit
      <3>1. head' = h /\ tail' = tail /\ wrap' = wrap
        BY <2>7, <1>1, <1>5, <1>7 DEF Advance, Limit
      <3>2. msgs[2].at = h
        BY <2>7, <1>5, <1>11, <1>18 DEF Behind, Limit, h, m
      <3>3. Bounds'
        BY <2>1, <2>7, <3>1, <1>1, <1>2, <1>5 DEF Bounds, Limit
      <3>4. Placed'
        <4>1. ASSUME NEW i \in 1..L - 1
              PROVE  \/ head' <= msgs'[i].at /\ End(msgs'[i]) <= Limit'
                     \/ wrap' # 0 /\ msgs'[i].at < head' /\ End(msgs'[i]) <= tail'
          BY <2>3, <2>5, <3>1, <1>1, <1>5 DEF Limit
        <4>2. QED BY <4>1, <1>3 DEF Placed
      <3>5. Ordered'
        <4>1. ASSUME NEW i \in 1..L - 1, NEW j \in 1..L - 1, i < j
              PROVE  /\ msgs'[j].at >= head' =>
                            msgs'[i].at >= head' /\ End(msgs'[i]) <= msgs'[j].at
                     /\ msgs'[i].at < head' /\ msgs'[j].at < head' =>
                            End(msgs'[i]) <= msgs'[j].at
          <5>1. /\ msgs'[j].at >= head =>
                        msgs'[i].at >= head /\ End(msgs'[i]) <= msgs'[j].at
                /\ msgs'[i].at < head /\ msgs'[j].at < head =>
                        End(msgs'[i]) <= msgs'[j].at
            BY <2>4, <4>1
          <5>2. QED BY <5>1, <2>3, <2>5, <3>1, <1>1, <1>5
        <4>2. QED BY <4>1, <1>3 DEF Ordered
      <3>6. Chain'
        <4>1. ASSUME NEW i \in 1..L - 1, i < L - 1
              PROVE  msgs'[i + 1].at = Behind(msgs[i])'
          <5>1. Behind(msgs[i])' = Behind(msgs'[i])
            BY <3>1 DEF Behind
          <5>2. QED BY <5>1, <2>6, <4>1
        <4>2. msgs'[1].at = head' /\ End(msgs'[Len(msgs')]) = tail'
          BY <2>2, <3>1, <3>2, <1>12
        <4>3. wrap' # 0 => msgs'[Len(msgs')].at < head'
          <5>1. L \in 1..L
            BY <1>3
          <5>2. msgs[L].at \in Nat
            BY <5>1, <1>4
          <5>3. QED BY <5>2, <2>2, <3>1, <1>1, <1>5, <1>12
        <4>4. QED BY <4>1, <4>2, <4>3, <1>3 DEF Chain
      <3>7. QED BY <3>3, <3>4, <3>5, <3>6, <1>13, <1>15 DEF RingInv, Layout
    <2>8. CASE h = Limit
      <3>1. wrap # 0
        <4>1. SUFFICES ASSUME wrap = 0 PROVE FALSE
          OBVIOUS
        <4>2. msgs[2].at = h /\ 2 \in 1..L
          BY <4>1, <1>11, <1>18 DEF Behind, m, h
        <4>3. End(msgs[2]) <= tail /\ msgs[2].at < End(msgs[2])
          BY <4>1, <4>2, <1>4, <1>8 DEF Limit
        <4>4. QED BY <4>1, <4>2, <4>3, <2>8, <1>1, <1>4, <1>5 DEF Limit
      <3>2. h = wrap /\ head' = 0 /\ tail' = tail /\ wrap' = 0
        BY <2>8, <3>1, <1>1, <1>7 DEF Advance, Limit
      <3>3. msgs[2].at = 0
        BY <3>1, <3>2, <1>11, <1>18 DEF Behind, m, h
      <3>4. tail <= head /\ head < wrap
        BY <3>1, <1>1 DEF Bounds
      <3>5. ASSUME NEW i \in 1..L - 1
            PROVE  msgs'[i].at < head /\ End(msgs'[i]) <= tail
        <4>1. msgs'[i].at >= head => msgs'[i].at >= wrap
          BY <2>3, <3>2
        <4>2. QED BY <4>1, <2>5, <3>1, <3>4, <1>1 DEF Limit
      <3>6. 1 \in 1..L - 1
        BY <1>3, <1>18
      <3>7. Bounds'
        <4>1. 0 < tail
          BY <3>5, <3>6, <2>5, <1>1
        <4>2. tail <= Size /\ Size \in Nat
          BY <1>1, MsgQueueAssumption DEF Bounds, MsgQueueAssumption
        <4>3. QED BY <4>1, <4>2, <2>1, <3>2 DEF Bounds
      <3>8. Placed'
        <4>1. ASSUME NEW i \in 1..L - 1
              PROVE  head' <= msgs'[i].at /\ End(msgs'[i]) <= Limit'
          BY <2>5, <3>2, <3>5 DEF Limit
        <4>2. QED BY <4>1, <1>3 DEF Placed
      <3>9. Ordered'
        <4>1. ASSUME NEW i \in 1..L - 1, NEW j \in 1..L - 1, i < j
              PROVE  /\ msgs'[j].at >= head' =>
                            msgs'[i].at >= head' /\ End(msgs'[i]) <= msgs'[j].at
                     /\ msgs'[i].at < head' /\ msgs'[j].at < head' =>
                            End(msgs'[i]) <= msgs'[j].at
          <5>1. End(msgs'[i]) <= msgs'[j].at
            BY <2>4, <3>5, <4>1
          <5>2. msgs'[i].at \in Nat /\ msgs'[j].at \in Nat
            BY <2>5
          <5>3. QED BY <5>1, <5>2, <3>2
        <4>2. QED BY <4>1, <1>3 DEF Ordered
      <3>10. Chain'
        <4>1. ASSUME NEW i \in 1..L - 1, i < L - 1
              PROVE  msgs'[i + 1].at = Behind(msgs[i])'
          <5>1. Behind(msgs[i])' = End(msgs'[i])
            BY <3>2 DEF Behind
          <5>2. End(msgs'[i]) # wrap
            BY <2>5, <3>4, <3>5, <1>1
          <5>3. Behind(msgs'[i]) = End(msgs'[i])
            BY <5>2 DEF Behind
          <5>4. QED BY <5>1, <5>3, <2>6, <4>1
        <4>2. msgs'[1].at = head' /\ End(msgs'[Len(msgs')]) = tail'
          BY <2>2, <3>2, <3>3, <1>12
        <4>3. QED BY <4>1, <4>2, <3>2, <1>3 DEF Chain
      <3>11. QED BY <3>7, <3>8, <3>9, <3>10, <1>13, <1>15 DEF RingInv, Layout
    <2>9. QED BY <2>7, <2>8, <1>1, <1>5, <1>10 DEF Limit
  <1>19. QED BY <1>3, <1>17, <1>18

-----------------------------------------------------------------------------
(* Theorems *)

\* The invariant holds in every state.
THEOREM RingInvariance == Spec => []RingInv
  <1>1. Init => RingInv
    BY InitInv
  <1>2. RingInv /\ [Next]_vars => RingInv'
    <2>1. SUFFICES ASSUME RingInv, [Next]_vars PROVE RingInv'
      OBVIOUS
    <2>2. CASE \E size \in Sizes : Alloc(size)
      BY <2>1, <2>2, AllocInv
    <2>3. CASE \E k \in 1..Len(msgs) : Complete(k)
      BY <2>1, <2>3, CompleteInv
    <2>4. CASE Free
      BY <2>1, <2>4, FreeInv
    <2>5. CASE UNCHANGED vars
      BY <2>1, <2>5
      DEF vars, RingInv, TypeOK, Layout, Bounds, Aligned, Chain, Placed, Ordered,
          HeadersKept, Behind, Limit
    <2>6. QED BY <2>1, <2>2, <2>3, <2>4, <2>5 DEF Next
  <1>3. QED BY <1>1, <1>2, PTL DEF Spec

\* Two messages never share a byte, and none ends behind the buffer, for
\* every size of the buffer and of the messages (dqueue.c:72-144).
THEOREM NoOverlap == Spec => []Disjoint
  <1>1. RingInv => Disjoint
    <2>1. SUFFICES ASSUME RingInv PROVE Disjoint
      OBVIOUS
    <2>2. ASSUME NEW i \in 1..Len(msgs)
          PROVE  End(msgs[i]) <= Size
      <3>1. End(msgs[i]) \in Nat
        BY <2>1, Ends DEF RingInv
      <3>2. End(msgs[i]) <= Limit \/ End(msgs[i]) <= tail
        BY <2>1 DEF RingInv, Layout, Placed
      <3>3. tail <= Size /\ wrap <= Size /\ tail \in Nat /\ wrap \in Nat /\ Size \in Nat
        BY <2>1, MsgQueueAssumption
        DEF RingInv, Layout, Bounds, TypeOK, MsgQueueAssumption
      <3>4. QED BY <3>1, <3>2, <3>3 DEF Limit
    <2>3. QED BY <2>1, <2>2, Apart DEF Disjoint
  <1>2. QED BY <1>1, RingInvariance, PTL

\* The header of a message is in the buffer as it was written, until the
\* message is freed (dqueue.c:118, 129-155).
THEOREM HeadersSafe == Spec => []HeadersKept
  BY RingInvariance, PTL DEF RingInv

\* The reader is shown a message if and only if there is one and it is
\* complete; an emptied queue takes every message the buffer can hold
\* (dqueue.c:96, 136-142).
THEOREM EmptyRight == Spec => []EmptyIsEmpty
  <1>1. RingInv => EmptyIsEmpty
    <2>1. SUFFICES ASSUME RingInv PROVE EmptyIsEmpty
      OBVIOUS
    <2>2. CASE msgs = <<>>
      BY <2>1, <2>2
      DEF EmptyIsEmpty, RingInv, Layout, Bounds, Peek, Fits, AtTail
    <2>3. CASE msgs # <<>>
      <3>1. ~(head = tail /\ wrap = 0)
        BY <2>1, <2>3 DEF RingInv, Layout, Bounds, TypeOK
      <3>2. 1 \in 1..Len(msgs) /\ msgs[1].at = head
        BY <2>1, <2>3, EmptySeq, LenProperties DEF RingInv, TypeOK, Layout, Chain
      <3>3. mem[head] = [size |-> msgs[1].size, done |-> msgs[1].done]
        BY <2>1, <3>2 DEF RingInv, HeadersKept
      <3>4. mem[head].done = msgs[1].done
        BY <3>3
      <3>5. QED BY <2>3, <3>1, <3>4 DEF EmptyIsEmpty, Peek
    <2>4. QED BY <2>2, <2>3
  <1>2. QED BY <1>1, RingInvariance, PTL

\* The types of the ring.
THEOREM RingType == Spec => []TypeOK
  BY RingInvariance, PTL DEF RingInv

-----------------------------------------------------------------------------
(* The number of bytes of data *)

\* A set of numbers that is not empty has a least element.
LEMMA LeastOf ==
    ASSUME NEW T, T \subseteq Nat, T # {}
    PROVE  \E n \in T : \A m \in T : n <= m
  <1>1. \E x \in T : \A y \in T : <<y, x>> \notin OpToRel(<, Nat)
    BY NatLessThanWellFounded, WFMin
  <1>2. PICK x \in T : \A y \in T : <<y, x>> \notin OpToRel(<, Nat) BY <1>1
  <1>3. ASSUME NEW y \in T PROVE x <= y
    <2>1. x \in Nat /\ y \in Nat BY <1>3
    <2>2. ~(y < x) BY <1>2, <2>1 DEF OpToRel
    <2>3. QED BY <2>1, <2>2
  <1>4. QED BY <1>3

\* The bytes of the first n messages.
SumTo(f, q, n) ==
    f = [k \in 0..n |-> IF k = 0 THEN 0 ELSE f[k - 1] + q[k].size]

\* Sizes that can be added up.
Sized(q) == \A k \in 1..Len(q) : q[k].size \in Nat

\* There is such a sum.
LEMMA SumExists ==
    ASSUME NEW q, NEW N \in Nat PROVE \E f : SumTo(f, q, N)
  <1> DEFINE Bad == {n \in 0..N : ~\E f : SumTo(f, q, n)}
  <1>1. SUFFICES ASSUME Bad # {} PROVE FALSE
    OBVIOUS
  <1>2. PICK n \in Bad : \A m \in Bad : n <= m
    <2>1. Bad \subseteq Nat OBVIOUS
    <2> QED BY <1>1, <2>1, LeastOf
  <1>3. n # 0
    <2>1. SumTo([k \in 0..0 |-> 0], q, 0) BY DEF SumTo
    <2> QED BY <1>2, <2>1
  <1>4. n - 1 \in 0..N /\ n - 1 \notin Bad BY <1>2, <1>3
  <1>5. PICK v : SumTo(v, q, n - 1) BY <1>4
  <1> DEFINE w == [k \in 0..n |-> IF k = 0 THEN 0 ELSE v[k - 1] + q[k].size]
  <1>6. ASSUME NEW k \in 0..n, k # 0 PROVE w[k - 1] = v[k - 1]
    <2>1. k - 1 \in 0..(n - 1) /\ k - 1 \in 0..n BY <1>2, <1>6
    <2>2. v[k - 1] = IF k - 1 = 0 THEN 0 ELSE v[k - 1 - 1] + q[k - 1].size
      BY <1>5, <2>1 DEF SumTo
    <2> QED BY <2>1, <2>2
  <1>7. w = [k \in 0..n |-> IF k = 0 THEN 0 ELSE w[k - 1] + q[k].size]
    BY <1>6
  <1>8. SumTo(w, q, n) BY <1>7 DEF SumTo
  <1> HIDE DEF w
  <1> QED BY <1>2, <1>8

\* What its equation says
LEMMA SumSteps ==
    ASSUME NEW q, NEW n \in Nat, NEW f, SumTo(f, q, n)
    PROVE  f[0] = 0 /\ \A k \in 1..n : f[k] = f[k - 1] + q[k].size
  <1>1. \A k \in 0..n : f[k] = IF k = 0 THEN 0 ELSE f[k - 1] + q[k].size
    BY DEF SumTo
  <1> QED BY <1>1

\* The sum is a number at every message.
LEMMA SumIsNat ==
    ASSUME NEW q, Sized(q), Len(q) \in Nat, NEW f, SumTo(f, q, Len(q))
    PROVE  \A k \in 0..Len(q) : f[k] \in Nat
  <1> DEFINE Bad == {n \in 0..Len(q) : f[n] \notin Nat}
  <1>1. SUFFICES ASSUME Bad # {} PROVE FALSE
    OBVIOUS
  <1>2. PICK n \in Bad : \A m \in Bad : n <= m
    <2>1. Bad \subseteq Nat OBVIOUS
    <2> QED BY <1>1, <2>1, LeastOf
  <1>3. f[0] = 0 /\ \A k \in 1..Len(q) : f[k] = f[k - 1] + q[k].size
    BY SumSteps
  <1>4. n \in 1..Len(q) /\ n - 1 \in 0..Len(q) /\ n - 1 \notin Bad BY <1>2, <1>3
  <1>5. f[n] = f[n - 1] + q[n].size /\ f[n - 1] \in Nat /\ q[n].size \in Nat
    BY <1>3, <1>4 DEF Sized
  <1>6. f[n] \in Nat BY <1>5
  <1> QED BY <1>2, <1>6

\* Two functions with the same steps go together.
LEMMA SameSteps ==
    ASSUME NEW n \in Nat, NEW u, NEW v,
           \A k \in 0..n : u[k] \in Int /\ v[k] \in Int,
           u[0] = v[0],
           \A k \in 1..n : u[k] - u[k - 1] = v[k] - v[k - 1]
    PROVE  u[n] = v[n]
  <1> DEFINE Bad == {k \in 0..n : u[k] # v[k]}
  <1>1. SUFFICES ASSUME Bad # {} PROVE FALSE
    OBVIOUS
  <1>2. PICK k \in Bad : \A m \in Bad : k <= m
    <2>1. Bad \subseteq Nat OBVIOUS
    <2> QED BY <1>1, <2>1, LeastOf
  <1>3. k \in 1..n /\ k - 1 \in 0..n /\ k \in 0..n BY <1>2
  <1>4. k - 1 \notin Bad BY <1>2, <1>3
  <1>5. u[k - 1] = v[k - 1] BY <1>3, <1>4
  <1>6. u[k] - u[k - 1] = v[k] - v[k - 1] BY <1>3
  <1>7. u[k] \in Int /\ v[k] \in Int /\ u[k - 1] \in Int /\ v[k - 1] \in Int BY <1>3
  <1>8. u[k] = v[k] BY <1>5, <1>6, <1>7
  <1> QED BY <1>2, <1>8

\* The sum is what any function says that satisfies the equation.
LEMMA BytesAre ==
    ASSUME NEW q, Sized(q), Len(q) \in Nat, NEW f, SumTo(f, q, Len(q))
    PROVE  BytesOf(q) = f[Len(q)]
  <1>1. BytesOf(q) = (CHOOSE g : SumTo(g, q, Len(q)))[Len(q)]
    BY DEF BytesOf, SumTo
  <1>2. PICK g : g = CHOOSE x : SumTo(x, q, Len(q)) OBVIOUS
  <1>3. SumTo(g, q, Len(q)) BY <1>2
  <1>4. /\ \A k \in 0..Len(q) : f[k] \in Nat /\ g[k] \in Nat
        /\ f[0] = 0 /\ \A k \in 1..Len(q) : f[k] = f[k - 1] + q[k].size
        /\ g[0] = 0 /\ \A k \in 1..Len(q) : g[k] = g[k - 1] + q[k].size
    BY <1>3, SumIsNat, SumSteps
  <1>5. \A k \in 1..Len(q) : f[k] - f[k - 1] = g[k] - g[k - 1]
    <2> SUFFICES ASSUME NEW k \in 1..Len(q) PROVE f[k] - f[k - 1] = g[k] - g[k - 1]
      OBVIOUS
    <2>1. k \in 0..Len(q) /\ k - 1 \in 0..Len(q) OBVIOUS
    <2>2. PICK y \in Nat : y = q[k].size BY DEF Sized
    <2>3. f[k] = f[k - 1] + y /\ g[k] = g[k - 1] + y BY <1>4, <2>2
    <2>4. f[k - 1] \in Nat /\ g[k - 1] \in Nat BY <1>4, <2>1
    <2> QED BY <2>3, <2>4
  <1>6. \A k \in 0..Len(q) : f[k] \in Int /\ g[k] \in Int BY <1>4
  <1>7. f[Len(q)] = g[Len(q)] BY <1>4, <1>5, <1>6, SameSteps
  <1> QED BY <1>1, <1>2, <1>7

\* No messages, no bytes
LEMMA NoBytes == BytesOf(<<>>) = 0
  <1>1. SumTo([k \in 0..0 |-> 0], <<>>, 0) BY DEF SumTo
  <1>2. Len(<<>>) = 0 /\ Sized(<<>>) BY DEF Sized
  <1>3. \E f : SumTo(f, <<>>, 0) /\ f[0] = 0
    <2>1. [k \in 0..0 |-> 0][0] = 0 OBVIOUS
    <2> QED BY <1>1, <2>1
  <1> QED BY <1>2, <1>3, BytesAre

\* One message more
LEMMA BytesAppend ==
    ASSUME NEW S, NEW q \in Seq(S), NEW m \in S, Sized(q), m.size \in Nat
    PROVE  BytesOf(Append(q, m)) = BytesOf(q) + m.size
  <1>1. PICK n \in Nat : n = Len(q) OBVIOUS
  <1>2. PICK r \in Seq(S) : r = Append(q, m) BY AppendProperties
  <1>3. Len(r) = n + 1 /\ r[n + 1] = m /\ \A k \in 1..n : r[k] = q[k]
    BY <1>1, <1>2, AppendProperties
  <1>4. PICK f : SumTo(f, r, n + 1)
    <2>1. n + 1 \in Nat OBVIOUS
    <2> QED BY <2>1, SumExists
  <1>5. Sized(r)
    <2>1. \A k \in 1..(n + 1) : k \in 1..n \/ k = n + 1 OBVIOUS
    <2> QED BY <2>1, <1>1, <1>3 DEF Sized
  <1>6. f[0] = 0 /\ \A k \in 1..(n + 1) : f[k] = f[k - 1] + r[k].size
    BY <1>4, SumSteps
  <1> DEFINE g == [k \in 0..n |-> f[k]]
  <1>7. SumTo(g, q, n)
    <2>1. \A k \in 0..n : g[k] = IF k = 0 THEN 0 ELSE g[k - 1] + q[k].size
      <3> SUFFICES ASSUME NEW k \in 0..n, k # 0
                   PROVE  f[k] = g[k - 1] + q[k].size
        BY <1>6
      <3>1. k \in 1..(n + 1) /\ k \in 1..n /\ k - 1 \in 0..n OBVIOUS
      <3> QED BY <1>3, <1>6, <3>1
    <2>2. g = [k \in 0..n |-> IF k = 0 THEN 0 ELSE g[k - 1] + q[k].size]
      BY <2>1
    <2> QED BY <2>2 DEF SumTo
  <1>8. g[n] = f[n] BY <1>1
  <1> HIDE DEF g
  <1>9. BytesOf(q) = g[n] BY <1>1, <1>7, BytesAre
  <1>10. BytesOf(r) = f[n + 1] BY <1>3, <1>4, <1>5, BytesAre
  <1>11. f[n + 1] = f[n] + m.size
    <2>1. n + 1 \in 1..(n + 1) /\ (n + 1) - 1 = n OBVIOUS
    <2> QED BY <1>3, <1>6, <2>1
  <1> QED BY <1>2, <1>8, <1>9, <1>10, <1>11

\* The first message less
LEMMA BytesTail ==
    ASSUME NEW S, NEW q \in Seq(S), q # <<>>, Sized(q)
    PROVE  BytesOf(Tail(q)) = BytesOf(q) - q[1].size
  <1>1. PICK n \in Nat : Len(q) = n + 1
    <2>1. Len(q) \in Nat /\ Len(q) # 0 BY EmptySeq, LenProperties
    <2>2. Len(q) - 1 \in Nat /\ Len(q) = (Len(q) - 1) + 1 BY <2>1
    <2> QED BY <2>2
  <1>2. PICK t \in Seq(S) : t = Tail(q) BY HeadTailProperties
  <1>3. Len(t) = n /\ \A k \in 1..n : t[k] = q[k + 1]
    BY <1>1, <1>2, HeadTailProperties
  <1>4. PICK f : SumTo(f, q, n + 1)
    <2>1. n + 1 \in Nat OBVIOUS
    <2> QED BY <2>1, SumExists
  <1>5. PICK g : SumTo(g, t, n) BY SumExists
  <1>6. Sized(t)
    <2>1. \A k \in 1..n : k + 1 \in 1..(n + 1) OBVIOUS
    <2> QED BY <2>1, <1>1, <1>3 DEF Sized
  <1>7. BytesOf(q) = f[n + 1] /\ BytesOf(t) = g[n]
    BY <1>1, <1>3, <1>4, <1>5, <1>6, BytesAre
  <1>8. /\ f[0] = 0 /\ \A k \in 1..(n + 1) : f[k] = f[k - 1] + q[k].size
        /\ g[0] = 0 /\ \A k \in 1..n : g[k] = g[k - 1] + t[k].size
    BY <1>4, <1>5, SumSteps
  <1>9. /\ \A k \in 0..(n + 1) : f[k] \in Nat
        /\ \A k \in 0..n : g[k] \in Nat
    BY <1>1, <1>3, <1>4, <1>5, <1>6, SumIsNat
  <1>10. PICK z \in Nat : z = q[1].size
    <2>1. 1 \in 1..Len(q) BY <1>1
    <2> QED BY <2>1 DEF Sized
  <1>11. f[1] = z
    <2>1. 1 \in 1..(n + 1) /\ 1 - 1 = 0 OBVIOUS
    <2> QED BY <1>8, <1>10, <2>1
  <1> DEFINE u == [k \in 0..n |-> f[k + 1]]
             v == [k \in 0..n |-> g[k] + z]
  <1>12. \A k \in 0..n : u[k] \in Int /\ v[k] \in Int
    <2>1. \A k \in 0..n : k + 1 \in 0..(n + 1) OBVIOUS
    <2>2. \A k \in 0..n : f[k + 1] \in Int /\ g[k] + z \in Int BY <1>9, <2>1
    <2> QED BY <2>2
  <1>13. u[0] = v[0] BY <1>8, <1>11
  <1>14. \A k \in 1..n : u[k] - u[k - 1] = v[k] - v[k - 1]
    <2> SUFFICES ASSUME NEW k \in 1..n
                 PROVE  f[k + 1] - f[k] = (g[k] + z) - (g[k - 1] + z)
      OBVIOUS
    <2>1. /\ k \in 0..n /\ k - 1 \in 0..n /\ k + 1 \in 1..(n + 1)
          /\ k \in 0..(n + 1) /\ (k + 1) - 1 = k
      OBVIOUS
    <2>2. PICK y \in Nat : y = t[k].size BY <1>3, <1>6 DEF Sized
    <2>3. f[k + 1] = f[k] + y /\ g[k] = g[k - 1] + y
      BY <1>3, <1>8, <2>1, <2>2
    <2>4. f[k] \in Nat /\ g[k - 1] \in Nat BY <1>9, <2>1
    <2> QED BY <2>3, <2>4
  <1>15. u[n] = f[n + 1] /\ v[n] = g[n] + z OBVIOUS
  <1> HIDE DEF u, v
  <1>16. u[n] = v[n] BY <1>12, <1>13, <1>14, SameSteps
  <1>17. f[n + 1] \in Nat /\ g[n] \in Nat BY <1>9
  <1> QED BY <1>2, <1>7, <1>10, <1>15, <1>16, <1>17

\* Nothing but sizes counts.
LEMMA BytesSame ==
    ASSUME NEW q, NEW r, Len(q) \in Nat, Len(r) = Len(q), Sized(q),
           \A k \in 1..Len(q) : r[k].size = q[k].size
    PROVE  BytesOf(r) = BytesOf(q)
  <1>1. PICK f : SumTo(f, q, Len(q)) BY SumExists
  <1>2. [k \in 0..Len(q) |-> IF k = 0 THEN 0 ELSE f[k - 1] + q[k].size]
        = [k \in 0..Len(q) |-> IF k = 0 THEN 0 ELSE f[k - 1] + r[k].size]
    <2>1. \A k \in 0..Len(q) : k # 0 => k \in 1..Len(q) OBVIOUS
    <2> QED BY <2>1
  <1>3. SumTo(f, r, Len(r)) BY <1>1, <1>2 DEF SumTo
  <1>4. Sized(r) BY DEF Sized
  <1> QED BY <1>1, <1>3, <1>4, BytesAre

\* A message has a place.
LEMMA AllocPlace ==
    ASSUME RingInv, NEW size \in Sizes, Alloc(size) PROVE At(Need(size)) \in Addr
  <1>1. size \in Nat /\ size < 32768 /\ Size \in Nat
    BY MsgQueueAssumption DEF MsgQueueAssumption
  <1>2. Need(size) \in Nat /\ Need(size) % 4 = 0 /\ Need(size) >= size + 4
    BY <1>1, NeedOf
  <1>3. Fits(Need(size)) BY DEF Alloc, Reserve
  <1>4. /\ At(Need(size)) \in Nat /\ At(Need(size)) % 4 = 0
        /\ At(Need(size)) + Need(size) <= Size
    BY <1>1, <1>2, <1>3, Room DEF RingInv, TypeOK, Layout
  <1> QED BY <1>1, <1>2, <1>4 DEF Addr

\* The header at head is the one of the first message.
LEMMA HeadIs ==
    ASSUME RingInv, msgs # <<>>
    PROVE  /\ msgs[1].at = head /\ mem[head].done = msgs[1].done
           /\ mem[head].size = msgs[1].size
  <1>1. 1 \in 1..Len(msgs) /\ msgs[1].at = head
    BY EmptySeq, LenProperties DEF RingInv, TypeOK, Layout, Chain
  <1>2. mem[head] = [size |-> msgs[1].size, done |-> msgs[1].done]
    BY <1>1 DEF RingInv, HeadersKept
  <1> QED BY <1>1, <1>2

\* What is shown to the reader
LEMMA PeekIs ==
    ASSUME RingInv, Peek PROVE msgs # <<>> /\ msgs[1].done
  <1>1. msgs # <<>> BY DEF RingInv, Layout, Bounds, Peek
  <1> QED BY <1>1, HeadIs DEF Peek

\* The sizes of the messages are numbers.
LEMMA MsgsSized ==
    ASSUME TypeOK PROVE Sized(msgs) /\ Len(msgs) \in Nat
  <1>1. \A k \in 1..Len(msgs) : msgs[k].size \in Nat BY Ends
  <1>2. Len(msgs) \in Nat BY LenProperties DEF TypeOK
  <1> QED BY <1>1, <1>2 DEF Sized

\* queueCount is exact: what is added with a message goes with it.
THEOREM CountSafe == Spec => []CountExact
  <1>1. Init => CountExact BY NoBytes DEF Init, CountExact
  <1>2. RingInv /\ CountExact /\ [Next]_vars => CountExact'
    <2> SUFFICES ASSUME RingInv, CountExact, [Next]_vars PROVE CountExact'
      OBVIOUS
    <2> DEFINE M == [at : Addr, size : Sizes, done : BOOLEAN]
    <2>1. /\ TypeOK /\ msgs \in Seq(M) /\ Sized(msgs) /\ Len(msgs) \in Nat
          /\ count = BytesOf(msgs)
      BY MsgsSized DEF RingInv, TypeOK, CountExact
    <2>2. ASSUME NEW size \in Sizes, Alloc(size) PROVE CountExact'
      <3>1. PICK m : m = Message(At(Need(size)), size, FALSE) OBVIOUS
      <3>2. At(Need(size)) \in Addr BY <2>2, AllocPlace
      <3>3. m \in M /\ m.size = size BY <3>1, <3>2 DEF Message
      <3>4. size \in Nat BY SizeOf
      <3>5. msgs' = Append(msgs, m) /\ count' = count + size
        BY <2>2, <3>1 DEF Alloc, Reserve, Counted
      <3> HIDE DEF M
      <3>6. BytesOf(Append(msgs, m)) = BytesOf(msgs) + m.size
        BY <2>1, <3>3, <3>4, BytesAppend
      <3> QED BY <2>1, <3>3, <3>5, <3>6 DEF CountExact
    <2>3. ASSUME NEW k \in 1..Len(msgs), Complete(k) PROVE CountExact'
      <3>1. PICK m \in M : m = msgs[k] BY <2>1, Ends
      <3>2. PICK e \in M : e = Message(m.at, m.size, TRUE) /\ e.size = m.size
        <4>1. /\ Message(m.at, m.size, TRUE) \in M
              /\ Message(m.at, m.size, TRUE).size = m.size
          BY DEF Message
        <4> QED BY <4>1
      <3>3. msgs' = [msgs EXCEPT ![k] = e] /\ count' = count
        BY <2>3, <3>1, <3>2 DEF Complete
      <3> HIDE DEF M
      <3>4. /\ Len([msgs EXCEPT ![k] = e]) = Len(msgs)
            /\ \A j \in 1..Len(msgs) :
                  [msgs EXCEPT ![k] = e][j] = IF j = k THEN e ELSE msgs[j]
        BY <2>1, ExceptSeq
      <3>5. Len(msgs') = Len(msgs) BY <3>3, <3>4
      <3>6. \A j \in 1..Len(msgs) : msgs'[j].size = msgs[j].size
        BY <3>1, <3>2, <3>3, <3>4
      <3>7. BytesOf(msgs') = BytesOf(msgs) BY <2>1, <3>5, <3>6, BytesSame
      <3> QED BY <2>1, <3>3, <3>7 DEF CountExact
    <2>4. ASSUME Free PROVE CountExact'
      <3>1. msgs # <<>> BY <2>4, PeekIs DEF Free
      <3>2. msgs' = Tail(msgs) /\ count' = count - mem[head].size
        BY <2>4, <3>1 DEF Free
      <3>3. mem[head].size = msgs[1].size BY <3>1, HeadIs
      <3> HIDE DEF M
      <3>4. BytesOf(Tail(msgs)) = BytesOf(msgs) - msgs[1].size
        BY <2>1, <3>1, BytesTail
      <3> QED BY <2>1, <3>2, <3>3, <3>4 DEF CountExact
    <2>5. CASE UNCHANGED vars BY <2>1, <2>5 DEF vars, CountExact
    <2> QED BY <2>2, <2>3, <2>4, <2>5 DEF Next
  <1> QED BY <1>1, <1>2, RingInvariance, PTL DEF Spec

-----------------------------------------------------------------------------
(* What lies in the buffer is a queue of messages *)

\* How far a message lies behind head.
Off(m) == IF m.at >= head THEN m.at - head ELSE wrap - head + m.at

\* What is read n bytes behind head.
ReadAt(f, n) ==
    IF n >= Used \/ Place(n) \notin Addr THEN <<>>
    ELSE <<mem[Place(n)]>> \o
         IF n + Need(mem[Place(n)].size) > Used THEN <<>>
         ELSE f[n + Need(mem[Place(n)].size)]

\* What Contents reads, at every place behind head
Reads(f) == f = [n \in 0..Size |-> ReadAt(f, n)]

\* Whatever is taken for a header, reading goes on.
LEMMA GoesOn ==
    ASSUME RingInv, NEW a \in Addr
    PROVE  Need(mem[a].size) \in Nat /\ Need(mem[a].size) >= 4
  <1>1. mem[a].size \in Sizes \cup {0} BY DEF RingInv, TypeOK
  <1>2. mem[a].size \in Nat /\ mem[a].size < 32768 BY <1>1, SizeOf
  <1>3. PICK s \in Nat : s = mem[a].size /\ s < 32768 BY <1>2
  <1>4. Need(s) \in Nat /\ Need(s) >= s + 4 BY <1>3, NeedOf
  <1>5. Need(s) >= 4 BY <1>3, <1>4
  <1> QED BY <1>3, <1>4, <1>5

\* What is in use fits in the buffer.
LEMMA UsedIs ==
    ASSUME RingInv PROVE Used \in Nat /\ Used <= Size /\ Size \in Nat
  <1>1. Size \in Nat BY MsgQueueAssumption DEF MsgQueueAssumption
  <1>2. head \in Nat /\ tail \in Nat /\ wrap \in Nat /\ Bounds
    BY DEF RingInv, TypeOK, Layout
  <1>3. wrap = 0 => head <= tail BY <1>2 DEF Bounds
  <1> QED BY <1>1, <1>2, <1>3 DEF Used, Bounds

\* The recursive function of Contents exists: reading only goes forward.
LEMMA ReadsExist == ASSUME RingInv PROVE \E f : Reads(f)
  <1> DEFINE Is(f, k) == /\ f = [n \in 0..Size |-> f[n]]
                         /\ \A n \in 0..Size : n >= k => f[n] = ReadAt(f, n)
             Bad == {j \in 0..(Size + 1) : ~\E f : Is(f, Size + 1 - j)}
  <1>0. Used \in Nat /\ Used <= Size /\ Size \in Nat BY UsedIs
  <1>1. Bad = {}
    <2> SUFFICES ASSUME Bad # {} PROVE FALSE OBVIOUS
    <2>1. PICK j \in Bad : \A m \in Bad : j <= m
      <3>1. Bad \subseteq Nat BY <1>0
      <3> HIDE DEF Bad
      <3> QED BY <3>1, LeastOf
    <2>2. j # 0
      <3> DEFINE f == [n \in 0..Size |-> <<>>]
      <3>1. f = [n \in 0..Size |-> f[n]] OBVIOUS
      <3>2. \A n \in 0..Size : ~(n >= Size + 1 - 0) BY <1>0
      <3>3. Is(f, Size + 1 - 0) BY <3>1, <3>2
      <3> QED BY <2>1, <3>3
    <2>3. j \in Nat /\ j <= Size + 1 /\ j - 1 \in 0..(Size + 1) /\ j - 1 \notin Bad
      BY <1>0, <2>1, <2>2
    <2>4. PICK f : Is(f, Size + 1 - (j - 1)) BY <2>3
    <2>5. PICK k \in 0..Size : k = Size + 1 - j /\ k + 1 = Size + 1 - (j - 1)
      <3>1. Size + 1 - j \in 0..Size /\ (Size + 1 - j) + 1 = Size + 1 - (j - 1)
        BY <1>0, <2>2, <2>3
      <3> QED BY <3>1
    <2> DEFINE g == [n \in 0..Size |-> IF n = k THEN ReadAt(f, k) ELSE f[n]]
    <2>6. ASSUME NEW n \in 0..Size, n >= k PROVE ReadAt(g, n) = ReadAt(f, n)
      <3>1. CASE n >= Used \/ Place(n) \notin Addr BY <3>1 DEF ReadAt
      <3>2. CASE n < Used /\ Place(n) \in Addr
        <4>1. PICK z \in Nat : z = Need(mem[Place(n)].size) /\ z >= 4
          BY <3>2, GoesOn
        <4>2. CASE n + z > Used BY <4>1, <4>2 DEF ReadAt
        <4>3. CASE n + z <= Used
          <5>1. n + z \in 0..Size /\ n + z # k BY <1>0, <2>6, <4>1, <4>3
          <5>2. g[n + z] = f[n + z] BY <5>1
          <5> HIDE DEF g
          <5> QED BY <4>1, <5>2 DEF ReadAt
        <4> QED BY <1>0, <4>1, <4>2, <4>3
      <3> QED BY <1>0, <3>1, <3>2
    <2>7. \A n \in 0..Size : n >= k => g[n] = ReadAt(g, n)
      <3> SUFFICES ASSUME NEW n \in 0..Size, n >= k PROVE g[n] = ReadAt(f, n)
        BY <2>6
      <3>1. CASE n = k BY <3>1
      <3>2. CASE n # k
        <4>1. n >= k + 1 BY <1>0, <3>2
        <4>2. f[n] = ReadAt(f, n) BY <2>4, <2>5, <4>1
        <4> QED BY <3>2, <4>2
      <3> QED BY <3>1, <3>2
    <2>8. g = [n \in 0..Size |-> g[n]] OBVIOUS
    <2> HIDE DEF g
    <2>9. Is(g, Size + 1 - j) BY <2>5, <2>7, <2>8
    <2> QED BY <2>1, <2>9
  <1>2. PICK f : Is(f, Size + 1 - (Size + 1))
    <2>1. Size + 1 \in 0..(Size + 1) BY <1>0
    <2> QED BY <1>1, <2>1
  <1>3. \A n \in 0..Size : n >= Size + 1 - (Size + 1) BY <1>0
  <1>4. \A n \in 0..Size : f[n] = ReadAt(f, n) BY <1>2, <1>3
  <1>5. f = [n \in 0..Size |-> ReadAt(f, n)] BY <1>2, <1>4
  <1> QED BY <1>5 DEF Reads

\* What it says at each place
LEMMA ContentsRead ==
    ASSUME RingInv
    PROVE  \E f : Contents = f[0] /\ \A n \in 0..Size : f[n] = ReadAt(f, n)
  <1>1. PICK f : f = CHOOSE g : Reads(g) OBVIOUS
  <1>2. Reads(f) BY <1>1, ReadsExist
  <1>3. Contents = (CHOOSE g : Reads(g))[0] BY DEF Contents, Reads, ReadAt
  <1>4. Contents = f[0] BY <1>1, <1>3
  <1>5. \A n \in 0..Size : f[n] = ReadAt(f, n) BY <1>2 DEF Reads
  <1> QED BY <1>4, <1>5

\* The arithmetic of one message: head h, tail t, wrap w; it lies from a to e.
Lies(h, t, w, a, z, e) ==
    /\ e = a + z /\ a < e
    /\ w = 0 => h < t
    /\ w # 0 => t <= h /\ h < w
    /\ \/ h <= a /\ w = 0 /\ e <= t
       \/ h <= a /\ w # 0 /\ e <= w
       \/ w # 0 /\ a < h /\ e <= t

\* How far it lies behind the head.
Behind0(h, w, a) == IF a >= h THEN a - h ELSE w - h + a

\* It lies o bytes behind the head.
Lying(h, t, w, a, o) ==
    /\ o = Behind0(h, w, a)
    /\ o < IF w = 0 THEN t - h ELSE w - h + t
    /\ (IF w # 0 /\ h + o >= w THEN h + o - w ELSE h + o) = a
    /\ a = h => o = 0

\* Behind it, the next message begins at b.
NextAt(h, w, a, e, b) ==
    /\ b = IF w # 0 /\ e = w THEN 0 ELSE e
    /\ b >= h => a >= h /\ e <= b

\* It is the last one, and u bytes are in use in the ring.
LastAt(h, t, w, a, e, u) ==
    /\ u = IF w = 0 THEN t - h ELSE w - h + t
    /\ e = t /\ (w # 0 => a < h)

\* Where the message ends, counted from the head
Sum(o, z, r) == r = o + z

\* A message lies somewhere behind the head.
LEMMA OffsetOne ==
    ASSUME NEW h \in Nat, NEW t \in Nat, NEW w \in Nat, NEW a \in Nat,
           NEW z \in Nat, NEW e \in Nat, Lies(h, t, w, a, z, e)
    PROVE  \E o \in Nat : Lying(h, t, w, a, o)
  <1>1. CASE a >= h
    <2>1. PICK o \in Nat : o = a - h BY <1>1
    <2>2. o = Behind0(h, w, a) BY <1>1, <2>1 DEF Behind0
    <2>3. w # 0 => a < w BY <1>1 DEF Lies
    <2>4. w = 0 => a < t BY <1>1 DEF Lies
    <2>5. h + o = a BY <2>1
    <2>6. w = 0 => o < t - h BY <2>1, <2>4
    <2>7. w # 0 => o < w - h + t BY <2>1, <2>3
    <2>8. Lying(h, t, w, a, o) BY <2>1, <2>2, <2>3, <2>5, <2>6, <2>7 DEF Lying
    <2> QED BY <2>8
  <1>2. CASE a < h
    <2>1. w # 0 /\ h < w /\ a < t BY <1>2 DEF Lies
    <2>2. PICK o \in Nat : o = w - h + a BY <2>1
    <2>3. o = Behind0(h, w, a) BY <1>2, <2>2 DEF Behind0
    <2>4. h + o >= w /\ h + o - w = a BY <2>2
    <2>5. o < w - h + t BY <2>1, <2>2
    <2>6. Lying(h, t, w, a, o) BY <1>2, <2>1, <2>3, <2>4, <2>5 DEF Lying
    <2> QED BY <2>6
  <1> QED BY <1>1, <1>2

\* The next one lies behind this one.
LEMMA OffsetNext ==
    ASSUME NEW h \in Nat, NEW t \in Nat, NEW w \in Nat, NEW a \in Nat,
           NEW z \in Nat, NEW e \in Nat, Lies(h, t, w, a, z, e), NEW b \in Nat,
           NextAt(h, w, a, e, b), NEW o \in Nat, Lying(h, t, w, a, o)
    PROVE  Sum(o, z, Behind0(h, w, b))
  <1> DEFINE r == Behind0(h, w, b)
  <1>0. /\ o = Behind0(h, w, a)
        /\ b = IF w # 0 /\ e = w THEN 0 ELSE e
        /\ b >= h => a >= h /\ e <= b
    BY DEF Lying, NextAt
  <1> SUFFICES r = o + z BY DEF Sum
  <1>1. CASE w # 0 /\ e = w
    <2>1. a >= h BY <1>1 DEF Lies
    <2>2. b = 0 /\ b < h BY <1>0, <1>1 DEF Lies
    <2>3. Behind0(h, w, a) = a - h BY <2>1 DEF Behind0
    <2>4. Behind0(h, w, b) = w - h + b BY <2>2 DEF Behind0
    <2>5. w = a + z BY <1>1 DEF Lies
    <2> QED BY <1>0, <2>2, <2>3, <2>4, <2>5
  <1>2. CASE ~(w # 0 /\ e = w)
    <2>1. b = e /\ e = a + z BY <1>0, <1>2 DEF Lies
    <2>2. a >= h <=> b >= h BY <1>0, <2>1 DEF Lies
    <2>3. CASE a >= h
      <3>1. o = a - h BY <1>0, <2>3 DEF Behind0
      <3>2. r = b - h BY <2>2, <2>3 DEF Behind0
      <3> QED BY <2>1, <3>1, <3>2
    <2>4. CASE ~(a >= h)
      <3>1. o = w - h + a BY <1>0, <2>4 DEF Behind0
      <3>2. r = w - h + b BY <2>2, <2>4 DEF Behind0
      <3> QED BY <2>1, <3>1, <3>2
    <2> QED BY <2>3, <2>4
  <1> QED BY <1>1, <1>2

\* The last one ends where the bytes in use end.
LEMMA OffsetLast ==
    ASSUME NEW h \in Nat, NEW t \in Nat, NEW w \in Nat, NEW a \in Nat,
           NEW z \in Nat, NEW e \in Nat, Lies(h, t, w, a, z, e),
           NEW o \in Nat, Lying(h, t, w, a, o),
           NEW u, LastAt(h, t, w, a, e, u)
    PROVE  Sum(o, z, u)
  <1>0. /\ o = Behind0(h, w, a)
        /\ u = IF w = 0 THEN t - h ELSE w - h + t
        /\ e = t /\ (w # 0 => a < h)
    BY DEF Lying, LastAt
  <1> SUFFICES o + z = u BY DEF Sum
  <1>1. CASE w = 0
    <2>1. a >= h BY <1>0, <1>1 DEF Lies
    <2>2. o = a - h /\ u = t - h BY <1>0, <1>1, <2>1 DEF Behind0
    <2> QED BY <1>0, <2>1, <2>2 DEF Lies
  <1>2. CASE w # 0
    <2>1. o = w - h + a /\ u = w - h + t BY <1>0, <1>2 DEF Behind0
    <2> QED BY <1>0, <2>1 DEF Lies
  <1> QED BY <1>1, <1>2

\* The messages are where the one before them leads.
LEMMA Offsets ==
    ASSUME RingInv, NEW i \in 1..Len(msgs)
    PROVE  /\ Off(msgs[i]) \in 0..Size /\ Off(msgs[i]) < Used
           /\ Place(Off(msgs[i])) = msgs[i].at
           /\ i = 1 => Off(msgs[i]) = 0
           /\ i < Len(msgs) => Off(msgs[i + 1]) = Off(msgs[i]) + Need(msgs[i].size)
           /\ i = Len(msgs) => Off(msgs[i]) + Need(msgs[i].size) = Used
  <1>1. PICK h \in Nat, t \in Nat, w \in Nat, L \in Nat :
          h = head /\ t = tail /\ w = wrap /\ L = Len(msgs)
    BY LenProperties DEF RingInv, TypeOK
  <1>2. TypeOK /\ Bounds /\ Chain /\ Placed /\ Ordered BY DEF RingInv, Layout
  <1>3. msgs # <<>>
    <2>1. msgs = <<>> => Len(msgs) = 0 OBVIOUS
    <2> QED BY <2>1
  <1>4. PICK a \in Nat, z \in Nat, e \in Nat :
          /\ a = msgs[i].at /\ z = Need(msgs[i].size) /\ e = End(msgs[i])
          /\ e = a + z /\ a < e
    <2>1. PICK m \in [at : Addr, size : Sizes, done : BOOLEAN] : m = msgs[i]
      BY <1>2, Ends
    <2>2. m.at \in Nat /\ End(m) \in Nat /\ m.size \in Nat /\ m.size < 32768
          /\ m.at + m.size + 4 <= End(m)
      BY EndOf
    <2>3. Need(m.size) \in Nat BY <2>2, NeedOf
    <2>4. End(m) = m.at + Need(m.size) BY DEF End
    <2>5. m.at < End(m) BY <2>2
    <2> QED BY <2>1, <2>2, <2>3, <2>4, <2>5
  <1>5. /\ w = 0 => h < t
        /\ w # 0 => t <= h /\ h < w
    BY <1>1, <1>2, <1>3 DEF Bounds
  <1>6. Used \in Nat /\ Used <= Size /\ Size \in Nat
        /\ Used = IF w = 0 THEN t - h ELSE w - h + t
    BY <1>1, UsedIs DEF Used
  <1>7. Lies(h, t, w, a, z, e)
    <2>1. \/ h <= a /\ w = 0 /\ e <= t
          \/ h <= a /\ w # 0 /\ e <= w
          \/ w # 0 /\ a < h /\ e <= t
      BY <1>1, <1>2, <1>4 DEF Placed, Limit
    <2> QED BY <1>4, <1>5, <2>1 DEF Lies
  <1>8. PICK o \in Nat : Lying(h, t, w, a, o) BY <1>7, OffsetOne
  <1>9. Off(msgs[i]) = o BY <1>1, <1>4, <1>8 DEF Off, Behind0, Lying
  <1>10. o < Used BY <1>6, <1>8 DEF Lying
  <1>11. o \in 0..Size BY <1>6, <1>10
  <1>12. Place(o) = msgs[i].at BY <1>1, <1>4, <1>8 DEF Place, Lying
  <1>13. i = 1 => o = 0
    <2>1. i = 1 => a = h BY <1>1, <1>2, <1>3, <1>4 DEF Chain
    <2> QED BY <1>8, <2>1 DEF Lying
  <1>14. i < Len(msgs) => Off(msgs[i + 1]) = o + z
    <2> SUFFICES ASSUME i < Len(msgs) PROVE Off(msgs[i + 1]) = o + z
      OBVIOUS
    <2>1. PICK j \in 1..Len(msgs) : j = i + 1 /\ i < j BY <1>1
    <2>2. PICK b \in Nat : b = msgs[j].at
      <3>1. msgs[j].at \in Nat BY <1>2, Ends
      <3> QED BY <3>1
    <2>3. b = IF w # 0 /\ e = w THEN 0 ELSE e
      BY <1>1, <1>2, <1>4, <2>1, <2>2 DEF Chain, Behind
    <2>4. b >= h => a >= h /\ e <= b
      BY <1>1, <1>2, <1>4, <2>1, <2>2 DEF Ordered
    <2>5. PICK r : r = Behind0(h, w, b) OBVIOUS
    <2>6. Off(msgs[j]) = r BY <1>1, <2>2, <2>5 DEF Off, Behind0
    <2>7. NextAt(h, w, a, e, b) BY <2>3, <2>4 DEF NextAt
    <2>8. Sum(o, z, Behind0(h, w, b)) BY <1>7, <1>8, <2>7, OffsetNext
    <2>9. r = o + z BY <2>5, <2>8 DEF Sum
    <2> QED BY <2>1, <2>6, <2>9
  <1>15. i = Len(msgs) => o + z = Used
    <2> SUFFICES ASSUME i = Len(msgs) PROVE o + z = Used
      OBVIOUS
    <2>1. e = t /\ (w # 0 => a < h)
      BY <1>1, <1>2, <1>3, <1>4 DEF Chain
    <2>2. PICK u : u = Used OBVIOUS
    <2>3. u = IF w = 0 THEN t - h ELSE w - h + t BY <1>6, <2>2
    <2>4. LastAt(h, t, w, a, e, u) BY <2>1, <2>3 DEF LastAt
    <2>5. Sum(o, z, u) BY <1>7, <1>8, <2>4, OffsetLast
    <2> QED BY <2>2, <2>5 DEF Sum
  <1> QED BY <1>4, <1>9, <1>10, <1>11, <1>12, <1>13, <1>14, <1>15

\* A message as the queue of messages has it
Entry(m) == [size |-> m.size, done |-> m.done]

\* The messages in order
Shown == [i \in 1..Len(msgs) |-> Entry(msgs[i])]

\* The messages from the i-th on
ShownFrom(i) == [k \in 1..(Len(msgs) - i + 1) |-> Entry(msgs[i + k - 1])]

\* One element, and more behind it
LEMMA ConcatOne ==
    ASSUME NEW S, NEW e \in S, NEW n \in Nat, NEW r \in Seq(S), Len(r) = n,
           NEW t, t = [k \in 1..(n + 1) |-> IF k = 1 THEN e ELSE r[k - 1]]
    PROVE  <<e>> \o r = t
  <1>1. PICK o \in Seq(S) : o = <<e>>
    <2>1. <<e>> \in Seq(S) OBVIOUS
    <2> QED BY <2>1
  <1>2. Len(o) = 1 /\ o[1] = e BY <1>1
  <1>3. PICK u \in Seq(S) : u = o \o r BY ConcatProperties
  <1>4. /\ Len(u) = 1 + n
        /\ \A i \in 1..(1 + n) : u[i] = IF i <= 1 THEN o[i] ELSE r[i - 1]
    <2>1. /\ Len(o \o r) = Len(o) + Len(r)
          /\ \A i \in 1..(Len(o) + Len(r)) :
                (o \o r)[i] = IF i <= Len(o) THEN o[i] ELSE r[i - Len(o)]
      BY ONLY ConcatProperties
    <2> QED BY <1>2, <1>3, <2>1
  <1>5. u = [k \in 1..(1 + n) |-> u[k]]
    BY <1>4, LenProperties
  <1>6. \A k \in 1..(n + 1) : u[k] = IF k = 1 THEN e ELSE r[k - 1]
    BY <1>2, <1>4
  <1>7. 1 + n = n + 1 OBVIOUS
  <1> QED BY <1>1, <1>3, <1>5, <1>6, <1>7

\* Whoever reads the buffer from head on finds the messages in order.
Readable == Contents = Shown

\* It is so in every state ...
LEMMA ContentsNow == RingInv => Readable
  <1> SUFFICES ASSUME RingInv PROVE Contents = Shown
    BY DEF Readable
  <1> DEFINE E == [size : Sizes, done : BOOLEAN]
  <1>1. PICK f : Contents = f[0] /\ \A n \in 0..Size : f[n] = ReadAt(f, n)
    BY ContentsRead
  <1>2. PICK L \in Nat : L = Len(msgs) BY LenProperties DEF RingInv, TypeOK
  <1>3. Size \in Nat /\ Used \in Nat /\ Used <= Size BY UsedIs
  <1>4. ASSUME NEW i \in 1..L PROVE Entry(msgs[i]) \in E
    <2>1. msgs[i] \in [at : Addr, size : Sizes, done : BOOLEAN]
      BY <1>2, Ends DEF RingInv
    <2> QED BY <2>1 DEF Entry
  <1>5. ASSUME NEW i \in 1..L
        PROVE  ShownFrom(i) \in Seq(E) /\ Len(ShownFrom(i)) = L - i + 1
    <2>1. L - i + 1 \in Nat OBVIOUS
    <2>2. \A k \in 1..(L - i + 1) : Entry(msgs[i + k - 1]) \in E
      <3> SUFFICES ASSUME NEW k \in 1..(L - i + 1) PROVE Entry(msgs[i + k - 1]) \in E
        OBVIOUS
      <3>1. i + k - 1 \in 1..L OBVIOUS
      <3> QED BY <1>4, <3>1
    <2>3. ShownFrom(i) = [k \in 1..(L - i + 1) |-> Entry(msgs[i + k - 1])]
      BY <1>2 DEF ShownFrom
    <2> HIDE DEF E
    <2>4. ShownFrom(i) \in [1..(L - i + 1) -> E] BY <2>2, <2>3
    <2> QED BY <2>1, <2>4
  <1>6. ASSUME NEW i \in 1..L
        PROVE  /\ Off(msgs[i]) \in 0..Size
               /\ f[Off(msgs[i])] = <<Entry(msgs[i])>> \o
                    IF i = L THEN <<>> ELSE f[Off(msgs[i + 1])]
               /\ i < L => Off(msgs[i + 1]) \in 0..Size
    <2>1. PICK o \in 0..Size, z \in Nat :
            /\ o = Off(msgs[i]) /\ z = Need(msgs[i].size)
            /\ o < Used /\ Place(o) = msgs[i].at
            /\ i < L => Off(msgs[i + 1]) = o + z
            /\ i = L => o + z = Used
      <3>1. Need(msgs[i].size) \in Nat
        <4>1. msgs[i].size \in Nat /\ msgs[i].size < 32768
          BY <1>2, Ends DEF RingInv
        <4> QED BY <4>1, NeedOf
      <3> QED BY <1>2, <3>1, Offsets
    <2>2. mem[msgs[i].at] = Entry(msgs[i]) /\ Entry(msgs[i]).size = msgs[i].size
      BY <1>2 DEF RingInv, HeadersKept, Entry
    <2>3. msgs[i].at \in Addr BY <1>2, Ends DEF RingInv
    <2>4. f[o] = <<mem[Place(o)]>> \o
                 IF o + Need(mem[Place(o)].size) > Used THEN <<>>
                 ELSE f[o + Need(mem[Place(o)].size)]
      <3>1. ~(o >= Used) BY <1>3, <2>1
      <3>2. f[o] = ReadAt(f, o) BY <1>1
      <3> QED BY <2>1, <2>3, <3>1, <3>2 DEF ReadAt
    <2>5. f[o] = <<Entry(msgs[i])>> \o IF o + z > Used THEN <<>> ELSE f[o + z]
      BY <2>1, <2>2, <2>4
    <2>6. CASE i = L
      <3>1. o + z = Used /\ ~(o + z > Used) BY <1>3, <2>1, <2>6
      <3>2. f[Used] = <<>>
        <4>1. f[Used] = ReadAt(f, Used) /\ Used >= Used BY <1>1, <1>3
        <4> QED BY <4>1 DEF ReadAt
      <3>3. f[o] = <<Entry(msgs[i])>> \o <<>> BY <2>1, <2>5, <3>1, <3>2
      <3> QED BY <2>1, <2>6, <3>3
    <2>7. CASE i < L
      <3>1. i + 1 \in 1..L BY <2>7
      <3>2. Off(msgs[i + 1]) \in 0..Size /\ Off(msgs[i + 1]) < Used
        BY <1>2, <3>1, Offsets
      <3>3. ~(o + z > Used) BY <1>3, <2>1, <2>7, <3>2
      <3> QED BY <2>1, <2>5, <2>7, <3>2, <3>3
    <2> QED BY <2>6, <2>7
  <1> DEFINE Bad == {j \in 0..(L - 1) : f[Off(msgs[L - j])] # ShownFrom(L - j)}
  <1>7. Bad = {}
    <2> SUFFICES ASSUME Bad # {} PROVE FALSE OBVIOUS
    <2>1. PICK j \in Bad : \A m \in Bad : j <= m
      <3>1. Bad \subseteq Nat OBVIOUS
      <3> HIDE DEF Bad
      <3> QED BY <3>1, LeastOf
    <2>2. PICK i \in 1..L : i = L - j
      <3>1. L - j \in 1..L BY <2>1
      <3> QED BY <3>1
    <2>3. PICK r : r = IF i = L THEN <<>> ELSE f[Off(msgs[i + 1])] OBVIOUS
    <2>4. r \in Seq(E) /\ Len(r) = L - i
          /\ \A k \in 1..(L - i) : r[k] = Entry(msgs[i + k])
      <3>1. CASE i = L
        <4>1. r = <<>> /\ L - i = 0 BY <2>3, <3>1
        <4>2. <<>> \in Seq(E) /\ Len(<<>>) = 0 OBVIOUS
        <4> QED BY <4>1, <4>2
      <3>2. CASE i < L
        <4>1. i + 1 \in 1..L /\ j - 1 \in 0..(L - 1) /\ L - (j - 1) = i + 1
          BY <2>1, <2>2, <3>2
        <4>2. j - 1 \notin Bad BY <2>1, <4>1
        <4>3. r = ShownFrom(i + 1) BY <2>3, <3>2, <4>1, <4>2
        <4>4. L - (i + 1) + 1 = L - i OBVIOUS
        <4>5. \A k \in 1..(L - i) : (i + 1) + k - 1 = i + k OBVIOUS
        <4>6. \A k \in 1..(L - i) : r[k] = Entry(msgs[i + k])
          BY <1>2, <4>3, <4>4, <4>5 DEF ShownFrom
        <4> HIDE DEF E
        <4> QED BY <1>5, <4>1, <4>3, <4>4, <4>6
      <3> QED BY <3>1, <3>2
    <2>5. f[Off(msgs[i])] = <<Entry(msgs[i])>> \o r BY <1>6, <2>3
    <2>6. PICK n \in Nat : n = L - i /\ n + 1 = L - i + 1
      <3>1. L - i \in Nat OBVIOUS
      <3> QED BY <3>1
    <2>7. ShownFrom(i) = [k \in 1..(n + 1) |->
                            IF k = 1 THEN Entry(msgs[i]) ELSE r[k - 1]]
      <3>1. ASSUME NEW k \in 1..(n + 1), k # 1
            PROVE  r[k - 1] = Entry(msgs[i + k - 1])
        <4>1. k - 1 \in 1..(L - i) /\ i + (k - 1) = i + k - 1 BY <2>6, <3>1
        <4> QED BY <2>4, <4>1
      <3>2. i + 1 - 1 = i OBVIOUS
      <3>3. ShownFrom(i) = [k \in 1..(n + 1) |-> Entry(msgs[i + k - 1])]
        BY <1>2, <2>6 DEF ShownFrom
      <3> QED BY <3>1, <3>2, <3>3
    <2>8. Entry(msgs[i]) \in E BY <1>4
    <2> HIDE DEF E
    <2>9. <<Entry(msgs[i])>> \o r = ShownFrom(i)
      BY <2>4, <2>6, <2>7, <2>8, ConcatOne
    <2> QED BY <2>1, <2>2, <2>5, <2>9
  <1>8. CASE L = 0
    <2>1. msgs = <<>> BY <1>2, <1>8, EmptySeq DEF RingInv, TypeOK
    <2>2. head = 0 /\ tail = 0 /\ wrap = 0 BY <2>1 DEF RingInv, Layout, Bounds
    <2>3. 0 >= Used BY <2>2 DEF Used
    <2>4. f[0] = <<>>
      <3>1. f[0] = ReadAt(f, 0) BY <1>1, <1>3
      <3> QED BY <2>3, <3>1 DEF ReadAt
    <2>5. Shown = <<>> BY <1>2, <1>8 DEF Shown
    <2> QED BY <1>1, <2>4, <2>5
  <1>9. CASE L # 0
    <2>1. 1 \in 1..L /\ L - 1 \in 0..(L - 1) /\ L - (L - 1) = 1 BY <1>9
    <2>2. L - 1 \notin Bad BY <1>7
    <2>3. f[Off(msgs[1])] = ShownFrom(1) BY <2>1, <2>2
    <2>4. Off(msgs[1]) = 0 BY <1>2, <2>1, Offsets
    <2>5. ShownFrom(1) = Shown
      <3>1. Len(msgs) - 1 + 1 = Len(msgs) /\ \A k \in 1..Len(msgs) : 1 + k - 1 = k
        BY <1>2
      <3> QED BY <3>1 DEF Shown, ShownFrom
    <2> QED BY <1>1, <2>3, <2>4, <2>5
  <1> QED BY <1>8, <1>9

\* ... and in the next one.
LEMMA ContentsNext == RingInv' => Readable'
  BY ContentsNow, PTL

\* A step of the ring is one of the queue.
LEMMA StepFifo ==
    ASSUME RingInv, RingInv', [Next]_vars
    PROVE  Fifo!Next \/ UNCHANGED Contents
  <1> DEFINE M == [at : Addr, size : Sizes, done : BOOLEAN]
  <1>1. Contents = Shown /\ Contents' = Shown'
    BY ContentsNow, ContentsNext DEF Readable
  <1>2. msgs \in Seq(M) /\ msgs' \in Seq(M) /\ Len(msgs) \in Nat
    <2>1. TypeOK /\ TypeOK' BY DEF RingInv
    <2> QED BY <2>1, LenProperties DEF TypeOK
  <1>3. PICK L \in Nat : L = Len(msgs) BY <1>2
  <1>4. Shown = [i \in 1..L |-> Entry(msgs[i])] BY <1>3 DEF Shown
  <1>5. Shown' = [i \in 1..Len(msgs') |-> Entry(msgs'[i])] BY DEF Shown, Entry
  <1>6. Len(Shown) = L BY <1>4
  <1>7. ASSUME NEW size \in Sizes, Alloc(size)
        PROVE  Contents' = Append(Contents, [size |-> size, done |-> FALSE])
    <2>1. At(Need(size)) \in Addr BY <1>7, AllocPlace
    <2>2. PICK at \in Addr : at = At(Need(size)) BY <2>1
    <2>3. TypeOK BY DEF RingInv
    <2>4. /\ Len(msgs') = Len(msgs) + 1
          /\ \A i \in 1..Len(msgs) : msgs'[i] = msgs[i]
          /\ msgs'[Len(msgs) + 1] = Message(at, size, FALSE)
      BY <1>7, <2>2, <2>3, Appended
    <2>5. Entry(Message(at, size, FALSE)) = [size |-> size, done |-> FALSE]
      BY DEF Entry, Message
    <2>6. \A i \in 1..(L + 1) :
             Entry(msgs'[i]) = IF i = L + 1 THEN [size |-> size, done |-> FALSE]
                               ELSE Entry(msgs[i])
      <3>1. \A i \in 1..(L + 1) : i = L + 1 \/ i \in 1..L OBVIOUS
      <3> QED BY <1>3, <2>4, <2>5, <3>1
    <2>7. Shown' = [i \in 1..(L + 1) |->
                      IF i = L + 1 THEN [size |-> size, done |-> FALSE] ELSE Shown[i]]
      <3>1. \A i \in 1..(L + 1) : i # L + 1 => Shown[i] = Entry(msgs[i])
        BY <1>4
      <3> QED BY <1>3, <1>5, <2>4, <2>6, <3>1
    <2>8. Append(Shown, [size |-> size, done |-> FALSE])
          = [i \in 1..(L + 1) |->
                IF i = L + 1 THEN [size |-> size, done |-> FALSE] ELSE Shown[i]]
      BY <1>6
    <2> QED BY <1>1, <2>7, <2>8
  <1>8. ASSUME NEW k \in 1..Len(msgs), Complete(k)
        PROVE  k \in 1..Len(Contents) /\ Fifo!Finish(k)
    <2>1. PICK m \in M : m = msgs[k] BY Ends DEF RingInv
    <2>2. PICK e \in M : e = Message(m.at, m.size, TRUE)
      <3>1. Message(m.at, m.size, TRUE) \in M BY DEF Message
      <3> QED BY <3>1
    <2>3. ~m.done /\ msgs' = [msgs EXCEPT ![k] = e]
      BY <1>8, <2>1, <2>2 DEF Complete
    <2>4. Entry(m) = [size |-> m.size, done |-> FALSE]
          /\ Entry(e) = [size |-> m.size, done |-> TRUE]
      BY <2>2, <2>3 DEF Entry, Message
    <2> HIDE DEF M
    <2>5. Len([msgs EXCEPT ![k] = e]) = L
          /\ \A j \in 1..L : [msgs EXCEPT ![k] = e][j] = IF j = k THEN e ELSE msgs[j]
      BY <1>2, <1>3, ExceptSeq
    <2>6. Len(msgs') = L /\ \A j \in 1..L : msgs'[j] = IF j = k THEN e ELSE msgs[j]
      BY <2>3, <2>5
    <2>7. Shown' = [j \in 1..L |-> IF j = k THEN Entry(e) ELSE Shown[j]]
      BY <1>4, <1>5, <2>6
    <2>8. Shown[k] = Entry(m) BY <1>3, <1>4, <2>1
    <2>9. [Shown EXCEPT ![k] = [size |-> Shown[k].size, done |-> TRUE]]
          = [j \in 1..L |-> IF j = k THEN Entry(e) ELSE Shown[j]]
      <3>1. [size |-> Shown[k].size, done |-> TRUE] = Entry(e) BY <2>4, <2>8
      <3>2. DOMAIN Shown = 1..L BY <1>4
      <3>3. [Shown EXCEPT ![k] = Entry(e)]
            = [j \in 1..L |-> IF j = k THEN Entry(e) ELSE Shown[j]]
        BY <1>3, <1>4, <3>2
      <3> QED BY <3>1, <3>3
    <2>10. ~Shown[k].done BY <2>4, <2>8
    <2> QED BY <1>1, <1>3, <1>6, <2>7, <2>9, <2>10 DEF Fifo!Finish
  <1>9. ASSUME Free PROVE Fifo!Get
    <2>1. Peek BY <1>9 DEF Free
    <2>2. msgs # <<>> /\ msgs[1].done BY <2>1, PeekIs
    <2>3. msgs' = Tail(msgs) BY <1>9, <2>2 DEF Free
    <2> HIDE DEF M
    <2>4. L >= 1 /\ Len(Tail(msgs)) = L - 1
          /\ \A i \in 1..(L - 1) : Tail(msgs)[i] = msgs[i + 1]
      BY <1>2, <1>3, <2>2, OneLess
    <2>5. Len(msgs') = L - 1 /\ \A i \in 1..(L - 1) : msgs'[i] = msgs[i + 1]
      BY <2>3, <2>4
    <2>6. \A i \in 1..(L - 1) : Shown[i + 1] = Entry(msgs[i + 1])
      <3>1. \A i \in 1..(L - 1) : i + 1 \in 1..L OBVIOUS
      <3> QED BY <1>4, <3>1
    <2>7. Shown' = [i \in 1..(L - 1) |-> Shown[i + 1]]
      BY <1>5, <2>5, <2>6
    <2>9. Shown # <<>> BY <1>6, <2>4
    <2>8. Tail(Shown) = [i \in 1..(L - 1) |-> Shown[i + 1]]
      <3> DEFINE E == {Entry(msgs[i]) : i \in 1..L}
      <3>1. Shown \in Seq(E)
        <4>1. \A i \in 1..L : Shown[i] \in E BY <1>4
        <4> HIDE DEF E
        <4>2. Shown \in [1..L -> E] BY <1>4, <4>1
        <4> QED BY <4>2
      <3> HIDE DEF E
      <3>2. PICK t \in Seq(E) : t = Tail(Shown) BY <2>9, <3>1, OneLess
      <3>3. Len(t) = L - 1 /\ \A i \in 1..(L - 1) : t[i] = Shown[i + 1]
        BY <1>6, <2>9, <3>1, <3>2, OneLess
      <3>4. t = [i \in 1..(L - 1) |-> t[i]] BY <3>2, <3>3, LenProperties
      <3> QED BY <3>2, <3>3, <3>4
    <2>10. Shown[1].done
      <3>1. Shown[1] = Entry(msgs[1]) BY <1>4, <2>4
      <3>2. Entry(msgs[1]).done = msgs[1].done BY DEF Entry
      <3> QED BY <2>2, <3>1, <3>2
    <2> QED BY <1>1, <2>7, <2>8, <2>9, <2>10 DEF Fifo!Get
  <1>10. ASSUME UNCHANGED vars PROVE UNCHANGED Contents
    BY <1>1, <1>4, <1>3, <1>5, <1>10 DEF vars
  <1> QED BY <1>7, <1>8, <1>9, <1>10 DEF Next, Fifo!Next, Fifo!Put

\* The ring with its headers, its wrap and its marks behaves as a queue that
\* messages leave in the order they entered, for every size of the buffer and
\* of the messages (dqueue.c:72-155).
THEOREM RingIsFifo == Spec => FifoSpec
  <1>1. Init => Fifo!Init
    <2> SUFFICES ASSUME Init PROVE Contents = <<>> BY DEF Fifo!Init
    <2>1. RingInv BY InitInv
    <2>2. msgs = <<>> BY DEF Init
    <2>3. Shown = <<>> BY <2>2 DEF Shown
    <2> QED BY <2>1, <2>3, ContentsNow DEF Readable
  <1>2. RingInv /\ RingInv' /\ [Next]_vars => [Fifo!Next]_Contents
    BY StepFifo
  <1>3. QED BY <1>1, <1>2, RingInvariance, PTL DEF Spec, FifoSpec, Fifo!Spec

-----------------------------------------------------------------------------
(* The ring as a whole *)

\* The ring of messages is safe for every size of the buffer and of the
\* messages, and every order of writes, completions and reads
\* (dqueue.c:72-155).
THEOREM RingSafety == Spec => []RingSafe
  BY RingType, NoOverlap, HeadersSafe, EmptyRight, CountSafe, PTL DEF RingSafe

-----------------------------------------------------------------------------
(* The DMA map and its fragments: the inductive invariant *)

\* An entry of the fragment map that has a page.
Split(p) == fragments[p] # {}

\* No page is split by two entries.
OnePart ==
    \A p, r \in Parts :
        p # r /\ Split(p) /\ Split(r) => dma_map_entry[p] # dma_map_entry[r]

\* Nobody else holds a page that is split, or one that another one holds.
HeldApart ==
    /\ streams \cap Fixed = {}
    /\ \A nr \in reqs : nr \in Page => nr \notin streams \cup Fixed
    /\ \A p \in Parts :
          Split(p) => dma_map_entry[p] \notin streams \cup Fixed \cup reqs

\* The fragments in use are those that requests know by their numbers.
Known == \A p \in Parts : fragments[p] = {f \in Frag : Number(p, f) \in reqs}

\* The pages that somebody holds.
HeldPages ==
    Fixed \cup streams \cup {nr \in reqs : nr \in Page}
        \cup {dma_map_entry[p] : p \in {r \in Parts : Split(r)}}

\* Every full page is behind every page that is not.
FullLast ==
    \A i, j \in 1..Len(available_q) :
        i < j /\ fragments[available_q[i]] = Frag => fragments[available_q[j]] = Frag

MapInv ==
    /\ DmaTypeOK /\ QueuesExact /\ OnePart /\ HeldApart /\ Known
    /\ busy = HeldPages /\ FullLast

-----------------------------------------------------------------------------
(* Numbers *)

\* The number of a fragment gives back what it was made of.
LEMMA NumberGivesBack ==
    ASSUME NEW p \in Parts, NEW f \in Frag
    PROVE  /\ Number(p, f) \in Nat /\ Number(p, f) >= 32768
           /\ Number(p, f) \notin Page
           /\ IsFragment(Number(p, f))
           /\ PartOf(Number(p, f)) = p /\ FragOf(Number(p, f)) = f
  <1>1. p \in 0..29 /\ f \in 0..7 /\ Parts # {} /\ Pages \in 1..256
    BY DmaFragAssumption DEF DmaFragAssumption
  <1>2. Number(p, f) \in Nat /\ Number(p, f) >= 32768
    BY <1>1 DEF Number
  <1>3. Number(p, f) \notin Page
    BY <1>1, <1>2 DEF Page
  <1>4. PartOf(Number(p, f)) = p
    BY <1>1 DEF PartOf, Number
  <1>5. FragOf(Number(p, f)) = f
    BY <1>1 DEF FragOf, Number
  <1>6. QED BY <1>1, <1>2, <1>3, <1>4, <1>5 DEF IsFragment

\* The number of a page is not taken for that of a fragment.
LEMMA PageNumber ==
    ASSUME NEW nr \in Page
    PROVE  /\ nr \in Nat /\ nr < 32768 /\ nr # NoPage /\ ~IsFragment(nr)
           /\ \A p \in Parts, f \in Frag : Number(p, f) # nr
  <1>1. Pages \in 1..256
    BY DmaFragAssumption DEF DmaFragAssumption
  <1>2. nr \in Nat /\ nr < 32768 /\ nr # NoPage /\ ~IsFragment(nr)
    BY <1>1 DEF Page, NoPage, IsFragment
  <1>3. QED BY <1>2, NumberGivesBack

\* What a request holds is a page or a fragment.
LEMMA Numbers ==
    ASSUME DmaTypeOK, NEW nr \in reqs
    PROVE  \/ nr \in Page /\ ~IsFragment(nr)
           \/ /\ nr \notin Page /\ IsFragment(nr)
              /\ PartOf(nr) \in Parts /\ FragOf(nr) \in Frag
              /\ nr = Number(PartOf(nr), FragOf(nr))
  <1>1. CASE nr \in Page
    BY <1>1, PageNumber
  <1>2. CASE nr \notin Page
    <2>1. PICK p \in Parts, f \in Frag : nr = Number(p, f)
      BY <1>2 DEF DmaTypeOK
    <2>2. QED BY <2>1, NumberGivesBack
  <1>3. QED BY <1>1, <1>2

-----------------------------------------------------------------------------
(* Queues *)

\* q has no element twice.
Distinct(q) == \A i, j \in 1..Len(q) : q[i] = q[j] => i = j

\* What is left of a queue is what was there, in the same order.
LEMMA WithoutElement ==
    ASSUME NEW S, NEW q \in Seq(S), Distinct(q), NEW e \in Elements(q)
    PROVE  /\ Without(q, e) \in Seq(S)
           /\ Len(Without(q, e)) = Len(q) - 1 /\ Len(q) \in Nat /\ Len(q) >= 1
           /\ Elements(Without(q, e)) = Elements(q) \ {e}
           /\ Distinct(Without(q, e))
           /\ \E k \in 1..Len(q) :
                 /\ q[k] = e
                 /\ \A i \in 1..Len(q) - 1 :
                       Without(q, e)[i] = IF i < k THEN q[i] ELSE q[i + 1]
  <1>. DEFINE k == CHOOSE i \in 1..Len(q) : q[i] = e
              n == Len(q)
              w == Without(q, e)
  <1>1. k \in 1..n /\ q[k] = e /\ n \in Nat
    BY DEF Elements
  <1>2. w = [i \in 1..n - 1 |-> IF i < k THEN q[i] ELSE q[i + 1]]
    BY DEF Without
  <1>3. \A i \in 1..n : q[i] \in S
    OBVIOUS
  <1>. HIDE DEF k, w
  <1>4. n - 1 \in Nat
    BY <1>1
  <1>5. \A i \in 1..n - 1 : w[i] = (IF i < k THEN q[i] ELSE q[i + 1]) /\ w[i] \in S
    <2>1. SUFFICES ASSUME NEW i \in 1..n - 1
                   PROVE  w[i] = (IF i < k THEN q[i] ELSE q[i + 1]) /\ w[i] \in S
      OBVIOUS
    <2>2. i \in 1..n /\ i + 1 \in 1..n
      BY <1>1
    <2>3. QED BY <1>2, <1>3, <2>2
  <1>6. w \in Seq(S) /\ Len(w) = n - 1
    <2>1. w \in [1..n - 1 -> S]
      BY <1>2, <1>5
    <2>. HIDE DEF n
    <2>2. QED BY <2>1, <1>4
  <1>7. ASSUME NEW i \in 1..n - 1
        PROVE  \E j \in 1..n : w[i] = q[j] /\ j # k
    <2>1. CASE i < k
      <3>1. i \in 1..n /\ i # k
        BY <2>1, <1>1
      <3>2. QED BY <3>1, <2>1, <1>5
    <2>2. CASE ~(i < k)
      <3>1. i + 1 \in 1..n /\ i + 1 # k
        BY <2>2, <1>1
      <3>2. QED BY <3>1, <2>2, <1>5
    <2>3. QED BY <2>1, <2>2
  <1>8. ASSUME NEW j \in 1..n, j # k
        PROVE  \E i \in 1..n - 1 : w[i] = q[j]
    <2>1. CASE j < k
      <3>1. j \in 1..n - 1
        BY <2>1, <1>1
      <3>2. QED BY <3>1, <2>1, <1>5
    <2>2. CASE ~(j < k)
      <3>1. j - 1 \in 1..n - 1 /\ ~(j - 1 < k) /\ j - 1 + 1 = j
        BY <2>2, <1>8, <1>1
      <3>2. QED BY <3>1, <1>5
    <2>3. QED BY <2>1, <2>2
  <1>9. Elements(w) = Elements(q) \ {e}
    <2>1. ASSUME NEW x \in Elements(w) PROVE x \in Elements(q) \ {e}
      <3>1. PICK i \in 1..n - 1 : x = w[i]
        BY <1>6 DEF Elements
      <3>2. PICK j \in 1..n : w[i] = q[j] /\ j # k
        BY <1>7
      <3>3. QED BY <3>1, <3>2, <1>1 DEF Elements, Distinct
    <2>2. ASSUME NEW x \in Elements(q) \ {e} PROVE x \in Elements(w)
      <3>1. PICK j \in 1..n : x = q[j]
        BY DEF Elements
      <3>2. j # k
        BY <3>1, <1>1
      <3>3. PICK i \in 1..n - 1 : w[i] = q[j]
        BY <3>2, <1>8
      <3>4. QED BY <3>1, <3>3, <1>6 DEF Elements
    <2>3. QED BY <2>1, <2>2
  <1>10. Distinct(w)
    <2>1. SUFFICES ASSUME NEW i \in 1..n - 1, NEW j \in 1..n - 1, w[i] = w[j]
                   PROVE  i = j
      BY <1>6 DEF Distinct
    <2>2. i \in 1..n /\ i + 1 \in 1..n /\ j \in 1..n /\ j + 1 \in 1..n
      BY <1>1
    <2>3. \A x, y \in 1..n : q[x] = q[y] => x = y
      BY DEF Distinct
    <2>4. CASE i < k /\ j < k
      BY <2>1, <2>2, <2>3, <2>4, <1>5
    <2>5. CASE ~(i < k) /\ ~(j < k)
      <3>1. i + 1 = j + 1
        BY <2>1, <2>2, <2>3, <2>5, <1>5
      <3>2. QED BY <3>1
    <2>6. CASE i < k /\ ~(j < k)
      <3>1. i = j + 1
        BY <2>1, <2>2, <2>3, <2>6, <1>5
      <3>2. QED BY <3>1, <2>6, <1>1
    <2>7. CASE ~(i < k) /\ j < k
      <3>1. j = i + 1
        BY <2>1, <2>2, <2>3, <2>7, <1>5
      <3>2. QED BY <3>1, <2>7, <1>1
    <2>8. QED BY <2>4, <2>5, <2>6, <2>7
  <1>11. QED BY <1>1, <1>4, <1>5, <1>6, <1>9, <1>10 DEF w

\* A new element at the head ...
LEMMA AtFront ==
    ASSUME NEW S, NEW q \in Seq(S), Distinct(q), NEW e \in S, e \notin Elements(q)
    PROVE  /\ <<e>> \o q \in Seq(S) /\ Len(<<e>> \o q) = Len(q) + 1 /\ Len(q) \in Nat
           /\ (<<e>> \o q)[1] = e
           /\ \A i \in 1..Len(q) : (<<e>> \o q)[i + 1] = q[i]
           /\ Elements(<<e>> \o q) = Elements(q) \cup {e}
           /\ Distinct(<<e>> \o q)
  <1>. DEFINE n == Len(q)
              w == <<e>> \o q
  <1>1. n \in Nat /\ w \in Seq(S) /\ Len(w) = n + 1
    OBVIOUS
  <1>2. w[1] = e /\ \A i \in 1..n : w[i + 1] = q[i]
    <2>1. <<e>> \in Seq(S) /\ Len(<<e>>) = 1 /\ <<e>>[1] = e
      OBVIOUS
    <2>. HIDE DEF n, w
    <2>2. n = Len(q) /\ w = <<e>> \o q
      BY DEF n, w
    <2>3. \A j \in 1..1 + n : w[j] = IF j <= 1 THEN <<e>>[j] ELSE q[j - 1]
      BY <2>1, <2>2, ConcatProperties
    <2>4. ASSUME NEW i \in 1..n PROVE w[i + 1] = q[i]
      <3>. DEFINE j == i + 1
      <3>1. j \in 1..1 + n /\ ~(j <= 1) /\ j - 1 = i
        BY <1>1
      <3>. HIDE DEF j
      <3>2. w[j] = q[i]
        BY <3>1, <2>3
      <3>3. QED BY <3>2 DEF j
    <2>5. 1 \in 1..1 + n /\ 1 <= 1
      BY <1>1
    <2>6. w[1] = e
      BY <2>1, <2>3, <2>5
    <2>7. QED BY <2>4, <2>6
  <1>. HIDE DEF w
  <1>3. \A j \in 1..n + 1 : j # 1 => j - 1 \in 1..n /\ w[j] = q[j - 1]
    <2>1. ASSUME NEW j \in 1..n + 1, j # 1
          PROVE  j - 1 \in 1..n /\ w[j] = q[j - 1]
      <3>. DEFINE i == j - 1
      <3>1. i \in 1..n /\ i + 1 = j
        BY <1>1, <2>1
      <3>. HIDE DEF i, w
      <3>2. w[j] = q[i]
        BY <3>1, <1>2
      <3>3. QED BY <3>1, <3>2 DEF i
    <2>2. QED BY <2>1
  <1>. HIDE DEF w, n
  <1>4. Elements(w) = Elements(q) \cup {e}
    <2>1. ASSUME NEW x \in Elements(w) PROVE x \in Elements(q) \cup {e}
      <3>1. PICK j \in 1..n + 1 : x = w[j]
        BY <1>1 DEF Elements
      <3>2. QED BY <3>1, <1>2, <1>3 DEF Elements, n
    <2>2. ASSUME NEW x \in Elements(q) PROVE x \in Elements(w)
      <3>1. PICK i \in 1..n : x = q[i]
        BY DEF Elements, n
      <3>2. i + 1 \in 1..n + 1
        BY <1>1
      <3>3. QED BY <3>1, <3>2, <1>1, <1>2 DEF Elements
    <2>3. e \in Elements(w)
      <3>1. 1 \in 1..n + 1
        BY <1>1
      <3>2. QED BY <3>1, <1>1, <1>2 DEF Elements
    <2>4. QED BY <2>1, <2>2, <2>3
  <1>5. Distinct(w)
    <2>1. SUFFICES ASSUME NEW i \in 1..n + 1, NEW j \in 1..n + 1, w[i] = w[j]
                   PROVE  i = j
      BY <1>1 DEF Distinct
    <2>2. \A x \in 1..n : q[x] # e
      BY DEF Elements, n
    <2>3. \A x, y \in 1..n : q[x] = q[y] => x = y
      BY DEF Distinct, n
    <2>4. CASE i = 1
      BY <2>1, <2>2, <2>4, <1>2, <1>3
    <2>5. CASE j = 1
      BY <2>1, <2>2, <2>5, <1>2, <1>3
    <2>6. CASE i # 1 /\ j # 1
      <3>1. i - 1 = j - 1
        BY <2>1, <2>3, <2>6, <1>3
      <3>2. QED BY <3>1
    <2>7. QED BY <2>4, <2>5, <2>6
  <1>6. QED BY <1>1, <1>2, <1>4, <1>5 DEF w, n

\* ... or at the end.
LEMMA AtEnd ==
    ASSUME NEW S, NEW q \in Seq(S), Distinct(q), NEW e \in S, e \notin Elements(q)
    PROVE  /\ Append(q, e) \in Seq(S) /\ Len(Append(q, e)) = Len(q) + 1 /\ Len(q) \in Nat
           /\ \A i \in 1..Len(q) : Append(q, e)[i] = q[i]
           /\ Append(q, e)[Len(q) + 1] = e
           /\ Elements(Append(q, e)) = Elements(q) \cup {e}
           /\ Distinct(Append(q, e))
  <1>. DEFINE n == Len(q)
              w == Append(q, e)
  <1>1. n \in Nat /\ w \in Seq(S) /\ Len(w) = n + 1
    OBVIOUS
  <1>2. w[n + 1] = e /\ \A i \in 1..n : w[i] = q[i]
    OBVIOUS
  <1>. HIDE DEF w, n
  <1>3. \A j \in 1..n + 1 : j = n + 1 \/ j \in 1..n
    BY <1>1
  <1>4. Elements(w) = Elements(q) \cup {e}
    <2>1. ASSUME NEW x \in Elements(w) PROVE x \in Elements(q) \cup {e}
      <3>1. PICK j \in 1..n + 1 : x = w[j]
        BY <1>1 DEF Elements
      <3>2. QED BY <3>1, <1>2, <1>3 DEF Elements, n
    <2>2. ASSUME NEW x \in Elements(q) PROVE x \in Elements(w)
      <3>1. PICK i \in 1..n : x = q[i]
        BY DEF Elements, n
      <3>2. i \in 1..n + 1
        BY <1>1
      <3>3. QED BY <3>1, <3>2, <1>1, <1>2 DEF Elements
    <2>3. e \in Elements(w)
      <3>1. n + 1 \in 1..n + 1
        BY <1>1
      <3>2. QED BY <3>1, <1>1, <1>2 DEF Elements
    <2>4. QED BY <2>1, <2>2, <2>3
  <1>5. Distinct(w)
    <2>1. SUFFICES ASSUME NEW i \in 1..n + 1, NEW j \in 1..n + 1, w[i] = w[j]
                   PROVE  i = j
      BY <1>1 DEF Distinct
    <2>2. \A x \in 1..n : q[x] # e
      BY DEF Elements, n
    <2>3. \A x, y \in 1..n : q[x] = q[y] => x = y
      BY DEF Distinct, n
    <2>4. QED BY <2>1, <2>2, <2>3, <1>2, <1>3
  <1>6. QED BY <1>1, <1>2, <1>4, <1>5 DEF w, n

\* A queue without its head.
LEMMA WithoutHead ==
    ASSUME NEW S, NEW q \in Seq(S), Distinct(q), q # <<>>
    PROVE  /\ Tail(q) \in Seq(S) /\ Head(q) \in S /\ Head(q) \in Elements(q)
           /\ Elements(Tail(q)) = Elements(q) \ {Head(q)}
           /\ Distinct(Tail(q))
  <1>. DEFINE n == Len(q)
              w == Tail(q)
  <1>1. /\ n \in Nat /\ n >= 1 /\ w \in Seq(S) /\ Len(w) = n - 1
        /\ Head(q) = q[1] /\ q[1] \in S
    OBVIOUS
  <1>2. \A i \in 1..n - 1 : w[i] = q[i + 1] /\ i + 1 \in 1..n /\ i + 1 # 1
    OBVIOUS
  <1>. HIDE DEF w, n
  <1>3. 1 \in 1..n
    BY <1>1
  <1>4. \A x, y \in 1..n : q[x] = q[y] => x = y
    BY DEF Distinct, n
  <1>5. Elements(w) = Elements(q) \ {q[1]}
    <2>1. ASSUME NEW x \in Elements(w) PROVE x \in Elements(q) \ {q[1]}
      <3>1. PICK i \in 1..n - 1 : x = w[i]
        BY <1>1 DEF Elements
      <3>2. QED BY <3>1, <1>2, <1>3, <1>4 DEF Elements, n
    <2>2. ASSUME NEW x \in Elements(q) \ {q[1]} PROVE x \in Elements(w)
      <3>1. PICK j \in 1..n : x = q[j]
        BY DEF Elements, n
      <3>2. j # 1
        BY <3>1, <2>2
      <3>3. j - 1 \in 1..n - 1 /\ j - 1 + 1 = j
        BY <3>2, <1>1
      <3>4. w[j - 1] = q[j]
        BY <3>3, <1>2
      <3>5. QED BY <3>1, <3>3, <3>4, <1>1 DEF Elements
    <2>3. QED BY <2>1, <2>2
  <1>6. Distinct(w)
    <2>1. SUFFICES ASSUME NEW i \in 1..n - 1, NEW j \in 1..n - 1, w[i] = w[j]
                   PROVE  i = j
      BY <1>1 DEF Distinct
    <2>2. i + 1 = j + 1
      BY <2>1, <1>2, <1>4
    <2>3. QED BY <2>2
  <1>7. Head(q) \in Elements(q)
    BY <1>1, <1>3 DEF Elements, n
  <1>8. QED BY <1>1, <1>5, <1>6, <1>7 DEF w

\* Two queues, one behind the other.
LEMMA Joined ==
    ASSUME NEW S, NEW q \in Seq(S), NEW r \in Seq(S), Distinct(q), Distinct(r),
           Elements(q) \cap Elements(r) = {}
    PROVE  /\ q \o r \in Seq(S)
           /\ Elements(q \o r) = Elements(q) \cup Elements(r)
           /\ Distinct(q \o r)
  <1>. DEFINE n == Len(q)
              k == Len(r)
              w == q \o r
  <1>1. n \in Nat /\ k \in Nat /\ w \in Seq(S) /\ Len(w) = n + k
    OBVIOUS
  <1>2. \A i \in 1..n + k : w[i] = IF i <= n THEN q[i] ELSE r[i - n]
    OBVIOUS
  <1>. HIDE DEF w, n, k
  <1>3. \A i \in 1..n + k : IF i <= n THEN i \in 1..n ELSE i - n \in 1..k
    BY <1>1
  <1>4. /\ \A x, y \in 1..n : q[x] = q[y] => x = y
        /\ \A x, y \in 1..k : r[x] = r[y] => x = y
    BY DEF Distinct, n, k
  <1>5. \A x \in 1..n, y \in 1..k : q[x] # r[y]
    BY DEF Elements, n, k
  <1>6. Elements(w) = Elements(q) \cup Elements(r)
    <2>1. ASSUME NEW x \in Elements(w) PROVE x \in Elements(q) \cup Elements(r)
      <3>1. PICK j \in 1..n + k : x = w[j]
        BY <1>1 DEF Elements
      <3>2. QED BY <3>1, <1>2, <1>3 DEF Elements, n, k
    <2>2. ASSUME NEW x \in Elements(q) PROVE x \in Elements(w)
      <3>1. PICK i \in 1..n : x = q[i]
        BY DEF Elements, n
      <3>2. i \in 1..n + k /\ i <= n
        BY <1>1
      <3>3. QED BY <3>1, <3>2, <1>1, <1>2 DEF Elements
    <2>3. ASSUME NEW x \in Elements(r) PROVE x \in Elements(w)
      <3>1. PICK i \in 1..k : x = r[i]
        BY DEF Elements, k
      <3>2. i + n \in 1..n + k /\ ~(i + n <= n) /\ i + n - n = i
        BY <1>1
      <3>. DEFINE j == i + n
      <3>3. w[j] = r[j - n]
        BY <3>2, <1>2
      <3>4. w[j] = r[i]
        <4>1. j - n = i
          BY <1>1
        <4>. HIDE DEF j
        <4>2. QED BY <4>1, <3>3
      <3>5. QED BY <3>1, <3>2, <3>4, <1>1 DEF Elements
    <2>4. QED BY <2>1, <2>2, <2>3
  <1>7. Distinct(w)
    <2>1. SUFFICES ASSUME NEW i \in 1..n + k, NEW j \in 1..n + k, w[i] = w[j]
                   PROVE  i = j
      BY <1>1 DEF Distinct
    <2>2. CASE i <= n /\ j <= n
      BY <2>1, <2>2, <1>2, <1>3, <1>4
    <2>3. CASE ~(i <= n) /\ ~(j <= n)
      <3>1. i - n = j - n
        BY <2>1, <2>3, <1>2, <1>3, <1>4
      <3>2. QED BY <3>1, <1>1
    <2>4. CASE i <= n /\ ~(j <= n)
      BY <2>1, <2>4, <1>2, <1>3, <1>5
    <2>5. CASE ~(i <= n) /\ j <= n
      BY <2>1, <2>5, <1>2, <1>3, <1>5
    <2>6. QED BY <2>2, <2>3, <2>4, <2>5
  <1>8. QED BY <1>1, <1>6, <1>7 DEF w

-----------------------------------------------------------------------------
(* The invariant holds at first *)

\* What the other parts say of an entry of the fragment map.
LEMMA PartFacts ==
    ASSUME MapInv, NEW p \in Parts
    PROVE  /\ fragments[p] \subseteq Frag
           /\ p \in Elements(available_q) <=> Split(p)
           /\ p \in Elements(free_q) <=> ~Split(p)
           /\ Split(p) => dma_map_entry[p] \in Page
           /\ ~Split(p) => dma_map_entry[p] = NoPage
           /\ NoPage \notin Page
  <1>1. NoPage \notin Page
    BY PageNumber
  <1>2. QED BY <1>1 DEF MapInv, DmaTypeOK, QueuesExact, Split

LEMMA MapInitInv == DmaInit => MapInv
  <1>. SUFFICES ASSUME DmaInit PROVE MapInv
    OBVIOUS
  <1>1. Cardinality(Parts) \in Nat
    <2>1. IsFiniteSet(0..29)
      BY FS_Interval, 0 \in Int, 29 \in Int
    <2>2. IsFiniteSet(Parts)
      BY <2>1, FS_Subset, DmaFragAssumption DEF DmaFragAssumption
    <2>3. QED BY <2>2, FS_CardinalityType
  <1>2. /\ free_q \in Seq(Parts) /\ Len(free_q) = Cardinality(Parts)
        /\ Elements(free_q) = Parts
    BY <1>1 DEF DmaInit
  <1>3. Distinct(free_q)
    <2>1. SUFFICES ASSUME NEW i \in 1..Cardinality(Parts), NEW j \in 1..Cardinality(Parts),
                          free_q[i] = free_q[j]
                   PROVE  i = j
      BY <1>2 DEF Distinct
    <2>2. free_q[i] \in 0..29 /\ free_q[j] \in 0..29
      <3>1. free_q[i] \in Parts /\ free_q[j] \in Parts
        BY DEF DmaInit
      <3>2. QED BY <3>1, DmaFragAssumption DEF DmaFragAssumption
    <2>3. /\ i < j => free_q[i] < free_q[j]
          /\ j < i => free_q[j] < free_q[i]
      BY DEF DmaInit
    <2>4. ~(i < j) /\ ~(j < i)
      BY <2>1, <2>2, <2>3
    <2>5. QED BY <2>4, <1>1
  <1>4. available_q = <<>> /\ Len(available_q) = 0 /\ Elements(available_q) = {}
    BY DEF DmaInit, Elements
  <1>5. Distinct(available_q)
    BY <1>4 DEF Distinct
  <1>6. DmaTypeOK
    <2>1. Fixed \subseteq Page
      BY DmaFragAssumption DEF DmaFragAssumption, Page
    <2>2. QED BY <1>2, <1>4, <2>1 DEF DmaInit, DmaTypeOK
  <1>7. QueuesExact
    <2>1. \A q \in {free_q, available_q} : \A i, j \in 1..Len(q) : q[i] = q[j] => i = j
      BY <1>3, <1>5 DEF Distinct
    <2>2. QED BY <1>2, <1>4, <2>1 DEF DmaInit, QueuesExact
  <1>8. \A p \in Parts : ~Split(p)
    BY DEF DmaInit, Split
  <1>9. OnePart /\ HeldApart /\ Known /\ busy = HeldPages
    BY <1>8 DEF DmaInit, OnePart, HeldApart, Known, HeldPages
  <1>10. FullLast
    BY <1>4 DEF FullLast
  <1>11. QED BY <1>6, <1>7, <1>9, <1>10 DEF MapInv

-----------------------------------------------------------------------------
(* Pages *)

\* A page that is not busy is held by nobody.
LEMMA FreeIsFree ==
    ASSUME MapInv, NEW nr \in Page, FirstFree(nr)
    PROVE  /\ nr \notin busy /\ nr \notin Fixed \cup streams \cup reqs
           /\ \A p \in Parts : Split(p) => dma_map_entry[p] # nr
  BY DEF MapInv, FirstFree, HeldPages

\* The fragment map is not touched.
LEMMA SameMap ==
    ASSUME MapInv, UNCHANGED mapVars
    PROVE  /\ QueuesExact' /\ OnePart' /\ FullLast'
           /\ dma_map_entry' = dma_map_entry /\ fragments' = fragments
           /\ dma_map_entry' \in [Parts -> Page \cup {NoPage}]
           /\ fragments' \in [Parts -> SUBSET Frag]
           /\ free_q' \in Seq(Parts) /\ available_q' \in Seq(Parts)
           /\ \A p \in Parts : Split(p)' <=> Split(p)
  BY DEF MapInv, DmaTypeOK, mapVars, QueuesExact, OnePart, FullLast, Split

LEMMA AllocPageInv ==
    ASSUME MapInv, NEW nr \in Page, AllocPage(nr)
    PROVE  MapInv'
  <1>1. /\ FirstFree(nr) /\ busy' = busy \cup {nr} /\ reqs' = reqs \cup {nr}
        /\ UNCHANGED mapVars /\ streams' = streams
    BY DEF AllocPage
  <1>2. DmaTypeOK'
    BY <1>1, SameMap DEF MapInv, DmaTypeOK
  <1>3. HeldApart'
    BY <1>1, SameMap, FreeIsFree DEF MapInv, HeldApart
  <1>4. Known'
    BY <1>1, SameMap, PageNumber DEF MapInv, Known
  <1>5. busy' = HeldPages'
    BY <1>1, SameMap DEF MapInv, HeldPages
  <1>6. QED BY <1>1, <1>2, <1>3, <1>4, <1>5, SameMap DEF MapInv

LEMMA FreePageInv ==
    ASSUME MapInv, NEW nr \in reqs, FreePage(nr)
    PROVE  MapInv'
  <1>1. /\ ~IsFragment(nr) /\ busy' = busy \ {nr} /\ reqs' = reqs \ {nr}
        /\ UNCHANGED mapVars /\ streams' = streams
    BY DEF FreePage
  <1>2. nr \in Page
    BY <1>1, Numbers DEF MapInv
  <1>3. DmaTypeOK'
    BY <1>1, SameMap DEF MapInv, DmaTypeOK
  <1>4. HeldApart'
    BY <1>1, SameMap DEF MapInv, HeldApart
  <1>5. Known'
    BY <1>1, <1>2, SameMap, PageNumber DEF MapInv, Known
  <1>6. nr \notin Fixed \cup streams /\ \A p \in Parts : Split(p) => dma_map_entry[p] # nr
    BY <1>2 DEF MapInv, HeldApart
  <1>7. busy' = HeldPages'
    BY <1>1, <1>2, <1>6, SameMap DEF MapInv, HeldPages
  <1>8. QED BY <1>1, <1>3, <1>4, <1>5, <1>7, SameMap DEF MapInv

LEMMA StreamInv ==
    ASSUME MapInv, NEW nr \in Page,
           StreamAlloc(nr) \/ (nr \in streams /\ StreamFree(nr))
    PROVE  MapInv'
  <1>1. /\ reqs' = reqs /\ UNCHANGED mapVars
    BY DEF StreamAlloc, StreamFree
  <1>2. Known'
    BY <1>1, SameMap DEF MapInv, Known
  <1>3. CASE StreamAlloc(nr)
    <2>1. FirstFree(nr) /\ busy' = busy \cup {nr} /\ streams' = streams \cup {nr}
      BY <1>3 DEF StreamAlloc
    <2>2. DmaTypeOK'
      BY <1>1, <2>1, SameMap DEF MapInv, DmaTypeOK
    <2>3. HeldApart'
      BY <1>1, <2>1, SameMap, FreeIsFree DEF MapInv, HeldApart
    <2>4. busy' = HeldPages'
      BY <1>1, <2>1, SameMap DEF MapInv, HeldPages
    <2>5. QED BY <1>1, <1>2, <2>2, <2>3, <2>4, SameMap DEF MapInv
  <1>4. CASE nr \in streams /\ StreamFree(nr)
    <2>1. busy' = busy \ {nr} /\ streams' = streams \ {nr}
      BY <1>4 DEF StreamFree
    <2>2. DmaTypeOK'
      BY <1>1, <2>1, SameMap DEF MapInv, DmaTypeOK
    <2>3. HeldApart'
      BY <1>1, <2>1, SameMap DEF MapInv, HeldApart
    <2>4. /\ nr \notin Fixed /\ nr \notin reqs
          /\ \A p \in Parts : Split(p) => dma_map_entry[p] # nr
      BY <1>4 DEF MapInv, HeldApart
    <2>5. busy' = HeldPages'
      BY <1>1, <2>1, <2>4, SameMap DEF MapInv, HeldPages
    <2>6. QED BY <1>1, <1>2, <2>2, <2>3, <2>5, SameMap DEF MapInv
  <1>5. QED BY <1>3, <1>4

-----------------------------------------------------------------------------
(* Fragments *)

\* The queues of fragments, with what the lemmas about queues ask for.
LEMMA QueueFacts ==
    ASSUME MapInv
    PROVE  /\ free_q \in Seq(Parts) /\ available_q \in Seq(Parts)
           /\ Distinct(free_q) /\ Distinct(available_q)
           /\ Elements(free_q) \cap Elements(available_q) = {}
           /\ Elements(free_q) \subseteq Parts /\ Elements(available_q) \subseteq Parts
  <1>1. /\ free_q \in Seq(Parts) /\ available_q \in Seq(Parts)
        /\ Distinct(free_q) /\ Distinct(available_q)
        /\ Elements(free_q) \cap Elements(available_q) = {}
    BY DEF MapInv, DmaTypeOK, QueuesExact, Distinct
  <1>2. Elements(free_q) \subseteq Parts /\ Elements(available_q) \subseteq Parts
    BY <1>1 DEF Elements
  <1>3. QED BY <1>1, <1>2

\* QueuesExact in terms of the lemmas about queues.
LEMMA QueuesFrom ==
    ASSUME Distinct(free_q)', Distinct(available_q)',
           (Elements(free_q) \cap Elements(available_q) = {})',
           \A p \in Parts :
              /\ p \in Elements(available_q)' <=> fragments'[p] # {}
              /\ p \in Elements(free_q)' <=> fragments'[p] = {}
              /\ fragments'[p] = {} <=> dma_map_entry'[p] = NoPage
    PROVE  QueuesExact'
  BY DEF QueuesExact, Distinct

\* The number of another fragment is another one.
LEMMA OtherNumber ==
    ASSUME NEW p \in Parts, NEW f \in Frag, NEW r \in Parts, NEW g \in Frag,
           Number(p, f) = Number(r, g)
    PROVE  p = r /\ f = g
  BY NumberGivesBack

\* Taking a fragment, what is new in reqs and in fragments goes together.
LEMMA KnownWith ==
    ASSUME MapInv, NEW p \in Parts, NEW f \in Frag,
           fragments' = [fragments EXCEPT ![p] = @ \cup {f}],
           reqs' = reqs \cup {Number(p, f)}
    PROVE  Known'
  <1>1. SUFFICES ASSUME NEW r \in Parts, NEW g \in Frag
                 PROVE  g \in fragments'[r] <=> Number(r, g) \in reqs'
    BY PartFacts DEF Known, MapInv, DmaTypeOK
  <1>2. g \in fragments[r] <=> Number(r, g) \in reqs
    BY DEF MapInv, Known
  <1>3. g \in fragments'[r] <=> g \in fragments[r] \/ (r = p /\ g = f)
    BY DEF MapInv, DmaTypeOK
  <1>4. Number(r, g) \in reqs' <=> Number(r, g) \in reqs \/ (r = p /\ g = f)
    BY OtherNumber
  <1>5. QED BY <1>2, <1>3, <1>4

LEMMA AllocFragmentInv ==
    ASSUME MapInv, NEW f \in Frag, AllocFragment(f)
    PROVE  MapInv'
  <1>. DEFINE p == Head(available_q)
  <1>1. /\ available_q # <<>> /\ fragments[p] # Frag
        /\ fragments' = [fragments EXCEPT ![p] = @ \cup {f}]
        /\ available_q' = (IF fragments'[p] = Frag
                           THEN Append(Without(available_q, p), p) ELSE available_q)
        /\ reqs' = reqs \cup {Number(p, f)}
        /\ busy' = busy /\ dma_map_entry' = dma_map_entry
        /\ free_q' = free_q /\ streams' = streams
    BY DEF AllocFragment, HeadHasRoom, FullToTail
  <1>2. /\ p \in Parts /\ p \in Elements(available_q) /\ p = available_q[1]
        /\ Len(available_q) \in Nat /\ Len(available_q) >= 1
    <2>1. p \in Parts /\ p \in Elements(available_q)
      BY <1>1, QueueFacts, WithoutHead
    <2>2. p = available_q[1] /\ Len(available_q) \in Nat /\ Len(available_q) >= 1
      BY <1>1, QueueFacts
    <2>3. QED BY <2>1, <2>2
  <1>. HIDE DEF p
  <1>3. Split(p)
    BY <1>2, PartFacts
  <1>4. /\ available_q' \in Seq(Parts) /\ Elements(available_q)' = Elements(available_q)
        /\ Distinct(available_q)'
    <2>1. CASE fragments'[p] # Frag
      BY <2>1, <1>1, QueueFacts
    <2>2. CASE fragments'[p] = Frag
      <3>1. /\ Without(available_q, p) \in Seq(Parts)
            /\ Elements(Without(available_q, p)) = Elements(available_q) \ {p}
            /\ Distinct(Without(available_q, p))
        BY <1>2, QueueFacts, WithoutElement
      <3>2. /\ Append(Without(available_q, p), p) \in Seq(Parts)
            /\ Elements(Append(Without(available_q, p), p)) = (Elements(available_q) \ {p}) \cup {p}
            /\ Distinct(Append(Without(available_q, p), p))
        BY <3>1, <1>2, AtEnd
      <3>3. available_q' = Append(Without(available_q, p), p)
        BY <1>1, <2>2
      <3>4. QED BY <3>2, <3>3, <1>2
    <2>3. QED BY <2>1, <2>2
  <1>5. /\ fragments' \in [Parts -> SUBSET Frag]
        /\ \A r \in Parts : Split(r)' <=> Split(r)
        /\ \A r \in Parts : r # p => fragments'[r] = fragments[r]
        /\ \A r \in Parts : fragments'[r] = {} <=> fragments[r] = {}
    BY <1>1, <1>2, <1>3 DEF MapInv, DmaTypeOK, Split
  <1>6. DmaTypeOK'
    <2>1. Number(p, f) \in {Number(r, g) : r \in Parts, g \in Frag}
      BY <1>2
    <2>2. QED BY <1>1, <1>4, <1>5, <2>1 DEF MapInv, DmaTypeOK
  <1>7. QueuesExact'
    <2>1. \A r \in Parts :
              /\ r \in Elements(available_q)' <=> fragments'[r] # {}
              /\ r \in Elements(free_q)' <=> fragments'[r] = {}
              /\ fragments'[r] = {} <=> dma_map_entry'[r] = NoPage
      BY <1>1, <1>4, <1>5 DEF MapInv, QueuesExact
    <2>2. Distinct(free_q)' /\ (Elements(free_q) \cap Elements(available_q) = {})'
      BY <1>1, <1>4, QueueFacts
    <2>3. QED BY <2>1, <2>2, <1>4, QueuesFrom
  <1>8. OnePart'
    BY <1>1, <1>5 DEF MapInv, OnePart
  <1>9. Number(p, f) \notin Page
    BY <1>2, NumberGivesBack
  <1>10. HeldApart'
    BY <1>1, <1>5, <1>9, PartFacts DEF MapInv, HeldApart
  <1>11. Known'
    BY <1>1, <1>2, KnownWith
  <1>12. busy' = HeldPages'
    BY <1>1, <1>5, <1>9 DEF MapInv, HeldPages
  <1>13. FullLast'
    <2>1. CASE fragments'[p] # Frag
      <3>1. available_q' = available_q
        BY <2>1, <1>1
      <3>2. \A i \in 1..Len(available_q) :
               fragments'[available_q[i]] = Frag <=> fragments[available_q[i]] = Frag
        <4>1. SUFFICES ASSUME NEW i \in 1..Len(available_q)
                       PROVE  fragments'[available_q[i]] = Frag <=> fragments[available_q[i]] = Frag
          OBVIOUS
        <4>2. available_q[i] \in Parts
          BY QueueFacts DEF Elements
        <4>3. QED BY <4>2, <1>1, <1>5, <2>1
      <3>3. QED BY <3>1, <3>2 DEF MapInv, FullLast
    <2>2. CASE fragments'[p] = Frag
      <3>. DEFINE w == Without(available_q, p)
      <3>1. /\ w \in Seq(Parts) /\ Elements(w) = Elements(available_q) \ {p} /\ Distinct(w)
            /\ Len(w) = Len(available_q) - 1
        BY <1>2, QueueFacts, WithoutElement
      <3>2. PICK k \in 1..Len(available_q) :
               /\ available_q[k] = p
               /\ \A i \in 1..Len(available_q) - 1 :
                     w[i] = IF i < k THEN available_q[i] ELSE available_q[i + 1]
        BY <1>2, QueueFacts, WithoutElement
      <3>3. k = 1
        <4>1. 1 \in 1..Len(available_q)
          BY <1>2
        <4>2. QED BY <4>1, <3>2, <1>2, QueueFacts DEF Distinct
      <3>4. /\ Len(Append(w, p)) = Len(w) + 1 /\ Len(w) \in Nat
            /\ \A i \in 1..Len(w) : Append(w, p)[i] = w[i]
            /\ Append(w, p)[Len(w) + 1] = p
        BY <3>1, <1>2, AtEnd
      <3>5. available_q' = Append(w, p)
        BY <1>1, <2>2
      <3>. HIDE DEF w
      <3>6. ASSUME NEW i \in 1..Len(w)
            PROVE  /\ available_q'[i] = available_q[i + 1]
                   /\ i + 1 \in 1..Len(available_q)
                   /\ fragments'[available_q'[i]] = fragments[available_q[i + 1]]
        <4>1. i \in 1..Len(available_q) - 1 /\ ~(i < k) /\ i + 1 \in 1..Len(available_q)
          BY <3>1, <3>3, <1>2
        <4>2. available_q'[i] = available_q[i + 1]
          BY <4>1, <3>2, <3>4, <3>5
        <4>3. available_q[i + 1] \in Parts /\ w[i] \in Elements(w)
          BY <4>1, QueueFacts DEF Elements
        <4>4. available_q[i + 1] # p
          BY <4>1, <4>3, <3>1, <3>2
        <4>5. QED BY <4>1, <4>2, <4>3, <4>4, <1>5
      <3>7. SUFFICES ASSUME NEW i \in 1..Len(w) + 1, NEW j \in 1..Len(w) + 1, i < j,
                            fragments'[available_q'[i]] = Frag
                     PROVE  fragments'[available_q'[j]] = Frag
        BY <3>4, <3>5 DEF FullLast
      <3>8. CASE j = Len(w) + 1
        BY <3>8, <3>4, <3>5, <2>2
      <3>9. CASE j # Len(w) + 1
        <4>1. i \in 1..Len(w) /\ j \in 1..Len(w) /\ i + 1 < j + 1
          BY <3>4, <3>7, <3>9
        <4>2. fragments[available_q[i + 1]] = Frag
          BY <4>1, <3>6, <3>7
        <4>3. fragments[available_q[j + 1]] = Frag
          BY <4>1, <4>2, <3>6 DEF MapInv, FullLast
        <4>4. QED BY <4>1, <4>3, <3>6
      <3>10. QED BY <3>8, <3>9
    <2>3. QED BY <2>1, <2>2
  <1>14. QED BY <1>6, <1>7, <1>8, <1>10, <1>11, <1>12, <1>13 DEF MapInv

\* If the head has no fragment, no page that is split has one.
LEMMA HeadTells ==
    ASSUME MapInv, ~HeadHasRoom
    PROVE  \A i \in 1..Len(available_q) : fragments[available_q[i]] = Frag
  <1>1. SUFFICES ASSUME NEW i \in 1..Len(available_q)
                 PROVE  fragments[available_q[i]] = Frag
    OBVIOUS
  <1>2. /\ available_q # <<>> /\ Head(available_q) = available_q[1]
        /\ 1 \in 1..Len(available_q) /\ (i = 1 \/ 1 < i)
    BY QueueFacts
  <1>3. fragments[available_q[1]] = Frag
    BY <1>2 DEF HeadHasRoom
  <1>4. QED BY <1>2, <1>3 DEF MapInv, FullLast

LEMMA AllocSplitInv ==
    ASSUME MapInv, NEW nr \in Page, AllocSplit(nr)
    PROVE  MapInv'
  <1>0. PICK p \in Parts : p = Head(free_q)
    <2>1. free_q # <<>>
      BY DEF AllocSplit
    <2>2. QED BY <2>1, QueueFacts, WithoutHead
  <1>1. /\ ~HeadHasRoom /\ free_q # <<>> /\ FirstFree(nr)
        /\ busy' = busy \cup {nr}
        /\ dma_map_entry' = [dma_map_entry EXCEPT ![p] = nr]
        /\ fragments' = [fragments EXCEPT ![p] = {0}]
        /\ free_q' = Tail(free_q) /\ available_q' = <<p>> \o available_q
        /\ reqs' = reqs \cup {Number(p, 0)} /\ streams' = streams
    BY <1>0 DEF AllocSplit
  <1>2. 0 \in Frag
    BY DmaFragAssumption DEF DmaFragAssumption
  <1>3. /\ p \in Parts /\ p \in Elements(free_q)
        /\ Tail(free_q) \in Seq(Parts) /\ Distinct(Tail(free_q))
        /\ Elements(Tail(free_q)) = Elements(free_q) \ {p}
    BY <1>0, <1>1, QueueFacts, WithoutHead
  <1>4. ~Split(p) /\ fragments[p] = {} /\ p \notin Elements(available_q)
    BY <1>3, PartFacts DEF Split
  <1>5. /\ <<p>> \o available_q \in Seq(Parts) /\ Distinct(<<p>> \o available_q)
        /\ Elements(<<p>> \o available_q) = Elements(available_q) \cup {p}
        /\ Len(<<p>> \o available_q) = Len(available_q) + 1 /\ Len(available_q) \in Nat
        /\ (<<p>> \o available_q)[1] = p
        /\ \A i \in 1..Len(available_q) : (<<p>> \o available_q)[i + 1] = available_q[i]
    BY <1>3, <1>4, QueueFacts, AtFront
  <1>6. /\ fragments' \in [Parts -> SUBSET Frag]
        /\ dma_map_entry' \in [Parts -> Page \cup {NoPage}]
        /\ fragments'[p] = {0} /\ dma_map_entry'[p] = nr /\ Split(p)'
        /\ \A r \in Parts : r # p =>
              /\ fragments'[r] = fragments[r] /\ dma_map_entry'[r] = dma_map_entry[r]
              /\ Split(r)' <=> Split(r)
    <2>1. /\ fragments \in [Parts -> SUBSET Frag]
          /\ dma_map_entry \in [Parts -> Page \cup {NoPage}]
      BY DEF MapInv, DmaTypeOK
    <2>2. /\ fragments' \in [Parts -> SUBSET Frag] /\ fragments'[p] = {0}
          /\ \A r \in Parts : r # p => fragments'[r] = fragments[r]
      BY <1>1, <1>2, <1>3, <2>1
    <2>3. /\ dma_map_entry' \in [Parts -> Page \cup {NoPage}] /\ dma_map_entry'[p] = nr
          /\ \A r \in Parts : r # p => dma_map_entry'[r] = dma_map_entry[r]
      BY <1>1, <1>3, <2>1
    <2>4. Split(p)' /\ \A r \in Parts : r # p => (Split(r)' <=> Split(r))
      <3>1. 0 \in fragments'[p]
        BY <2>2
      <3>2. Split(p)'
        BY <3>1 DEF Split
      <3>3. ASSUME NEW r \in Parts, r # p PROVE Split(r)' <=> Split(r)
        BY <3>3, <2>2 DEF Split
      <3>4. QED BY <3>2, <3>3
    <2>5. QED BY <2>2, <2>3, <2>4
  <1>7. Number(p, 0) \notin Page /\ nr # NoPage
    BY <1>2, <1>3, NumberGivesBack, PageNumber
  <1>8. DmaTypeOK'
    <2>1. Number(p, 0) \in {Number(r, g) : r \in Parts, g \in Frag}
      BY <1>2, <1>3
    <2>2. QED BY <1>1, <1>3, <1>5, <1>6, <2>1 DEF MapInv, DmaTypeOK
  <1>9. QueuesExact'
    <2>1. /\ Elements(free_q)' = Elements(free_q) \ {p}
          /\ Elements(available_q)' = Elements(available_q) \cup {p}
          /\ Distinct(free_q)' /\ Distinct(available_q)'
      BY <1>1, <1>3, <1>5
    <2>2. ASSUME NEW r \in Parts
          PROVE  /\ r \in Elements(available_q)' <=> fragments'[r] # {}
                 /\ r \in Elements(free_q)' <=> fragments'[r] = {}
                 /\ fragments'[r] = {} <=> dma_map_entry'[r] = NoPage
      <3>1. CASE r = p
        BY <3>1, <2>1, <1>6, <1>7
      <3>2. CASE r # p
        BY <3>2, <2>1, <1>6 DEF MapInv, QueuesExact
      <3>3. QED BY <3>1, <3>2
    <2>3. (Elements(free_q) \cap Elements(available_q) = {})'
      BY <2>1, QueueFacts
    <2>4. QED BY <2>1, <2>2, <2>3, QueuesFrom
  <1>10. /\ nr \notin busy /\ nr \notin Fixed \cup streams \cup reqs
         /\ \A r \in Parts : Split(r) => dma_map_entry[r] # nr
    BY <1>1, FreeIsFree
  <1>11. OnePart'
    <2>1. SUFFICES ASSUME NEW r \in Parts, NEW s \in Parts, r # s, Split(r)', Split(s)'
                   PROVE  dma_map_entry'[r] # dma_map_entry'[s]
      BY DEF OnePart
    <2>2. CASE r = p
      BY <2>1, <2>2, <1>6, <1>10
    <2>3. CASE s = p
      BY <2>1, <2>3, <1>6, <1>10
    <2>4. CASE r # p /\ s # p
      BY <2>1, <2>4, <1>6 DEF MapInv, OnePart
    <2>5. QED BY <2>2, <2>3, <2>4
  <1>12. HeldApart'
    <2>1. ASSUME NEW r \in Parts, Split(r)'
          PROVE  dma_map_entry'[r] \notin streams \cup Fixed \cup reqs'
      <3>1. CASE r = p
        BY <3>1, <1>1, <1>6, <1>7, <1>10
      <3>2. CASE r # p
        <4>1. /\ Split(r) /\ dma_map_entry'[r] = dma_map_entry[r]
              /\ dma_map_entry[r] \in Page
          BY <3>2, <2>1, <1>6, PartFacts
        <4>2. QED BY <4>1, <1>1, <1>7 DEF MapInv, HeldApart
      <3>3. QED BY <3>1, <3>2
    <2>2. QED BY <2>1, <1>1, <1>7 DEF MapInv, HeldApart
  <1>13. Known'
    <2>1. fragments' = [fragments EXCEPT ![p] = @ \cup {0}]
      BY <1>1, <1>3, <1>4 DEF MapInv, DmaTypeOK
    <2>2. QED BY <2>1, <1>1, <1>2, <1>3, KnownWith
  <1>14. busy' = HeldPages'
    <2>1. {dma_map_entry'[r] : r \in {s \in Parts : Split(s)'}} =
          {dma_map_entry[r] : r \in {s \in Parts : Split(s)}} \cup {nr}
      <3>1. ASSUME NEW r \in Parts, Split(r)'
            PROVE  dma_map_entry'[r] = nr \/ (Split(r) /\ dma_map_entry'[r] = dma_map_entry[r])
        BY <3>1, <1>6
      <3>2. ASSUME NEW r \in Parts, Split(r)
            PROVE  Split(r)' /\ dma_map_entry'[r] = dma_map_entry[r]
        BY <3>2, <1>4, <1>6
      <3>3. ASSUME NEW x \in {dma_map_entry'[r] : r \in {s \in Parts : Split(s)'}}
            PROVE  x \in {dma_map_entry[r] : r \in {s \in Parts : Split(s)}} \cup {nr}
        <4>1. PICK r \in Parts : Split(r)' /\ x = dma_map_entry'[r]
          OBVIOUS
        <4>2. QED BY <4>1, <3>1
      <3>4. ASSUME NEW x \in {dma_map_entry[r] : r \in {s \in Parts : Split(s)}}
            PROVE  x \in {dma_map_entry'[r] : r \in {s \in Parts : Split(s)'}}
        <4>1. PICK r \in Parts : Split(r) /\ x = dma_map_entry[r]
          OBVIOUS
        <4>2. QED BY <4>1, <3>2
      <3>5. nr \in {dma_map_entry'[r] : r \in {s \in Parts : Split(s)'}}
        BY <1>3, <1>6
      <3>6. QED BY <3>3, <3>4, <3>5
    <2>2. {x \in reqs' : x \in Page} = {x \in reqs : x \in Page}
      BY <1>1, <1>7
    <2>3. QED BY <2>1, <2>2, <1>1 DEF MapInv, HeldPages
  <1>15. FullLast'
    <2>1. \A j \in 1..Len(available_q) + 1 : j > 1 => fragments'[available_q'[j]] = Frag
      <3>1. SUFFICES ASSUME NEW j \in 1..Len(available_q) + 1, j > 1
                     PROVE  fragments'[available_q'[j]] = Frag
        OBVIOUS
      <3>. DEFINE i == j - 1
      <3>2. i \in 1..Len(available_q) /\ i + 1 = j
        BY <1>5, <3>1
      <3>. HIDE DEF i
      <3>3. available_q'[j] = available_q[i]
        BY <3>2, <1>1, <1>5
      <3>4. available_q[i] \in Elements(available_q) /\ available_q[i] \in Parts
        BY <3>2, QueueFacts DEF Elements
      <3>5. fragments'[available_q[i]] = fragments[available_q[i]]
        BY <3>4, <1>4, <1>6
      <3>6. QED BY <3>2, <3>3, <3>5, <1>1, HeadTells
    <2>2. Len(available_q') = Len(available_q) + 1
      BY <1>1, <1>5
    <2>3. \A i, j \in 1..Len(available_q) + 1 : i < j => j > 1
      BY <1>5
    <2>4. QED BY <2>1, <2>2, <2>3 DEF FullLast
  <1>16. QED BY <1>8, <1>9, <1>11, <1>12, <1>13, <1>14, <1>15 DEF MapInv

\* Giving a fragment back, reqs and fragments lose the same.
LEMMA KnownWithout ==
    ASSUME MapInv, NEW p \in Parts, NEW f \in Frag,
           fragments' = [fragments EXCEPT ![p] = @ \ {f}],
           reqs' = reqs \ {Number(p, f)}
    PROVE  Known'
  <1>1. SUFFICES ASSUME NEW r \in Parts, NEW g \in Frag
                 PROVE  g \in fragments'[r] <=> Number(r, g) \in reqs'
    BY PartFacts DEF Known, MapInv, DmaTypeOK
  <1>2. g \in fragments[r] <=> Number(r, g) \in reqs
    BY DEF MapInv, Known
  <1>3. g \in fragments'[r] <=> g \in fragments[r] /\ ~(r = p /\ g = f)
    BY DEF MapInv, DmaTypeOK
  <1>4. Number(r, g) \in reqs' <=> Number(r, g) \in reqs /\ ~(r = p /\ g = f)
    BY OtherNumber
  <1>5. QED BY <1>2, <1>3, <1>4

LEMMA FreeFragmentInv ==
    ASSUME MapInv, NEW nr \in reqs, FreeFragment(nr)
    PROVE  MapInv'
  <1>1. /\ IsFragment(nr) /\ PartOf(nr) \in Parts /\ FragOf(nr) \in Frag
        /\ nr = Number(PartOf(nr), FragOf(nr)) /\ nr \notin Page
    BY Numbers DEF MapInv, FreeFragment
  <1>2. PICK p \in Parts, f \in Frag : p = PartOf(nr) /\ f = FragOf(nr) /\ nr = Number(p, f)
    BY <1>1
  <1>3. /\ fragments' = [fragments EXCEPT ![p] = fragments[p] \ {f}]
        /\ reqs' = reqs \ {nr} /\ streams' = streams
        /\ \/ /\ fragments[p] \ {f} = {}
              /\ busy' = busy \ {dma_map_entry[p]}
              /\ dma_map_entry' = [dma_map_entry EXCEPT ![p] = NoPage]
              /\ available_q' = Without(available_q, p)
              /\ free_q' = Append(free_q, p)
           \/ /\ fragments[p] \ {f} # {}
              /\ available_q' = <<p>> \o Without(available_q, p)
              /\ busy' = busy /\ dma_map_entry' = dma_map_entry /\ free_q' = free_q
    BY <1>2 DEF FreeFragment, PageFreed, BackToHead
  <1>4. Known'
    BY <1>2, <1>3, KnownWithout
  <1>5. f \in fragments[p] /\ Split(p) /\ p \in Elements(available_q) /\ p \notin Elements(free_q)
    <2>1. f \in fragments[p]
      BY <1>2 DEF MapInv, Known
    <2>2. QED BY <2>1, PartFacts DEF Split
  <1>6. /\ fragments' \in [Parts -> SUBSET Frag] /\ fragments'[p] = fragments[p] \ {f}
        /\ \A r \in Parts : r # p => fragments'[r] = fragments[r]
    BY <1>3 DEF MapInv, DmaTypeOK
  <1>. DEFINE w == Without(available_q, p)
  <1>7. /\ w \in Seq(Parts) /\ Distinct(w) /\ Elements(w) = Elements(available_q) \ {p}
        /\ Len(w) = Len(available_q) - 1
    BY <1>5, QueueFacts, WithoutElement
  <1>8. PICK k \in 1..Len(available_q) :
            /\ available_q[k] = p
            /\ \A i \in 1..Len(available_q) - 1 :
                  w[i] = IF i < k THEN available_q[i] ELSE available_q[i + 1]
    BY <1>5, QueueFacts, WithoutElement
  <1>. HIDE DEF w
  <1>9. \A i, j \in 1..Len(w) :
            i < j /\ fragments[w[i]] = Frag => fragments[w[j]] = Frag
    <2>1. SUFFICES ASSUME NEW i \in 1..Len(w), NEW j \in 1..Len(w), i < j,
                          fragments[w[i]] = Frag
                   PROVE  fragments[w[j]] = Frag
      OBVIOUS
    <2>2. PICK a \in 1..Len(available_q) :
              /\ w[i] = available_q[a]
              /\ (a = i /\ i < k) \/ (a = i + 1 /\ ~(i < k))
      <3>1. /\ i \in 1..Len(available_q) - 1
            /\ i \in 1..Len(available_q) /\ i + 1 \in 1..Len(available_q)
        BY <1>7, QueueFacts
      <3>2. CASE i < k
        BY <3>1, <3>2, <1>8
      <3>3. CASE ~(i < k)
        BY <3>1, <3>3, <1>8
      <3>4. QED BY <3>2, <3>3
    <2>3. PICK b \in 1..Len(available_q) : w[j] = available_q[b] /\ ((b = j /\ j < k) \/ (b = j + 1 /\ ~(j < k)))
      <3>1. /\ j \in 1..Len(available_q) - 1
            /\ j \in 1..Len(available_q) /\ j + 1 \in 1..Len(available_q)
        BY <1>7, QueueFacts
      <3>2. CASE j < k
        BY <3>1, <3>2, <1>8
      <3>3. CASE ~(j < k)
        BY <3>1, <3>3, <1>8
      <3>4. QED BY <3>2, <3>3
    <2>4. a < b
      BY <2>1, <2>2, <2>3
    <2>5. QED BY <2>1, <2>2, <2>3, <2>4 DEF MapInv, FullLast
  <1>10. \A i \in 1..Len(w) : w[i] \in Parts /\ w[i] # p /\ fragments'[w[i]] = fragments[w[i]]
    <2>1. SUFFICES ASSUME NEW i \in 1..Len(w)
                   PROVE  w[i] \in Parts /\ w[i] # p /\ fragments'[w[i]] = fragments[w[i]]
      OBVIOUS
    <2>2. w[i] \in Elements(w)
      BY DEF Elements
    <2>3. QED BY <2>2, <1>6, <1>7, QueueFacts
  <1>11. nr \notin Page
    BY <1>1
  <1>12. CASE fragments[p] \ {f} = {}
    <2>1. /\ busy' = busy \ {dma_map_entry[p]}
          /\ dma_map_entry' = [dma_map_entry EXCEPT ![p] = NoPage]
          /\ available_q' = w /\ free_q' = Append(free_q, p)
          /\ fragments'[p] = {}
      BY <1>3, <1>6, <1>12 DEF w
    <2>2. /\ Append(free_q, p) \in Seq(Parts) /\ Distinct(Append(free_q, p))
          /\ Elements(Append(free_q, p)) = Elements(free_q) \cup {p}
      BY <1>5, QueueFacts, AtEnd
    <2>3. /\ dma_map_entry' \in [Parts -> Page \cup {NoPage}] /\ dma_map_entry'[p] = NoPage
          /\ \A r \in Parts : r # p => dma_map_entry'[r] = dma_map_entry[r]
      BY <2>1 DEF MapInv, DmaTypeOK
    <2>4. /\ ~(Split(p)')
          /\ \A r \in Parts : r # p => (Split(r)' <=> Split(r))
      BY <1>6, <2>1 DEF Split
    <2>5. DmaTypeOK'
      BY <1>3, <1>6, <1>7, <2>1, <2>2, <2>3 DEF MapInv, DmaTypeOK
    <2>6. QueuesExact'
      <3>1. /\ Elements(free_q)' = Elements(free_q) \cup {p}
            /\ Elements(available_q)' = Elements(available_q) \ {p}
            /\ Distinct(free_q)' /\ Distinct(available_q)'
        BY <2>1, <2>2, <1>7
      <3>2. ASSUME NEW r \in Parts
            PROVE  /\ r \in Elements(available_q)' <=> fragments'[r] # {}
                   /\ r \in Elements(free_q)' <=> fragments'[r] = {}
                   /\ fragments'[r] = {} <=> dma_map_entry'[r] = NoPage
        <4>1. CASE r = p
          BY <4>1, <3>1, <2>1, <2>3
        <4>2. CASE r # p
          BY <4>2, <3>1, <1>6, <2>3 DEF MapInv, QueuesExact
        <4>3. QED BY <4>1, <4>2
      <3>3. (Elements(free_q) \cap Elements(available_q) = {})'
        BY <3>1, QueueFacts
      <3>4. QED BY <3>1, <3>2, <3>3, QueuesFrom
    <2>7. OnePart' /\ HeldApart'
      <3>1. OnePart'
        BY <2>3, <2>4 DEF MapInv, OnePart
      <3>2. HeldApart'
        BY <1>3, <2>3, <2>4 DEF MapInv, HeldApart
      <3>3. QED BY <3>1, <3>2
    <2>8. busy' = HeldPages'
      <3>1. /\ dma_map_entry[p] \notin streams \cup Fixed \cup reqs
            /\ \A r \in Parts : r # p /\ Split(r) => dma_map_entry[r] # dma_map_entry[p]
        BY <1>5 DEF MapInv, HeldApart, OnePart
      <3>2. {x \in reqs' : x \in Page} = {x \in reqs : x \in Page}
        BY <1>3, <1>11
      <3>3. ASSUME NEW x \in HeldPages \ {dma_map_entry[p]}
            PROVE  x \in HeldPages'
        <4>1. CASE x \in Fixed \cup streams \cup {y \in reqs : y \in Page}
          BY <4>1, <3>2, <1>3 DEF HeldPages
        <4>2. CASE \E r \in Parts : Split(r) /\ x = dma_map_entry[r]
          <5>1. PICK r \in Parts : Split(r) /\ x = dma_map_entry[r]
            BY <4>2
          <5>2. Split(r)' /\ x = dma_map_entry'[r]
            BY <5>1, <3>3, <2>3, <2>4
          <5>3. QED BY <5>2 DEF HeldPages
        <4>3. QED BY <4>1, <4>2 DEF HeldPages
      <3>4. ASSUME NEW x \in HeldPages'
            PROVE  x \in HeldPages /\ x # dma_map_entry[p]
        <4>1. CASE x \in Fixed \cup streams \cup {y \in reqs : y \in Page}
          BY <4>1, <3>1 DEF HeldPages
        <4>2. CASE \E r \in Parts : Split(r)' /\ x = dma_map_entry'[r]
          <5>1. PICK r \in Parts : Split(r)' /\ x = dma_map_entry'[r]
            BY <4>2
          <5>2. r # p /\ Split(r) /\ x = dma_map_entry[r]
            BY <5>1, <2>3, <2>4
          <5>3. QED BY <5>2, <3>1 DEF HeldPages
        <4>3. QED BY <4>1, <4>2, <3>2, <1>3 DEF HeldPages
      <3>5. busy = HeldPages
        BY DEF MapInv
      <3>6. QED BY <3>3, <3>4, <3>5, <2>1
    <2>9. FullLast'
      BY <1>9, <1>10, <2>1 DEF FullLast
    <2>10. QED BY <1>4, <2>5, <2>6, <2>7, <2>8, <2>9 DEF MapInv
  <1>13. CASE fragments[p] \ {f} # {}
    <2>1. /\ busy' = busy /\ dma_map_entry' = dma_map_entry /\ free_q' = free_q
          /\ available_q' = <<p>> \o w /\ fragments'[p] # {}
          /\ fragments'[p] # Frag
      BY <1>3, <1>5, <1>6, <1>13 DEF w
    <2>2. p \notin Elements(w)
      BY <1>7
    <2>3. /\ <<p>> \o w \in Seq(Parts) /\ Distinct(<<p>> \o w)
          /\ Elements(<<p>> \o w) = Elements(w) \cup {p}
          /\ Len(<<p>> \o w) = Len(w) + 1 /\ Len(w) \in Nat
          /\ (<<p>> \o w)[1] = p
          /\ \A i \in 1..Len(w) : (<<p>> \o w)[i + 1] = w[i]
      BY <1>7, <2>2, AtFront
    <2>4. \A r \in Parts : Split(r)' <=> Split(r)
      BY <1>5, <1>6, <2>1 DEF Split
    <2>5. DmaTypeOK'
      BY <1>3, <1>6, <2>1, <2>3 DEF MapInv, DmaTypeOK
    <2>6. QueuesExact'
      <3>1. /\ Elements(free_q)' = Elements(free_q)
            /\ Elements(available_q)' = Elements(available_q)
            /\ Distinct(free_q)' /\ Distinct(available_q)'
        BY <1>5, <1>7, <2>1, <2>3, QueueFacts
      <3>2. ASSUME NEW r \in Parts
            PROVE  /\ r \in Elements(available_q)' <=> fragments'[r] # {}
                   /\ r \in Elements(free_q)' <=> fragments'[r] = {}
                   /\ fragments'[r] = {} <=> dma_map_entry'[r] = NoPage
        BY <3>1, <2>1, <2>4 DEF MapInv, QueuesExact, Split
      <3>3. QED BY <3>1, <3>2, QueueFacts, QueuesFrom
    <2>7. OnePart' /\ HeldApart'
      BY <1>3, <2>1, <2>4 DEF MapInv, OnePart, HeldApart
    <2>8. busy' = HeldPages'
      <3>1. {x \in reqs' : x \in Page} = {x \in reqs : x \in Page}
        BY <1>3, <1>11
      <3>2. QED BY <3>1, <1>3, <2>1, <2>4 DEF MapInv, HeldPages
    <2>9. FullLast'
      <3>1. SUFFICES ASSUME NEW i \in 1..Len(w) + 1, NEW j \in 1..Len(w) + 1, i < j,
                            fragments'[available_q'[i]] = Frag
                     PROVE  fragments'[available_q'[j]] = Frag
        BY <2>1, <2>3 DEF FullLast
      <3>2. i # 1
        BY <3>1, <2>1, <2>3
      <3>. DEFINE a == i - 1
                  b == j - 1
      <3>3. /\ a \in 1..Len(w) /\ b \in 1..Len(w) /\ a < b
            /\ i = a + 1 /\ j = b + 1
        BY <3>1, <3>2, <2>3
      <3>. HIDE DEF a, b
      <3>4. available_q'[i] = w[a] /\ available_q'[j] = w[b]
        BY <3>3, <2>1, <2>3
      <3>5. QED BY <3>1, <3>3, <3>4, <1>9, <1>10
    <2>10. QED BY <1>4, <2>5, <2>6, <2>7, <2>8, <2>9 DEF MapInv
  <1>14. QED BY <1>12, <1>13

-----------------------------------------------------------------------------
(* Reset *)

LEMMA ResetInv == ASSUME MapInv, Reset PROVE MapInv'
  <1>1. /\ fragments' = [p \in Parts |->
              IF p \in Elements(available_q) THEN {} ELSE fragments[p]]
        /\ dma_map_entry' = [p \in Parts |->
              IF p \in Elements(available_q) THEN NoPage ELSE dma_map_entry[p]]
        /\ free_q' = free_q \o available_q /\ available_q' = <<>>
        /\ busy' = Fixed /\ reqs' = {} /\ streams' = {}
    BY DEF Reset, BitsCleared
  <1>2. \A p \in Parts : fragments'[p] = {} /\ dma_map_entry'[p] = NoPage
    BY <1>1, PartFacts DEF Split
  <1>3. /\ free_q' \in Seq(Parts) /\ Distinct(free_q)'
        /\ Elements(free_q)' = Elements(free_q) \cup Elements(available_q)
    BY <1>1, QueueFacts, Joined
  <1>4. Elements(free_q)' = Parts
    BY <1>3, QueueFacts, PartFacts
  <1>5. /\ available_q' \in Seq(Parts) /\ Len(available_q') = 0
        /\ Elements(available_q)' = {} /\ Distinct(available_q)'
    BY <1>1 DEF Elements, Distinct
  <1>6. DmaTypeOK'
    <2>1. Fixed \subseteq Page
      BY DmaFragAssumption DEF DmaFragAssumption, Page
    <2>2. fragments' \in [Parts -> SUBSET Frag] /\ dma_map_entry' \in [Parts -> Page \cup {NoPage}]
      BY <1>1 DEF MapInv, DmaTypeOK
    <2>3. QED BY <1>1, <1>3, <1>5, <2>1, <2>2 DEF DmaTypeOK
  <1>7. QueuesExact'
    <2>1. (Elements(free_q) \cap Elements(available_q) = {})'
      BY <1>5
    <2>2. QED BY <1>2, <1>3, <1>4, <1>5, <2>1, QueuesFrom
  <1>8. \A p \in Parts : ~(Split(p)')
    BY <1>2 DEF Split
  <1>9. (OnePart /\ HeldApart /\ Known /\ busy = HeldPages)'
    BY <1>1, <1>2, <1>8 DEF OnePart, HeldApart, Known, HeldPages
  <1>10. FullLast'
    BY <1>5 DEF FullLast
  <1>11. QED BY <1>6, <1>7, <1>9, <1>10 DEF MapInv

LEMMA NextInv == ASSUME MapInv, [DmaNext]_dmaVars PROVE MapInv'
  <1>1. ASSUME NEW nr \in Page, AllocPage(nr) \/ AllocSplit(nr) \/ StreamAlloc(nr)
        PROVE  MapInv'
    BY <1>1, AllocPageInv, AllocSplitInv, StreamInv
  <1>2. ASSUME NEW f \in Frag, AllocFragment(f) PROVE MapInv'
    BY <1>2, AllocFragmentInv
  <1>3. ASSUME NEW nr \in reqs, FreePage(nr) \/ FreeFragment(nr) PROVE MapInv'
    BY <1>3, FreePageInv, FreeFragmentInv
  <1>4. ASSUME NEW nr \in streams, StreamFree(nr) PROVE MapInv'
    <2>1. nr \in Page
      BY DEF MapInv, DmaTypeOK
    <2>2. QED BY <2>1, <1>4, StreamInv
  <1>5. CASE Reset
    BY <1>5, ResetInv
  <1>6. CASE UNCHANGED dmaVars
    BY <1>6 DEF dmaVars, MapInv, DmaTypeOK, QueuesExact, OnePart, HeldApart, Known, HeldPages,
                FullLast, Split
  <1>7. QED BY <1>1, <1>2, <1>3, <1>4, <1>5, <1>6 DEF DmaNext

\* The inductive invariant of the maps (diva_dma.c, diva_dma_fragment.c).
THEOREM MapInvariance == DmaSpec => []MapInv
  <1>1. DmaInit => MapInv
    BY MapInitInv
  <1>2. MapInv /\ [DmaNext]_dmaVars => MapInv'
    BY NextInv
  <1>3. QED BY <1>1, <1>2, PTL DEF DmaSpec

-----------------------------------------------------------------------------
(* What follows from it *)

\* An entry of the fragment map is always in exactly one queue, the one that
\* its fragments call for (diva_dma_fragment.c:219, 149).
THEOREM QueuesSafe == DmaSpec => []QueuesExact
  <1>1. MapInv => QueuesExact
    BY DEF MapInv
  <1>2. QED BY <1>1, MapInvariance, PTL

\* No page leaks and none is given twice: busy says who holds one
\* (diva_dma.c:100, diva_dma_fragment.c:228).
THEOREM NoLeak == DmaSpec => []BusyExact
  <1>1. ASSUME MapInv PROVE BusyExact
    <2>1. {nr \in reqs : ~IsFragment(nr)} = {nr \in reqs : nr \in Page}
      BY <1>1, Numbers DEF MapInv
    <2>2. Elements(available_q) = {r \in Parts : Split(r)}
      BY <1>1, PartFacts, QueueFacts
    <2>3. busy = HeldPages
      BY <1>1 DEF MapInv
    <2>4. QED BY <2>1, <2>2, <2>3 DEF BusyExact, HeldPages
  <1>2. QED BY <1>1, MapInvariance, PTL

\* Two buffers of requests do not overlap.
LEMMA RequestsApart ==
    ASSUME MapInv, NEW a \in reqs, NEW b \in reqs, a # b
    PROVE  Memory(a) \cap Memory(b) = {}
  <1>1. CASE a \in Page /\ b \in Page
    BY <1>1, PageNumber DEF Memory
  <1>2. ASSUME NEW x \in reqs, NEW y \in reqs, x \in Page, y \notin Page
        PROVE  Memory(x) \cap Memory(y) = {}
    <2>1. /\ IsFragment(y) /\ PartOf(y) \in Parts /\ FragOf(y) \in Frag
          /\ y = Number(PartOf(y), FragOf(y))
      BY <1>2, Numbers DEF MapInv
    <2>2. Split(PartOf(y))
      BY <2>1 DEF MapInv, Known, Split
    <2>3. dma_map_entry[PartOf(y)] # x
      BY <2>1, <2>2 DEF MapInv, HeldApart
    <2>4. Memory(x) = {<<x, f>> : f \in Frag}
      BY <1>2, PageNumber DEF Memory
    <2>5. Memory(y) = {<<dma_map_entry[PartOf(y)], FragOf(y)>>}
      BY <2>1 DEF Memory
    <2>6. QED BY <2>3, <2>4, <2>5
  <1>3. CASE a \notin Page /\ b \notin Page
    <2>1. \A x \in {a, b} :
              /\ IsFragment(x) /\ PartOf(x) \in Parts /\ FragOf(x) \in Frag
              /\ x = Number(PartOf(x), FragOf(x))
      BY <1>3, Numbers DEF MapInv
    <2>2. Split(PartOf(a)) /\ Split(PartOf(b))
      BY <2>1 DEF MapInv, Known, Split
    <2>3. PartOf(a) # PartOf(b) \/ FragOf(a) # FragOf(b)
      BY <2>1
    <2>4. <<dma_map_entry[PartOf(a)], FragOf(a)>> # <<dma_map_entry[PartOf(b)], FragOf(b)>>
      BY <2>1, <2>2, <2>3 DEF MapInv, OnePart
    <2>5. /\ Memory(a) = {<<dma_map_entry[PartOf(a)], FragOf(a)>>}
          /\ Memory(b) = {<<dma_map_entry[PartOf(b)], FragOf(b)>>}
      BY <2>1 DEF Memory
    <2>6. QED BY <2>4, <2>5
  <1>4. QED BY <1>1, <1>2, <1>3

\* A request and another owner of a page do not overlap.
LEMMA PagesApart ==
    ASSUME MapInv, NEW a \in reqs, NEW nr \in streams \cup Fixed
    PROVE  Memory(a) \cap ({nr} \X Frag) = {}
  <1>1. CASE a \in Page
    <2>1. a # nr
      BY <1>1 DEF MapInv, HeldApart
    <2>2. QED BY <1>1, <2>1, PageNumber DEF Memory
  <1>2. CASE a \notin Page
    <2>1. /\ IsFragment(a) /\ PartOf(a) \in Parts /\ FragOf(a) \in Frag
          /\ a = Number(PartOf(a), FragOf(a))
      BY <1>2, Numbers DEF MapInv
    <2>2. Split(PartOf(a))
      BY <2>1 DEF MapInv, Known, Split
    <2>3. dma_map_entry[PartOf(a)] # nr
      BY <2>1, <2>2 DEF MapInv, HeldApart
    <2>4. QED BY <2>1, <2>3 DEF Memory
  <1>3. QED BY <1>1, <1>2

LEMMA OwnersNow == MapInv => OneOwner
  <1>1. ASSUME MapInv PROVE OneOwner
    <2>1. streams \cap Fixed = {} /\ \A p \in Parts : fragments[p] = {f \in Frag : Number(p, f) \in reqs}
      BY <1>1 DEF MapInv, HeldApart, Known
    <2>2. QED BY <1>1, <2>1, RequestsApart, PagesApart DEF OneOwner
  <1>2. QED BY <1>1

\* Buffers never overlap, whatever was taken and given back before
\* (diva_dma_fragment.c:118, 178).
THEOREM NoSharing == DmaSpec => []OneOwner
  BY OwnersNow, MapInvariance, PTL

\* A short request is refused only when there is nothing for it: no search
\* behind the head is needed (diva_dma_fragment.c:106-138).
THEOREM HeadIsEnough == DmaSpec => []NoFalseShortage
  <1>1. ASSUME MapInv, Refused PROVE NoFalseShortage
    <2>1. ~HeadHasRoom /\ (free_q = <<>> \/ Page \subseteq busy)
      BY <1>1 DEF Refused
    <2>2. ASSUME NEW p \in Parts, Split(p) PROVE fragments[p] = Frag
      <3>1. p \in Elements(available_q)
        BY <1>1, <2>2, PartFacts
      <3>2. PICK i \in 1..Len(available_q) : available_q[i] = p
        BY <3>1 DEF Elements
      <3>3. QED BY <1>1, <2>1, <3>2, HeadTells
    <2>3. \A p \in Parts : fragments[p] \in {{}, Frag}
      BY <2>2 DEF Split
    <2>4. free_q = <<>> => \A p \in Parts : fragments[p] = Frag
      <3>1. free_q = <<>> => Elements(free_q) = {}
        BY DEF Elements
      <3>2. QED BY <1>1, <2>2, <3>1, PartFacts
    <2>5. QED BY <2>1, <2>3, <2>4 DEF NoFalseShortage
  <1>2. MapInv => NoFalseShortage
    BY <1>1 DEF NoFalseShortage
  <1>3. QED BY <1>2, MapInvariance, PTL

\* Both allocators together own their memory rightly, for every number of
\* pages, entries and fragments (diva_dma.c:100, diva_dma_fragment.c:106-228).
THEOREM MemorySafe == DmaSpec => []MemoryOwned
  <1>1. MapInv => DmaTypeOK
    BY DEF MapInv
  <1>2. QED
    BY <1>1, MapInvariance, QueuesSafe, NoLeak, NoSharing, HeadIsEnough, PTL
    DEF MemoryOwned

-----------------------------------------------------------------------------
(* The maps are a pool of buffers *)

LEMMA OwnersNext == MapInv' => OneOwner'
  BY OwnersNow, PTL

\* The buffers handed out.
Out == {Memory(nr) : nr \in reqs} \cup {{nr} \X Frag : nr \in streams}

\* A buffer more, and the others are where they were.
LEMMA OneTaken ==
    ASSUME OneOwner', NEW n \in reqs', n \notin reqs,
           reqs' = reqs \cup {n}, streams' = streams,
           \A nr \in reqs : Memory(nr)' = Memory(nr)
    PROVE  /\ Out' = Out \cup {Memory(n)'}
           /\ \A c \in Out : Memory(n)' \cap c = {}
  <1>1. Out' = Out \cup {Memory(n)'}
    BY DEF Out
  <1>2. ASSUME NEW nr \in reqs PROVE Memory(n)' \cap Memory(nr) = {}
    BY DEF OneOwner
  <1>3. ASSUME NEW nr \in streams PROVE Memory(n)' \cap ({nr} \X Frag) = {}
    BY DEF OneOwner
  <1>4. QED BY <1>1, <1>2, <1>3 DEF Out

\* A buffer less.
LEMMA OneGiven ==
    ASSUME OneOwner, NEW n \in reqs, Memory(n) # {},
           reqs' = reqs \ {n}, streams' = streams,
           \A nr \in reqs \ {n} : Memory(nr)' = Memory(nr)
    PROVE  Memory(n) \in Out /\ Out' = Out \ {Memory(n)}
  <1>1. \A nr \in reqs \ {n} : Memory(nr) # Memory(n)
    BY DEF OneOwner
  <1>2. \A nr \in streams : {nr} \X Frag # Memory(n)
    BY DEF OneOwner
  <1>3. QED BY <1>1, <1>2 DEF Out

InBuffers == \A nr \in reqs : Memory(nr) \in Pool!Buffer

LEMMA BuffersNow == MapInv => InBuffers
  <1>1. SUFFICES ASSUME MapInv, NEW nr \in reqs PROVE Memory(nr) \in Pool!Buffer
    BY DEF InBuffers
  <1>2. 0 \in Frag
    BY DmaFragAssumption DEF DmaFragAssumption
  <1>3. CASE nr \in Page
    <2>1. Memory(nr) = {<<nr, f>> : f \in Frag}
      BY <1>3, PageNumber DEF Memory
    <2>2. Memory(nr) = {nr} \X Frag
      BY <2>1
    <2>3. QED BY <2>2, <1>3 DEF Pool!Buffer
  <1>4. CASE nr \notin Page
    <2>1. /\ IsFragment(nr) /\ PartOf(nr) \in Parts /\ FragOf(nr) \in Frag
          /\ nr = Number(PartOf(nr), FragOf(nr))
      BY <1>1, <1>4, Numbers DEF MapInv
    <2>2. Split(PartOf(nr))
      BY <1>1, <2>1 DEF MapInv, Known, Split
    <2>3. dma_map_entry[PartOf(nr)] \in Page
      BY <1>1, <2>1, <2>2, PartFacts
    <2>4. Memory(nr) = {<<dma_map_entry[PartOf(nr)], FragOf(nr)>>}
      BY <2>1 DEF Memory
    <2>5. QED BY <2>1, <2>3, <2>4 DEF Pool!Buffer
  <1>5. QED BY <1>3, <1>4

LEMMA BuffersNext == MapInv' => InBuffers'
  BY BuffersNow, PTL

\* Every step of the maps is one of the pool, or nothing for it.
LEMMA StepPool ==
    ASSUME MapInv, MapInv', [DmaNext]_dmaVars
    PROVE  (\E b \in Pool!Buffer : (\A c \in Out : b \cap c = {}) /\ Out' = Out \cup {b})
           \/ (\E b \in Out : Out' = Out \ {b}) \/ Out' = {} \/ Out' = Out
  <1>. DEFINE Goal ==
           (\E b \in Pool!Buffer : (\A c \in Out : b \cap c = {}) /\ Out' = Out \cup {b})
           \/ (\E b \in Out : Out' = Out \ {b}) \/ Out' = {} \/ Out' = Out
  <1>1. OneOwner /\ OneOwner' /\ \A nr \in reqs' : Memory(nr)' \in Pool!Buffer
    BY OwnersNow, OwnersNext, BuffersNext DEF InBuffers
  <1>2. \A nr \in reqs : Memory(nr) # {}
    <2>1. ASSUME NEW b \in Pool!Buffer PROVE b # {}
      <3>1. 0 \in Frag
        BY DmaFragAssumption DEF DmaFragAssumption
      <3>2. CASE \E entry \in Page : b = {entry} \X Frag
        <4>1. PICK entry \in Page : b = {entry} \X Frag
          BY <3>2
        <4>2. <<entry, 0>> \in b
          BY <3>1, <4>1
        <4>3. QED BY <4>2
      <3>3. CASE \E entry \in Page, f \in Frag : b = {<<entry, f>>}
        BY <3>3
      <3>4. QED BY <3>2, <3>3 DEF Pool!Buffer
    <2>2. QED BY <2>1, BuffersNow DEF InBuffers
  <1>3. ASSUME NEW n \in reqs', n \notin reqs,
               reqs' = reqs \cup {n}, streams' = streams,
               \A nr \in reqs : Memory(nr)' = Memory(nr)
        PROVE  Goal
    BY <1>1, <1>3, OneTaken
  <1>4. ASSUME NEW n \in reqs, reqs' = reqs \ {n}, streams' = streams,
               \A nr \in reqs \ {n} : Memory(nr)' = Memory(nr)
        PROVE  Goal
    BY <1>1, <1>2, <1>4, OneGiven
  <1>. HIDE DEF Goal
  <1>5. UNCHANGED mapVars => \A nr : Memory(nr)' = Memory(nr)
    BY DEF mapVars, Memory
  <1>6. ASSUME NEW nr \in Page, AllocPage(nr) PROVE Goal
    BY <1>3, <1>5, <1>6, FreeIsFree DEF AllocPage
  <1>7. ASSUME NEW nr \in Page, AllocSplit(nr) PROVE Goal
    <2>1. PICK p \in Parts : p = Head(free_q) /\ ~Split(p)
      <3>1. free_q # <<>>
        BY <1>7 DEF AllocSplit
      <3>2. Head(free_q) \in Parts /\ Head(free_q) \in Elements(free_q)
        BY <3>1, QueueFacts, WithoutHead
      <3>3. QED BY <3>2, PartFacts
    <2>2. /\ dma_map_entry' = [dma_map_entry EXCEPT ![p] = nr]
          /\ reqs' = reqs \cup {Number(p, 0)} /\ streams' = streams
      BY <1>7, <2>1 DEF AllocSplit
    <2>3. 0 \in Frag
      BY DmaFragAssumption DEF DmaFragAssumption
    <2>4. Number(p, 0) \notin reqs
      BY <2>1, <2>3 DEF MapInv, Known, Split
    <2>5. ASSUME NEW x \in reqs PROVE Memory(x)' = Memory(x)
      <3>1. CASE x \in Page
        BY <3>1, PageNumber DEF Memory
      <3>2. CASE x \notin Page
        <4>1. /\ IsFragment(x) /\ PartOf(x) \in Parts /\ FragOf(x) \in Frag
              /\ x = Number(PartOf(x), FragOf(x))
          BY <3>2, Numbers DEF MapInv
        <4>2. Split(PartOf(x))
          BY <4>1 DEF MapInv, Known, Split
        <4>3. PartOf(x) # p
          BY <4>2, <2>1
        <4>4. dma_map_entry'[PartOf(x)] = dma_map_entry[PartOf(x)]
          BY <4>1, <4>3, <2>2 DEF MapInv, DmaTypeOK
        <4>5. QED BY <4>4 DEF Memory
      <3>3. QED BY <3>1, <3>2
    <2>6. QED BY <1>3, <2>2, <2>4, <2>5
  <1>8. ASSUME NEW nr \in Page, StreamAlloc(nr) PROVE Goal
    <2>1. /\ reqs' = reqs /\ streams' = streams \cup {nr} /\ UNCHANGED mapVars
          /\ nr \notin streams
      BY <1>8, FreeIsFree DEF StreamAlloc
    <2>2. Out' = Out \cup {{nr} \X Frag}
      BY <2>1, <1>5 DEF Out
    <2>3. \A x \in reqs : Memory(x) \cap ({nr} \X Frag) = {}
      BY <2>1, <1>1, <1>5 DEF OneOwner
    <2>4. \A x \in streams : ({x} \X Frag) \cap ({nr} \X Frag) = {}
      BY <2>1
    <2>5. \A c \in Out : ({nr} \X Frag) \cap c = {}
      BY <2>3, <2>4 DEF Out
    <2>6. {nr} \X Frag \in Pool!Buffer
      <3>1. <<nr, 0>> \in {nr} \X Frag
        BY DmaFragAssumption DEF DmaFragAssumption
      <3>2. QED BY <3>1 DEF Pool!Buffer
    <2>7. QED BY <2>2, <2>5, <2>6 DEF Goal
  <1>9. ASSUME NEW f \in Frag, AllocFragment(f) PROVE Goal
    <2>1. PICK p \in Parts : p = Head(available_q)
      <3>1. available_q # <<>>
        BY <1>9 DEF AllocFragment, HeadHasRoom
      <3>2. QED BY <3>1, QueueFacts, WithoutHead
    <2>2. /\ f \notin fragments[p] /\ reqs' = reqs \cup {Number(p, f)}
          /\ streams' = streams /\ dma_map_entry' = dma_map_entry
      BY <1>9, <2>1 DEF AllocFragment
    <2>3. Number(p, f) \notin reqs
      BY <2>2 DEF MapInv, Known
    <2>4. \A nr : Memory(nr)' = Memory(nr)
      BY <2>2 DEF Memory
    <2>5. QED BY <1>3, <2>2, <2>3, <2>4
  <1>10. ASSUME NEW nr \in reqs, FreePage(nr) PROVE Goal
    BY <1>4, <1>5, <1>10 DEF FreePage
  <1>11. ASSUME NEW nr \in reqs, FreeFragment(nr) PROVE Goal
    <2>1. /\ IsFragment(nr) /\ PartOf(nr) \in Parts /\ FragOf(nr) \in Frag
          /\ nr = Number(PartOf(nr), FragOf(nr))
      BY <1>11, Numbers DEF MapInv, FreeFragment
    <2>2. PICK p \in Parts : p = PartOf(nr)
      BY <2>1
    <2>3. /\ reqs' = reqs \ {nr} /\ streams' = streams
          /\ \/ /\ fragments[p] \ {FragOf(nr)} = {}
                /\ dma_map_entry' = [dma_map_entry EXCEPT ![p] = NoPage]
             \/ dma_map_entry' = dma_map_entry
      BY <1>11, <2>2 DEF FreeFragment
    <2>4. ASSUME NEW x \in reqs \ {nr} PROVE Memory(x)' = Memory(x)
      <3>1. CASE x \in Page
        BY <3>1, PageNumber DEF Memory
      <3>2. CASE x \notin Page
        <4>1. /\ IsFragment(x) /\ PartOf(x) \in Parts /\ FragOf(x) \in Frag
              /\ x = Number(PartOf(x), FragOf(x))
          BY <3>2, Numbers DEF MapInv
        <4>2. FragOf(x) \in fragments[PartOf(x)]
          BY <4>1 DEF MapInv, Known
        <4>3. CASE dma_map_entry' = dma_map_entry
          BY <4>3 DEF Memory
        <4>4. CASE /\ fragments[p] \ {FragOf(nr)} = {}
                   /\ dma_map_entry' = [dma_map_entry EXCEPT ![p] = NoPage]
          <5>1. PartOf(x) # p
            BY <4>1, <4>2, <4>4, <2>1, <2>2
          <5>2. dma_map_entry'[PartOf(x)] = dma_map_entry[PartOf(x)]
            BY <4>1, <4>4, <5>1 DEF MapInv, DmaTypeOK
          <5>3. QED BY <5>2 DEF Memory
        <4>5. QED BY <4>3, <4>4, <2>3
      <3>3. QED BY <3>1, <3>2
    <2>5. QED BY <1>4, <2>3, <2>4
  <1>12. ASSUME NEW nr \in streams, StreamFree(nr) PROVE Goal
    <2>1. reqs' = reqs /\ streams' = streams \ {nr} /\ UNCHANGED mapVars
      BY <1>12 DEF StreamFree
    <2>2. 0 \in Frag
      BY DmaFragAssumption DEF DmaFragAssumption
    <2>3. \A x \in reqs : Memory(x) # {nr} \X Frag
      <3>1. <<nr, 0>> \in {nr} \X Frag
        BY <2>2
      <3>2. \A x \in reqs : Memory(x) \cap ({nr} \X Frag) = {}
        BY <1>1 DEF OneOwner
      <3>3. QED BY <3>1, <3>2
    <2>4. ASSUME NEW x \in streams \ {nr} PROVE {x} \X Frag # {nr} \X Frag
      <3>1. <<x, 0>> \in {x} \X Frag
        BY <2>2
      <3>2. <<x, 0>> \notin {nr} \X Frag
        OBVIOUS
      <3>3. QED BY <3>1, <3>2
    <2>5. Out' = Out \ {{nr} \X Frag} /\ {nr} \X Frag \in Out
      BY <2>1, <2>3, <2>4, <1>5 DEF Out
    <2>6. QED BY <2>5 DEF Goal
  <1>13. ASSUME Reset PROVE Goal
    BY <1>13 DEF Reset, Out, Goal
  <1>14. ASSUME UNCHANGED dmaVars PROVE Goal
    <2>1. reqs' = reqs /\ streams' = streams /\ UNCHANGED mapVars
      BY <1>14 DEF dmaVars, mapVars
    <2>2. QED BY <2>1, <1>5 DEF Out, Goal
  <1>15. Goal
    <2>1. CASE \E nr \in Page : AllocPage(nr) \/ AllocSplit(nr) \/ StreamAlloc(nr)
      BY <2>1, <1>6, <1>7, <1>8
    <2>2. CASE \E f \in Frag : AllocFragment(f)
      BY <2>2, <1>9
    <2>3. CASE \E nr \in reqs : FreePage(nr) \/ FreeFragment(nr)
      BY <2>3, <1>10, <1>11
    <2>4. CASE \E nr \in streams : StreamFree(nr)
      BY <2>4, <1>12
    <2>5. DmaNext \/ UNCHANGED dmaVars
      OBVIOUS
    <2>6. QED BY <2>1, <2>2, <2>3, <2>4, <2>5, <1>13, <1>14 DEF DmaNext
  <1>16. QED BY <1>15 DEF Goal

\* The page map and the fragment map, with their numbers, queues and busy
\* marks, behave as a pool that hands out and takes back disjoint buffers.
THEOREM IsPool == DmaSpec => PoolSpec
  <1>1. DmaInit => Pool!Init
    BY DEF DmaInit, Pool!Init
  <1>2. MapInv /\ MapInv' /\ [DmaNext]_dmaVars => [Pool!Next]_Out
    <2>1. SUFFICES ASSUME MapInv, MapInv', [DmaNext]_dmaVars PROVE Pool!Next \/ Out' = Out
      OBVIOUS
    <2>2. QED BY <2>1, StepPool DEF Pool!Next, Pool!Get, Pool!Put, Pool!Forget, Out
  <1>3. QED BY <1>1, <1>2, MapInvariance, PTL DEF DmaSpec, PoolSpec, Pool!Spec, Out

=============================================================================
