------------------------------- MODULE XdiInd -------------------------------
(***************************************************************************)
(* The indications of one adapter: the second half of pr_dpc and isdn_ind  *)
(* (kernel/di.c).  A packet comes in one indication or in a chain of them, *)
(* N_MDATA ... N_DATA.  At the first of them the client is shown the data  *)
(* and refuses it for now (RNR 1), discards the packet (RNR 2), gives      *)
(* buffers to copy the packet to, or takes the data itself.  What was      *)
(* refused the card indicates again.                                       *)
(***************************************************************************)
EXTENDS Integers, Sequences, SequencesExt, FiniteSets

CONSTANTS
    Id,             \* Ids of entities
    NoId,           \* 0, no Id
    Streamed,       \* those whose data comes by DMA, see rx_stream
    Packets,        \* packets for an Id
    MaxLen,         \* length of a packet, at most
    Chunk,          \* data in an indication, at most (270 bytes)
    MaxInd,         \* indications in an interrupt, at most
    Grouped,        \* the card keeps those of an Id together
    MaxRefuse       \* refusals of data, see NCCIDataFlowCtrlTimer

ASSUME XdiIndAssumption ==
    /\ NoId \notin Id /\ Streamed \subseteq Id
    /\ Packets \in Nat \ {0} /\ MaxLen \in Nat \ {0}
    /\ Chunk \in Nat \ {0} /\ MaxInd \in Nat \ {0}
    /\ Grouped \in BOOLEAN /\ MaxRefuse \in Nat \ {0}

VARIABLES
    queue,          \* of an Id: what the card has still to indicate
    posted,         \* indications of this interrupt
    at,             \* the one pr_dpc looks at, 0 outside of pr_dpc
    RNRId,          \* local of pr_dpc, or NoId
    accepted,       \* places in posted that are not marked RNR
    IdTable,        \* Ids with an entity
    entity,
    timer,          \* NCCIDataFlowCtrlTimer of the client, see message.c
    got             \* what became of the packets for an Id, in this order

cardVars == <<queue, posted, accepted>>
vars == <<queue, posted, at, RNRId, accepted, IdTable, entity, timer, got>>

NoCurrent == 255

Smaller(a, b) == IF a < b THEN a ELSE b

\* Part of packet k of length n; the last one has another Ind than MInd.
Part(k, n, from, to) == [pkt |-> k, len |-> n, from |-> from, to |-> to]
IsLast(c) == c.to = c.len
DataOf(c) == [u \in 1..c.to - c.from |-> <<c.pkt, c.from + u>>]
Payload(k, n) == [u \in 1..n |-> <<k, u>>]

\* A packet as the card indicates it.
Chain(id, k, n) ==
    IF id \in Streamed THEN <<Part(k, n, 0, n)>>
    ELSE [j \in 1..(n + Chunk - 1) \div Chunk |->
             Part(k, n, (j - 1) * Chunk, Smaller(j * Chunk, n))]

\* The entity of an Id: RCurrent, ROffset, RNR and the buffers of ENTITY,
\* with what is in them, and what the client has taken by itself.
Fresh == [RCurrent |-> NoCurrent, ROffset |-> 0, RNR |-> 0,
          R |-> <<>>, own |-> <<>>]

Init ==
    /\ \E lens \in [1..Packets -> 1..MaxLen] :
          queue = [id \in Id |->
                     FlattenSeq([k \in 1..Packets |-> Chain(id, k, lens[k])])]
    /\ posted = <<>> /\ at = 0 /\ RNRId = NoId /\ accepted = {}
    /\ IdTable = Id
    /\ entity = [id \in Id |-> Fresh]
    /\ timer = [id \in Id |-> 0]
    /\ got = [id \in Id |-> <<>>]

-----------------------------------------------------------------------------
(* The card *)

InPosted(id) == {i \in 1..Len(posted) : posted[i].id = id}

\* The next indication of an Id is put to the others of this interrupt.
Post(id) ==
    LET n == Cardinality(InPosted(id))
    IN  /\ at = 0 /\ id \in IdTable
        /\ Len(posted) < MaxInd /\ n < Len(queue[id])
        /\ Grouped /\ n # 0 => posted[Len(posted)].id = id
        /\ posted' = Append(posted, [id |-> id, part |-> queue[id][n + 1]])
        /\ UNCHANGED <<queue, at, RNRId, accepted, IdTable, entity, timer, got>>

Interrupt ==
    /\ at = 0 /\ posted # <<>>
    /\ at' = 1 /\ RNRId' = NoId
    /\ UNCHANGED <<cardVars, IdTable, entity, timer, got>>

\* IndOutput is cleared; the card keeps what is marked RNR.
Answered ==
    LET Done(id, c) == \E i \in accepted : posted[i].id = id /\ posted[i].part = c
    IN  /\ at > Len(posted)
        /\ queue' = [id \in Id |->
                       SelectSeq(queue[id], LAMBDA c : ~Done(id, c))]
        /\ posted' = <<>> /\ at' = 0 /\ accepted' = {}
        /\ RNRId' = NoId
        /\ UNCHANGED <<IdTable, entity, timer, got>>

-----------------------------------------------------------------------------
(* isdn_ind *)

Outcome(c, how, data) == [pkt |-> c.pkt, len |-> c.len, how |-> how, data |-> data]


Accept == accepted' = accepted \cup {at} /\ RNRId' = NoId

\* Mutant: the unit at the seam of two buffers is lost.
CopyUnitSeam(e, x) ==
    IF e.ROffset = e.R[e.RCurrent].PLength
    THEN [e EXCEPT !.RCurrent = @ + 1, !.ROffset = 0]
    ELSE [e EXCEPT !.ROffset = @ + 1, !.R[e.RCurrent].P = Append(@, x)]

\* The copy loop for one unit of data; buffers are numbered from 1.
CopyUnit(e, x) ==
    LET full == e.ROffset = e.R[e.RCurrent].PLength
        cur == IF full THEN e.RCurrent + 1 ELSE e.RCurrent
    IN  [e EXCEPT !.RCurrent = cur, !.ROffset = IF full THEN 1 ELSE @ + 1,
                  !.R[cur].P = Append(@, x)]

Copy(e, c) == FoldLeft(CopyUnit, e, DataOf(c))

\* RNum of a complete packet, and what the client finds in its buffers then.
RNum(e) == IF e.ROffset # 0 THEN e.RCurrent ELSE e.RCurrent - 1
Received(e) == FlattenSeq([i \in 1..RNum(e) |-> e.R[i].P])

\* Mutant: a packet that is discarded has no end.
DiscardedOn(e) == e

Discarded(e) == [e EXCEPT !.RCurrent = NoCurrent, !.RNR = 0]

Finished(e) == [e EXCEPT !.RCurrent = NoCurrent, !.R = <<>>]

\* The packet of c goes on with the entity e, and away or into the buffers.
Data(id, c, e) ==
    LET f == IF e.RNR = 2 THEN e ELSE Copy(e, c)
        done == IF e.RNR = 2 THEN Discarded(f) ELSE Finished(f)
        out == IF e.RNR = 2 THEN Outcome(c, "discarded", <<>>)
               ELSE Outcome(c, "copied", Received(f))
    IN  /\ Accept
        /\ entity' = [entity EXCEPT ![id] = IF IsLast(c) THEN done ELSE f]
        /\ got' = IF IsLast(c) THEN [got EXCEPT ![id] = Append(@, out)] ELSE got

\* Mutant: it refuses as long as it likes.
NoBufferEver(id, c) ==
    /\ RNRId' = id
    /\ UNCHANGED <<accepted, entity, timer, got>>

\* The client has no buffer: it refuses, and after some times discards.
NoBuffer(id, c) ==
    /\ timer' = [timer EXCEPT ![id] = Smaller(@ + 1, MaxRefuse)]
    /\ \/ /\ timer'[id] < MaxRefuse
          /\ RNRId' = id
          /\ UNCHANGED <<accepted, entity, got>>
       \/ /\ timer'[id] = MaxRefuse
          /\ Data(id, c, [entity[id] EXCEPT !.RCurrent = 1, !.ROffset = 0, !.RNR = 2])

\* It gives buffers: one, or a short one for a header and another.
Give(id, c) ==
    \E sizes \in {<<c.len>>, <<c.len + 1>>, <<1, c.len>>} :
        /\ timer' = [timer EXCEPT ![id] = 0]
        /\ LET R == [i \in 1..Len(sizes) |-> [PLength |-> sizes[i], P |-> <<>>]]
           IN  Data(id, c, [entity[id] EXCEPT !.RCurrent = 1, !.ROffset = 0, !.R = R])

\* It discards the packet, whatever its buffers.
Discard(id, c) ==
    /\ UNCHANGED timer
    /\ Data(id, c, [entity[id] EXCEPT !.RCurrent = 1, !.ROffset = 0, !.RNR = 2])

\* It takes the data itself, and goes on with that to the end of the packet.
Own(id, c) ==
    LET data == entity[id].own \o DataOf(c)
    IN  /\ id \in Streamed => c.len <= Chunk
        /\ Accept
        /\ entity' = [entity EXCEPT ![id].own = IF IsLast(c) THEN <<>> ELSE data]
        /\ got' = IF IsLast(c)
                  THEN [got EXCEPT ![id] = Append(@, Outcome(c, "own", data))] ELSE got
        /\ UNCHANGED timer

\* isdn_ind for the first indication of a packet, and for the others.
LookAhead(id, c) ==
    /\ entity[id].RCurrent = NoCurrent
    /\ \/ Own(id, c)
       \/ entity[id].own = <<>> /\ (NoBuffer(id, c) \/ Give(id, c) \/ Discard(id, c))

Further(id, c) ==
    /\ entity[id].RCurrent # NoCurrent
    /\ Data(id, c, entity[id])
    /\ UNCHANGED timer

\* Nobody has the Id.
Unknown(id) == id \notin IdTable /\ Accept /\ UNCHANGED <<entity, timer, got>>

isdn_ind(id, c) ==
    Unknown(id) \/ (id \in IdTable /\ (LookAhead(id, c) \/ Further(id, c)))

\* Mutant: what follows is not marked.
NeverMarked(id) == FALSE

Marked(id) == RNRId = id

\* One turn of the loop of pr_dpc.
Indicate ==
    /\ at \in 1..Len(posted)
    /\ at' = at + 1
    /\ UNCHANGED <<queue, posted, IdTable>>
    /\ LET id == posted[at].id
       IN  \/ /\ Marked(id)
              /\ UNCHANGED <<RNRId, accepted, entity, timer, got>>
           \/ /\ ~Marked(id)
              /\ isdn_ind(id, posted[at].part)

-----------------------------------------------------------------------------
(* REMOVE and ASSIGN *)

\* The card indicates no more of the packets it has begun.
Begun(id) ==
    {posted[i].part.pkt : i \in InPosted(id)}
    \cup IF queue[id] # <<>> /\ queue[id][1].from # 0 THEN {queue[id][1].pkt} ELSE {}

\* Mutant: an entity keeps RNR after its REMOVE.
RemovedKept(e) == e

Removed(e) == [e EXCEPT !.RNR = 0]

\* The return code of a REMOVE, which pr_dpc sees before the indications of
\* the same interrupt.
RemoveRc(id) ==
    /\ at = 0 /\ id \in IdTable
    /\ IdTable' = IdTable \ {id}
    /\ entity' = [entity EXCEPT ![id] = Removed(@)]
    /\ queue' = [queue EXCEPT ![id] = SelectSeq(@, LAMBDA c : c.pkt \notin Begun(id))]
    /\ got' = [got EXCEPT ![id] = @ \o
                 [i \in 1..Cardinality(Begun(id)) |->
                    [pkt |-> Len(@) + i, len |-> 0, how |-> "dropped", data |-> <<>>]]]
    /\ UNCHANGED <<posted, at, RNRId, accepted, timer>>

\* request() for an ASSIGN, and its return code: the buffers are the client's.
AssignRc(id) ==
    /\ at = 0 /\ id \notin IdTable /\ InPosted(id) = {}
    /\ IdTable' = IdTable \cup {id}
    /\ entity' = [entity EXCEPT ![id] = [Fresh EXCEPT !.RNR = entity[id].RNR]]
    /\ UNCHANGED <<cardVars, at, RNRId, timer, got>>

Next ==
    \/ \E id \in Id : Post(id) \/ RemoveRc(id) \/ AssignRc(id)
    \/ Interrupt \/ Indicate \/ Answered

\* The card interrupts for what it has, and the soft ISR runs to its end.
Spec == Init /\ [][Next]_vars
FairSpec ==
    /\ Spec
    /\ \A id \in Id : WF_vars(Post(id))
    /\ WF_vars(Interrupt) /\ WF_vars(Indicate) /\ WF_vars(Answered)

-----------------------------------------------------------------------------
(* Properties *)

\* Every packet of an Id reaches its client once, in the order of the card,
\* and whole: through refusals, chains, buffers of every size and new users
\* of the Id (di.c:300-331, 787-911).
PacketsWhole ==
    \A id \in Id : \A i \in 1..Len(got[id]) :
        LET g == got[id][i]
        IN  /\ g.pkt = i
            /\ g.how \in {"copied", "own"} => g.data = Payload(g.pkt, g.len)

\* When the card and the entity are both at rest, they agree on whether a
\* packet is in its middle (RCurrent at di.c:794, 860, 904).
ChainsAgree ==
    at = 0 => \A id \in IdTable :
        (entity[id].RCurrent # NoCurrent \/ entity[id].own # <<>>)
        <=> queue[id] # <<>> /\ queue[id][1].from # 0

\* "if the application marks an indication as RNR, all indications from the
\* same Id delivered in this interrupt are marked RNR" (di.c:305-307).
RnrForTheRest ==
    \A i, j \in 1..Len(posted) :
        i < j /\ posted[i].id = posted[j].id /\ j \in accepted => i \in accepted

\* A packet is never discarded because of what another user of the entity
\* did: RNR is 2 only in the middle of a packet (di.c:862, 586).
RnrOnlyInChain ==
    \A id \in Id : entity[id].RNR = 2 =>
        id \in IdTable /\ entity[id].RCurrent # NoCurrent

\* All packets of an Id that stays are indicated and answered in the end,
\* because a client refuses data only so often (message.c:10107-10117).
AllIndicated == \A id \in Id : <>(queue[id] = <<>> \/ id \notin IdTable)

\* The state of a chain, in the entity and in the loop over one interrupt, is
\* the one of the packet that is under way (di.c:305-331, 794, 862, 904).
ChainsKept == ChainsAgree /\ RnrForTheRest /\ RnrOnlyInChain
=============================================================================
