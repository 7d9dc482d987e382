----------------------------- MODULE UmIdiProofs ----------------------------
(***************************************************************************)
(* Proofs about UmIdi: when memory is freed that the XDI uses, no request  *)
(* meets a busy entity, and the flags of an entity tell the truth about    *)
(* its request, for any number of entities.                                *)
(***************************************************************************)
EXTENDS UmIdi, FiniteSetTheorems, TLAPS

-----------------------------------------------------------------------------
(* The inductive invariant, for one entity                                 *)

STATUS == {"RC_PENDING", "REMOVE_PENDING", "REMOVED", "ASSIGN_PENDING", "TIMEOUT"}
DATA == 0..MaxData
ENTITY == [status : SUBSET STATUS, Id : {0, 1}, rc_count : 0..1,
           rc : 0..2, data : DATA, adapter : BOOLEAN]

Types ==
    /\ xdi \in Xdi
    /\ mem \in [Entity -> {"free", "live", "delayed"}]
    /\ e \in [Entity -> ENTITY]
    /\ ref \in [Entity -> Ref] /\ pc \in [Entity -> Pc]
    /\ armed \in [Entity -> BOOLEAN] /\ running \in [Entity -> BOOLEAN]
    /\ aborted \in [Entity -> BOOLEAN] /\ woken \in [Entity -> BOOLEAN]

Delayed == {f \in Entity : mem[f] = "delayed"}

DelayedCounted == nr_delayed = Cardinality(Delayed)

Live(f) == mem[f] = "live" /\ Linked(f)
InTime(f) == "TIMEOUT" \notin e[f].status

\* The file, the memory and the timer of an entity go together.
Owned(f) ==
    /\ pc[f] = "none" <=> mem[f] # "live"
    /\ armed[f] => mem[f] = "live"
    /\ mem[f] = "free" => ~aborted[f]
    /\ running[f] => aborted[f] \/ pc[f] \in {"none", "delete"}

\* So do the adapter, the pointer to it, and what the XDI has.
OfAdapter(f) ==
    /\ mem[f] = "live" /\ e[f].adapter => xdi = "up"
    /\ xdi = "up" /\ mem[f] = "live" /\ ~Linked(f) => ref[f] = "none"
    /\ xdi = "off" => ref[f] = "none"

\* What the XDI has is known to the entity.
Known(f) ==
    /\ ref[f] # "trap"
    /\ Live(f) => /\ ref[f] # "none" => e[f].Id # 0
                  /\ ref[f] \in Pending => e[f].rc_count = 1
    /\ Live(f) /\ aborted[f] /\ ~running[f] => ~InTime(f)

\* Of an entity whose process may write and read.
Calling(f) ==
    pc[f] = "open" /\ Linked(f) =>
        /\ ~InTime(f) => aborted[f]
        /\ InTime(f) => /\ e[f].rc <= 1
                        /\ e[f].rc > 0 => /\ "RC_PENDING" \in e[f].status
                                          /\ e[f].rc_count = 0
                        /\ "RC_PENDING" \notin e[f].status => e[f].rc_count = 0

\* Before its memory is freed.
Leaving(f) ==
    pc[f] \in {"stop", "delete"} =>
        TimedOut(f) \/ ref[f] = "none" \/ running[f] \/ xdi # "up"

EntityInv(f) == Owned(f) /\ OfAdapter(f) /\ Known(f) /\ Calling(f) /\ Leaving(f)

IInv == Types /\ DelayedCounted /\ \A f \in Entity : EntityInv(f)

\* With room in the XDI nothing is dropped, and the entity knows no more than
\* the XDI.
Agrees(f) ==
    /\ Live(f) /\ InTime(f) => /\ ref[f] = "none" => e[f].Id = 0
                               /\ ref[f] \notin Pending => e[f].rc_count = 0
    /\ pc[f] = "open" /\ Linked(f) /\ InTime(f) /\ "RC_PENDING" \in e[f].status
         => e[f].rc > 0 \/ ref[f] \in Pending

-----------------------------------------------------------------------------
(* A step of one entity leaves the others alone                            *)

Same(f, g) ==
    /\ xdi' = xdi
    /\ mem'[g] = mem[g] /\ e'[g] = e[g] /\ ref'[g] = ref[g] /\ pc'[g] = pc[g]
    /\ armed'[g] = armed[g] /\ running'[g] = running[g] /\ aborted'[g] = aborted[g]

LEMMA SameKeeps ==
    ASSUME NEW f, NEW g, Same(f, g)
    PROVE  /\ EntityInv(g) => EntityInv(g)'
           /\ Agrees(g) => Agrees(g)'
  BY DEF Same, EntityInv, Owned, OfAdapter, Known, Calling, Leaving, Agrees, Live, Linked,
         InTime, TimedOut

OfOne(f) ==
    \/ Open(f) \/ (\E Req \in Pending : Write(f, Req)) \/ Read(f)
    \/ Release(f) \/ Releasing(f) \/ Timer(f) \/ Rc(f) \/ Ind(f)

LEMMA OthersSame ==
    ASSUME Types, NEW f \in Entity, NEW g \in Entity \ {f}, OfOne(f)
    PROVE  Same(f, g)
<1> USE DEF Types, Same, Set, osVars
<1>1. CASE Open(f)
  BY <1>1 DEF Open
<1>2. CASE \E Req \in Pending : Write(f, Req)
  BY <1>2 DEF Write, XdiRequest
<1>3. CASE Read(f)
  BY <1>3 DEF Read
<1>4. CASE Release(f)
  BY <1>4 DEF Release, RemovePending, Wdog
<1>5. CASE Releasing(f)
  BY <1>5 DEF Releasing, StartRemove, Assigned, Stop, Delete, RemovePending, XdiRequest
<1>6. CASE Timer(f)
  BY <1>6 DEF Timer, TimerExpires, TimerNotifies, Notified
<1>7. CASE Rc(f)
  BY <1>7 DEF Rc, RcCallback, Wake
<1>8. CASE Ind(f)
  BY <1>8 DEF Ind
<1>9. QED
  BY <1>1, <1>2, <1>3, <1>4, <1>5, <1>6, <1>7, <1>8 DEF OfOne

-----------------------------------------------------------------------------
(* Each step of an entity keeps its part of the invariant                  *)

LEMMA OpenKeeps ==
    ASSUME UmIdiAssumption, Types, NEW f \in Entity, EntityInv(f), Open(f)
    PROVE  Types' /\ EntityInv(f)' /\ Agrees(f)'
<1> USE DEF Types, ENTITY, STATUS, DATA, Pc, Ref, Pending, EntityInv, Open, Set, New, osVars
<1>1. Types'
  BY DEF UmIdiAssumption
<1>2. e'[f] = New /\ mem'[f] = "live" /\ pc'[f] = "open" /\ ref'[f] = ref[f]
      /\ armed'[f] = armed[f] /\ ~running'[f] /\ xdi' = "up" /\ ref[f] = "none"
      /\ aborted'[f] = aborted[f]
  OBVIOUS
<1>3. mem[f] = "free"
  OBVIOUS
<1>4. EntityInv(f)' /\ Agrees(f)'
  BY <1>2, <1>3
     DEF Owned, OfAdapter, Known, Calling, Leaving, Agrees, Live, Linked, InTime, TimedOut
<1>5. QED
  BY <1>1, <1>4

\* What the callers below have of the record of an entity, and of its new one.
LEMMA NewRecord ==
    ASSUME Types, NEW f \in Entity, NEW n \in ENTITY, e' = [e EXCEPT ![f] = n]
    PROVE  e' \in [Entity -> ENTITY] /\ e'[f] = n /\ e[f] \in ENTITY
  BY DEF Types

LEMMA Fields ==
    ASSUME NEW x \in ENTITY
    PROVE  /\ x.status \in SUBSET STATUS /\ x.Id \in {0, 1}
           /\ x.rc_count \in {0, 1} /\ x.rc \in {0, 1, 2} /\ x.data \in DATA
           /\ x.adapter \in BOOLEAN
  BY DEF ENTITY

LEMMA WriteRecord ==
    ASSUME NEW f \in Entity, e[f] \in ENTITY, e[f].rc_count = 0,
           NEW Req \in Pending, Req = "assign" <=> e[f].Id = 0
    PROVE  LET n == AfterWrite(f, Req)
           IN  /\ n \in ENTITY /\ n.Id = 1 /\ n.rc_count = 1 /\ n.rc = e[f].rc
               /\ n.adapter = e[f].adapter /\ "RC_PENDING" \in n.status
               /\ \A s \in {"TIMEOUT", "REMOVED"} : s \in n.status <=> s \in e[f].status
<1> DEFINE x == e[f]
           n == AfterWrite(f, Req)
           s == x.status \cup {"RC_PENDING"} \cup
                  IF Req = "assign" THEN {"ASSIGN_PENDING"} ELSE {}
           i == IF Req = "assign" THEN 1 ELSE x.Id
           c == x.rc_count + 1
<1>1. s \in SUBSET STATUS /\ "RC_PENDING" \in s
      /\ \A st \in {"TIMEOUT", "REMOVED"} : st \in s <=> st \in x.status
  BY Fields DEF STATUS
<1>2. i = 1 /\ c = 1
  BY Fields
<1>3. n = [x EXCEPT !.Id = i, !.rc_count = c, !.status = s]
  BY DEF AfterWrite
<1>4. x \in ENTITY
  OBVIOUS
<1> HIDE DEF x, n, s, i, c
<1>s. s \in SUBSET STATUS /\ i \in {0, 1} /\ c \in 0..1
  BY <1>1, <1>2
<1>5. /\ n \in ENTITY /\ n.Id = i /\ n.rc_count = c /\ n.status = s
      /\ n.rc = x.rc /\ n.adapter = x.adapter
  BY <1>s, <1>3, <1>4 DEF ENTITY
<1>6. QED
  BY <1>1, <1>2, <1>5 DEF x, n

LEMMA WriteKeeps ==
    ASSUME UmIdiAssumption, Types, NEW f \in Entity, EntityInv(f),
           NEW Req \in Pending, Write(f, Req)
    PROVE  Types' /\ EntityInv(f)'
<1> DEFINE n == AfterWrite(f, Req)
<1>1. /\ pc[f] = "open" /\ ~aborted[f] /\ Linked(f) /\ "RC_PENDING" \notin e[f].status
      /\ (Req = "assign" <=> e[f].Id = 0)
  BY DEF Write, MayWrite, Linked
<1>2. InTime(f) /\ mem[f] = "live" /\ ~running[f]
  BY <1>1 DEF EntityInv, Calling, Owned, OfAdapter
<1>3. e[f] \in ENTITY
  BY DEF Types
<1>4. e[f].rc_count = 0 /\ e[f].rc = 0 /\ ref[f] \in {"none", "idle"}
  BY <1>1, <1>2, <1>3, Fields DEF EntityInv, Calling, Known, Live, Types, Ref, Pending
<1>5. /\ n \in ENTITY /\ n.Id = 1 /\ n.rc_count = 1 /\ n.rc = 0
      /\ n.adapter = e[f].adapter /\ "RC_PENDING" \in n.status
      /\ \A s \in {"TIMEOUT", "REMOVED"} : s \in n.status <=> s \in e[f].status
  BY <1>1, <1>3, <1>4, WriteRecord
<1>6. e' = [e EXCEPT ![f] = n]
  BY DEF Write, Set
<1> HIDE DEF n
<1>7. e'[f] = n /\ e' \in [Entity -> ENTITY]
  BY <1>5, <1>6, NewRecord
<1>8. ref' \in [Entity -> Ref] /\ ref'[f] \in {ref[f], Req}
  BY <1>4 DEF Write, XdiRequest, Types, Ref
<1>9. Types'
  BY <1>7, <1>8 DEF Write, Types, Set
<1>10. /\ mem'[f] = mem[f] /\ pc'[f] = pc[f] /\ armed'[f]
       /\ running'[f] = running[f] /\ aborted'[f] = aborted[f] /\ xdi' = xdi
  BY DEF Write, Set, Types
<1>11. Linked(f)' /\ InTime(f)'
  BY <1>1, <1>2, <1>5, <1>7 DEF Linked, InTime
<1>12. Owned(f)' /\ OfAdapter(f)'
  BY <1>1, <1>2, <1>10, <1>11 DEF EntityInv, Owned, OfAdapter, Linked
<1>13. Known(f)'
  BY <1>1, <1>4, <1>5, <1>7, <1>8, <1>10, <1>11 DEF Known, Live, Pending
<1>14. Calling(f)'
  BY <1>5, <1>7, <1>10, <1>11 DEF Calling
<1>15. Leaving(f)'
  BY <1>1, <1>10 DEF Leaving
<1>16. QED
  BY <1>9, <1>12, <1>13, <1>14, <1>15 DEF EntityInv

LEMMA ReadRecord ==
    ASSUME Types, NEW f \in Entity, Read(f)
    PROVE  /\ e' \in [Entity -> ENTITY] /\ e'[f].Id = e[f].Id
           /\ e'[f].rc_count = e[f].rc_count /\ e'[f].adapter = e[f].adapter
           /\ \A s \in {"TIMEOUT", "REMOVED"} : s \in e'[f].status <=> s \in e[f].status
           /\ \/ /\ e[f].rc > 0 /\ e'[f].rc = e[f].rc - 1
                 /\ "RC_PENDING" \notin e'[f].status
              \/ e'[f].rc = e[f].rc /\ e'[f].status = e[f].status
<1> DEFINE x == e[f]
           d == x.rc - 1
           s == x.status \ {"RC_PENDING"}
           m == x.data - 1
<1>1. x \in ENTITY
  BY DEF Types
<1>2. \/ x.rc > 0 /\ e' = [e EXCEPT ![f] = [x EXCEPT !.rc = d, !.status = s]]
      \/ x.data > 0 /\ e' = [e EXCEPT ![f] = [x EXCEPT !.data = m]]
  BY Zenon DEF Read
<1>3. CASE x.rc > 0 /\ e' = [e EXCEPT ![f] = [x EXCEPT !.rc = d, !.status = s]]
  <2> DEFINE n == [x EXCEPT !.rc = d, !.status = s]
  <2>1. d \in 0..2 /\ s \in SUBSET STATUS
    BY <1>1, <1>3, Fields
  <2>2. "RC_PENDING" \notin s
        /\ \A st \in {"TIMEOUT", "REMOVED"} : st \in s <=> st \in x.status
    OBVIOUS
  <2> HIDE DEF x, d, s
  <2>3. /\ n \in ENTITY /\ n.rc = d /\ n.status = s /\ n.Id = x.Id
        /\ n.rc_count = x.rc_count /\ n.adapter = x.adapter
    BY <1>1, <2>1 DEF ENTITY
  <2> HIDE DEF n
  <2>4. e'[f] = n /\ e' \in [Entity -> ENTITY]
    BY <1>3, <2>3, NewRecord DEF n
  <2>5. QED
    BY <1>3, <2>2, <2>3, <2>4 DEF x, d
<1>4. CASE x.data > 0 /\ e' = [e EXCEPT ![f] = [x EXCEPT !.data = m]]
  <2> DEFINE n == [x EXCEPT !.data = m]
  <2>1. m \in DATA
    BY <1>1, <1>4, Fields, UmIdiAssumption DEF DATA, UmIdiAssumption
  <2> HIDE DEF x, m
  <2>2. /\ n \in ENTITY /\ n.rc = x.rc /\ n.status = x.status /\ n.Id = x.Id
        /\ n.rc_count = x.rc_count /\ n.adapter = x.adapter
    BY <1>1, <2>1 DEF ENTITY
  <2> HIDE DEF n
  <2>3. e'[f] = n /\ e' \in [Entity -> ENTITY]
    BY <1>4, <2>2, NewRecord DEF n
  <2>4. QED
    BY <2>2, <2>3 DEF x
<1>5. QED
  BY <1>2, <1>3, <1>4

LEMMA ReadKeeps ==
    ASSUME UmIdiAssumption, Types, NEW f \in Entity, EntityInv(f), Read(f)
    PROVE  Types' /\ EntityInv(f)' /\ (Agrees(f) => Agrees(f)')
<1>1. pc[f] = "open" /\ ~aborted[f] /\ Linked(f)
  BY DEF Read, Linked
<1>2. InTime(f) /\ mem[f] = "live"
  BY <1>1 DEF EntityInv, Calling, Owned, OfAdapter
<1>3. e[f] \in ENTITY /\ e'[f] \in ENTITY
  BY ReadRecord DEF Types
<1>4. /\ mem'[f] = mem[f] /\ pc'[f] = pc[f] /\ armed'[f] = armed[f]
      /\ running'[f] = running[f] /\ aborted'[f] = aborted[f] /\ ref'[f] = ref[f]
      /\ xdi' = xdi
  BY DEF Read, osVars
<1>5. Types'
  BY ReadRecord DEF Read, osVars, Types
<1>6. Linked(f)' /\ InTime(f)'
  BY <1>1, <1>2, ReadRecord DEF Linked, InTime
<1>7. Owned(f)' /\ OfAdapter(f)' /\ Leaving(f)'
  BY <1>1, <1>2, <1>4, <1>6 DEF Owned, OfAdapter, Leaving, EntityInv, Linked
<1>8. Known(f)'
  BY <1>1, <1>2, <1>4, <1>6, ReadRecord DEF Known, EntityInv, Live
<1>9. Calling(f)'
  BY <1>1, <1>2, <1>3, <1>4, <1>6, ReadRecord, Fields DEF Calling, EntityInv
<1>10. Agrees(f) => Agrees(f)'
  BY <1>1, <1>2, <1>4, <1>6, <1>3, ReadRecord, Fields DEF Agrees, Live, EntityInv, Calling
<1>11. QED
  BY <1>5, <1>7, <1>8, <1>9, <1>10 DEF EntityInv

\* RemovePending and Notified add a flag, and leave the rest of the record.
FlagAdded(f, flag) ==
    /\ e' \in [Entity -> ENTITY]
    /\ e'[f].Id = e[f].Id /\ e'[f].rc_count = e[f].rc_count /\ e'[f].rc = e[f].rc
    /\ e'[f].adapter = e[f].adapter
    /\ \A s \in STATUS \ {flag} : s \in e'[f].status <=> s \in e[f].status

LEMMA StatusRecord ==
    ASSUME Types, NEW f \in Entity, NEW flag \in STATUS,
           \/ e' = [e EXCEPT ![f].status = @ \cup {flag}]
           \/ e' = e
    PROVE  FlagAdded(f, flag)
<1> DEFINE x == e[f]
           s == x.status \cup {flag}
           n == [x EXCEPT !.status = s]
<1>1. x \in ENTITY
  BY DEF Types
<1>2. CASE e' = [e EXCEPT ![f].status = @ \cup {flag}]
  <2>1. s \in SUBSET STATUS /\ \A t \in STATUS \ {flag} : t \in s <=> t \in x.status
    BY <1>1, Fields
  <2>2. e' = [e EXCEPT ![f] = n]
    BY <1>2
  <2> HIDE DEF x, s
  <2>3. /\ n \in ENTITY /\ n.Id = x.Id /\ n.rc_count = x.rc_count /\ n.rc = x.rc
        /\ n.adapter = x.adapter /\ n.status = s
    BY <1>1, <2>1 DEF ENTITY
  <2> HIDE DEF n
  <2>4. e'[f] = n /\ e' \in [Entity -> ENTITY]
    BY <2>2, <2>3, NewRecord
  <2>5. QED
    BY <2>1, <2>3, <2>4 DEF FlagAdded, x
<1>3. CASE e' = e
  BY <1>3 DEF FlagAdded, Types
<1>4. QED
  BY <1>2, <1>3

LEMMA RemovePendingRecord ==
    ASSUME Types, NEW f \in Entity, e' = RemovePending(f)
    PROVE  FlagAdded(f, "REMOVE_PENDING") /\ Linked(f)' = Linked(f) /\ InTime(f)' = InTime(f)
<1>1. \/ e' = [e EXCEPT ![f].status = @ \cup {"REMOVE_PENDING"}]
      \/ e' = [e EXCEPT ![f].status = @]
  BY Zenon DEF RemovePending
<1>2. e' = [e EXCEPT ![f].status = @] => e' = e
  BY DEF Types, ENTITY
<1>3. FlagAdded(f, "REMOVE_PENDING")
  BY <1>1, <1>2, StatusRecord DEF STATUS
<1>4. QED
  BY <1>3 DEF FlagAdded, Linked, InTime, STATUS

\* When a release does not wait, the XDI has nothing of the entity, or it has
\* timed out.
LEMMA NothingAwaited ==
    ASSUME Types, NEW f \in Entity, EntityInv(f), mem[f] = "live",
           ~(IsAssigned(f) /\ ~aborted[f])
    PROVE  TimedOut(f) \/ ref[f] = "none" \/ running[f] \/ xdi # "up"
<1>1. CASE ~Linked(f)
  BY <1>1 DEF EntityInv, Owned, OfAdapter
<1>2. CASE Linked(f) /\ ~IsAssigned(f)
  BY <1>2, Fields DEF EntityInv, Known, Live, IsAssigned, Types
<1>3. CASE Linked(f) /\ aborted[f]
  BY <1>3 DEF EntityInv, Known, Live, InTime, TimedOut, Linked
<1>4. QED
  BY <1>1, <1>2, <1>3

LEMMA ReleaseKeeps ==
    ASSUME UmIdiAssumption, Types, NEW f \in Entity, EntityInv(f), Release(f)
    PROVE  Types' /\ EntityInv(f)' /\ (Agrees(f) => Agrees(f)')
<1> DEFINE wait == IsAssigned(f) /\ ~aborted[f]
<1>1. mem[f] = "live"
  BY DEF Release, EntityInv, Owned, OfAdapter
<1>2. FlagAdded(f, "REMOVE_PENDING") /\ Linked(f)' = Linked(f) /\ InTime(f)' = InTime(f)
  BY RemovePendingRecord DEF Release
<1>3. /\ mem'[f] = mem[f] /\ ref'[f] = ref[f] /\ aborted'[f] = aborted[f]
      /\ running'[f] = running[f] /\ pc'[f] = IF wait THEN "busy" ELSE "delete"
      /\ xdi' = xdi /\ pc[f] = "open"
  BY DEF Release, Set, Types
<1>4. Types'
  BY <1>2 DEF Release, Types, Set, Wdog, Wake, FlagAdded, Pc, IsAssigned, Linked
<1>5. pc'[f] = "delete" => TimedOut(f) \/ ref[f] = "none" \/ running[f] \/ xdi # "up"
  BY <1>1, <1>3, NothingAwaited
<1>6. Owned(f)' /\ OfAdapter(f)' /\ Known(f)'
  BY <1>1, <1>2, <1>3 DEF Owned, OfAdapter, Known, Live, FlagAdded, EntityInv
<1>7. Calling(f)' /\ Leaving(f)'
  BY <1>2, <1>3, <1>5 DEF Calling, Leaving, FlagAdded, TimedOut, STATUS
<1>8. Agrees(f) => Agrees(f)'
  BY <1>2, <1>3 DEF Agrees, Live, FlagAdded
<1>9. QED
  BY <1>4, <1>6, <1>7, <1>8 DEF EntityInv

LEMMA AssignedKeeps ==
    ASSUME UmIdiAssumption, Types, NEW f \in Entity, EntityInv(f), Assigned(f)
    PROVE  Types' /\ EntityInv(f)' /\ (Agrees(f) => Agrees(f)')
<1>1. mem[f] = "live"
  BY DEF Assigned, EntityInv, Owned, OfAdapter
<1>2. FlagAdded(f, "REMOVE_PENDING") /\ Linked(f)' = Linked(f) /\ InTime(f)' = InTime(f)
  BY RemovePendingRecord DEF Assigned
<1>3. /\ mem'[f] = mem[f] /\ ref'[f] = ref[f] /\ aborted'[f] = aborted[f]
      /\ running'[f] = running[f] /\ armed'[f] = armed[f] /\ xdi' = xdi
      /\ pc[f] = "assigned"
      /\ \/ pc'[f] = "stop" /\ ~(IsAssigned(f) /\ ~aborted[f])
         \/ pc'[f] = "assigned"
  BY DEF Assigned, Set, Types
<1>4. Types'
  BY <1>2 DEF Assigned, Types, Set, FlagAdded, Pc
<1>5. pc'[f] = "stop" => TimedOut(f) \/ ref[f] = "none" \/ running[f] \/ xdi # "up"
  BY <1>1, <1>3, NothingAwaited
<1>6. Owned(f)' /\ OfAdapter(f)' /\ Known(f)'
  BY <1>1, <1>2, <1>3 DEF Owned, OfAdapter, Known, Live, FlagAdded, EntityInv
<1>7. Calling(f)' /\ Leaving(f)'
  BY <1>2, <1>3, <1>5 DEF Calling, Leaving, FlagAdded, TimedOut, STATUS
<1>8. Agrees(f) => Agrees(f)'
  BY <1>2, <1>3 DEF Agrees, Live, FlagAdded
<1>9. QED
  BY <1>4, <1>6, <1>7, <1>8 DEF EntityInv

LEMMA RemoveRecord ==
    ASSUME Types, NEW f \in Entity, e[f].rc_count = 0,
           e' = [e EXCEPT ![f].rc_count = @ + 1]
    PROVE  /\ e' \in [Entity -> ENTITY] /\ e'[f].rc_count = 1 /\ e'[f].Id = e[f].Id
           /\ e'[f].rc = e[f].rc /\ e'[f].adapter = e[f].adapter
           /\ e'[f].status = e[f].status
<1> DEFINE x == e[f]
           c == x.rc_count + 1
           n == [x EXCEPT !.rc_count = c]
<1>1. x \in ENTITY /\ c = 1 /\ c \in 0..1
  BY DEF Types
<1>2. e' = [e EXCEPT ![f] = n]
  BY Zenon
<1> HIDE DEF x, c
<1>3. /\ n \in ENTITY /\ n.rc_count = c /\ n.Id = x.Id /\ n.rc = x.rc
      /\ n.adapter = x.adapter /\ n.status = x.status
  BY <1>1 DEF ENTITY
<1> HIDE DEF n
<1>4. e'[f] = n /\ e' \in [Entity -> ENTITY]
  BY <1>2, <1>3, NewRecord
<1>5. QED
  BY <1>1, <1>3, <1>4 DEF x

LEMMA StartRemoveKeeps ==
    ASSUME UmIdiAssumption, Types, NEW f \in Entity, EntityInv(f), StartRemove(f)
    PROVE  Types' /\ EntityInv(f)' /\ (Agrees(f) => Agrees(f)')
<1>1. mem[f] = "live" /\ pc[f] = "busy"
  BY DEF StartRemove, EntityInv, Owned, OfAdapter
<1>2. /\ mem' = mem /\ aborted' = aborted /\ running' = running /\ armed' = armed
      /\ xdi' = xdi
  BY DEF StartRemove
<1>3. /\ woken' \in [Entity -> BOOLEAN] /\ pc' \in [Entity -> Pc]
      /\ pc'[f] \in {"busy", "assigned"}
  BY <1>1 DEF StartRemove, Types, Set, Pc
<1>4. CASE e' = e /\ ref' = ref
  <2>1. Types'
    BY <1>2, <1>3, <1>4 DEF Types
  <2>2. EntityInv(f)'
    BY <1>1, <1>2, <1>3, <1>4
       DEF EntityInv, Owned, OfAdapter, Known, Calling, Leaving, Live, Linked, InTime, TimedOut
  <2>3. Agrees(f) => Agrees(f)'
    BY <1>1, <1>2, <1>3, <1>4 DEF Agrees, Live, Linked, InTime
  <2>4. QED
    BY <2>1, <2>2, <2>3
<1>5. CASE /\ Linked(f) /\ ~Busy(f) /\ e[f].Id # 0
           /\ e' = [e EXCEPT ![f].rc_count = @ + 1]
           /\ XdiRequest(f, "remove")
  <2>1. e[f].rc_count = 0
    BY <1>5, Fields DEF Busy, Types
  <2>2. ref[f] \in {"none", "idle"}
    BY <1>1, <1>5, <2>1 DEF EntityInv, Known, Live, Types, Ref
  <2>3. ref' \in [Entity -> Ref] /\ ref'[f] = "remove"
    BY <1>5, <2>2 DEF XdiRequest, Types, Ref, Pending
  <2>4. /\ e' \in [Entity -> ENTITY] /\ e'[f].rc_count = 1 /\ e'[f].Id = e[f].Id
        /\ e'[f].rc = e[f].rc /\ e'[f].adapter = e[f].adapter
        /\ e'[f].status = e[f].status
    BY <1>5, <2>1, RemoveRecord
  <2>5. Types'
    BY <1>2, <1>3, <2>3, <2>4 DEF Types
  <2>6. Linked(f)' /\ InTime(f)' = InTime(f)
    BY <1>5, <2>4 DEF Linked, InTime
  <2>7. Owned(f)' /\ OfAdapter(f)'
    BY <1>1, <1>2, <1>3, <1>5, <2>3, <2>4, <2>6 DEF EntityInv, Owned, OfAdapter, Linked
  <2>10. Known(f)'
    BY <1>1, <1>2, <1>3, <1>5, <2>3, <2>4, <2>6 DEF EntityInv, Known, Live
  <2>8. Calling(f)' /\ Leaving(f)' /\ Agrees(f)'
    BY <1>3, <1>5, <2>3, <2>4 DEF Calling, Leaving, Agrees, Pending
  <2>9. QED
    BY <2>5, <2>7, <2>8, <2>10 DEF EntityInv
<1>6. QED
  BY <1>4, <1>5 DEF StartRemove

LEMMA StopKeeps ==
    ASSUME UmIdiAssumption, Types, NEW f \in Entity, EntityInv(f), Stop(f)
    PROVE  Types' /\ EntityInv(f)' /\ (Agrees(f) => Agrees(f)')
<1>1. /\ mem[f] = "live" /\ pc[f] = "stop"
      /\ TimedOut(f) \/ ref[f] = "none" \/ running[f] \/ xdi # "up"
  BY DEF Stop, EntityInv, Owned, OfAdapter, Leaving
<1>2. /\ mem'[f] = mem[f] /\ e'[f] = e[f] /\ ref'[f] = ref[f] /\ pc'[f] = "delete"
      /\ running'[f] = running[f] /\ ~aborted'[f] /\ ~armed'[f] /\ xdi' = xdi
  BY DEF Stop, Set, Types
<1>3. Types'
  BY DEF Stop, Set, Types, Pc
<1>4. EntityInv(f)'
  BY <1>1, <1>2
     DEF EntityInv, Owned, OfAdapter, Known, Calling, Leaving, Live, Linked, InTime, TimedOut
<1>5. Agrees(f) => Agrees(f)'
  BY <1>2 DEF Agrees, Live, Linked, InTime
<1>6. QED
  BY <1>3, <1>4, <1>5

LEMMA DeleteKeeps ==
    ASSUME UmIdiAssumption, Types, NEW f \in Entity, EntityInv(f), Delete(f)
    PROVE  Types' /\ EntityInv(f)' /\ Agrees(f)'
<1>1. New \in ENTITY
  BY DEF New, ENTITY, STATUS, DATA, UmIdiAssumption
<1>2. /\ ref'[f] = ref[f] /\ pc'[f] = "none" /\ xdi' = xdi
      /\ running'[f] = running[f] /\ ~armed'[f]
      /\ ~TimedOut(f) => ~aborted'[f]
      /\ mem'[f] = IF TimedOut(f) THEN "delayed" ELSE "free"
  BY DEF Delete, Set, Types
<1>3. Types'
  <2>1. /\ mem' \in [Entity -> {"free", "live", "delayed"}]
        /\ aborted' \in [Entity -> BOOLEAN] /\ woken' \in [Entity -> BOOLEAN]
    BY DEF Delete, Set, Types
  <2>2. e' \in [Entity -> ENTITY]
    BY <1>1 DEF Delete, Set, Types
  <2>3. QED
    BY <2>1, <2>2 DEF Delete, Set, Types, Pc
<1>4. EntityInv(f)'
  BY <1>2 DEF EntityInv, Owned, OfAdapter, Known, Calling, Leaving, Live
<1>5. Agrees(f)'
  BY <1>2 DEF Agrees, Live
<1>6. QED
  BY <1>3, <1>4, <1>5

LEMMA TimerKeeps ==
    ASSUME UmIdiAssumption, Types, NEW f \in Entity, EntityInv(f), Timer(f)
    PROVE  Types' /\ EntityInv(f)' /\ (Agrees(f) => Agrees(f)')
<1>2. CASE TimerExpires(f)
  <2>1. /\ mem[f] = "live" /\ xdi' = xdi /\ mem'[f] = mem[f] /\ e'[f] = e[f] /\ ref'[f] = ref[f] /\ pc'[f] = pc[f]
        /\ running'[f] /\ aborted'[f] /\ ~armed'[f]
    BY <1>2 DEF TimerExpires, Set, Types, EntityInv, Owned
  <2>2. Types'
    BY <1>2 DEF TimerExpires, Set, Types
  <2>3. EntityInv(f)' /\ (Agrees(f) => Agrees(f)')
    BY <2>1 DEF EntityInv, Owned, OfAdapter, Known, Calling, Leaving, Agrees, Live, Linked,
                      InTime, TimedOut
  <2>4. QED
    BY <2>2, <2>3
<1>3. CASE TimerNotifies(f)
  <2>1. /\ mem'[f] = mem[f] /\ ref'[f] = ref[f] /\ pc'[f] = pc[f] /\ armed'[f] = armed[f]
        /\ running[f] /\ ~running'[f] /\ aborted'[f] = aborted[f] /\ xdi' = xdi
    BY <1>3 DEF TimerNotifies, Set, Types
  <2>2. FlagAdded(f, "TIMEOUT")
    BY <1>3, StatusRecord DEF TimerNotifies, Notified, STATUS
  <2>3. mem[f] = "live" /\ e[f].adapter => "TIMEOUT" \in e'[f].status
    <3>1. mem[f] = "live" /\ e[f].adapter
            => e' = [e EXCEPT ![f].status = @ \cup {"TIMEOUT"}]
      BY <1>3 DEF TimerNotifies, Notified, Queued
    <3>2. mem[f] = "live" /\ e[f].adapter => e'[f] = [e[f] EXCEPT !.status = @ \cup {"TIMEOUT"}]
      BY <3>1 DEF Types
    <3>3. QED
      BY <3>2 DEF Types, ENTITY
  <2>4. Types'
    BY <1>3, <2>2 DEF TimerNotifies, Set, Wake, Types, FlagAdded
  <2>5. /\ Linked(f)' = Linked(f) /\ e'[f].adapter = e[f].adapter
        /\ mem[f] = "live" /\ Linked(f) => ~InTime(f)' /\ TimedOut(f)'
    BY <2>2, <2>3 DEF Linked, FlagAdded, InTime, TimedOut, STATUS
  <2>6. Owned(f)' /\ OfAdapter(f)' /\ Known(f)'
    BY <2>1, <2>2, <2>5 DEF EntityInv, Owned, OfAdapter, Known, Live, FlagAdded
  <2>7. Calling(f)' /\ Leaving(f)'
    BY <2>1, <2>5 DEF EntityInv, Owned, OfAdapter, Calling, Leaving
  <2>8. Agrees(f)'
    BY <2>1, <2>5 DEF EntityInv, Owned, Agrees, Live
  <2>9. QED
    BY <2>4, <2>6, <2>7, <2>8 DEF EntityInv
<1>4. QED
  BY <1>2, <1>3 DEF Timer

LEMMA IndKeeps ==
    ASSUME UmIdiAssumption, Types, NEW f \in Entity, EntityInv(f), Ind(f)
    PROVE  Types' /\ EntityInv(f)' /\ (Agrees(f) => Agrees(f)')
<1> DEFINE x == e[f]
           m == x.data + 1
           n == [x EXCEPT !.data = m]
<1>1. x \in ENTITY /\ m \in DATA
  BY Fields DEF Types, Ind, DATA, UmIdiAssumption
<1>2. e' = [e EXCEPT ![f] = n]
  BY DEF Ind
<1> HIDE DEF x, m
<1>3. /\ n \in ENTITY /\ n.rc_count = x.rc_count /\ n.Id = x.Id /\ n.rc = x.rc
      /\ n.adapter = x.adapter /\ n.status = x.status
  BY <1>1 DEF ENTITY
<1> HIDE DEF n
<1>4. e'[f] = n /\ e' \in [Entity -> ENTITY]
  BY <1>2, <1>3, NewRecord
<1>5. /\ mem' = mem /\ ref' = ref /\ pc' = pc /\ armed' = armed
      /\ running' = running /\ aborted' = aborted /\ woken' = woken /\ xdi' = xdi
  BY DEF Ind, osVars
<1>6. Types'
  BY <1>4, <1>5 DEF Types
<1>7. EntityInv(f)' /\ (Agrees(f) => Agrees(f)')
  BY <1>3, <1>4, <1>5 DEF x, EntityInv, Owned, OfAdapter, Known, Calling, Leaving, Agrees, Live,
                          Linked, InTime, TimedOut
<1>8. QED
  BY <1>6, <1>7

LEMMA RcRecord ==
    ASSUME NEW f \in Entity, e[f] \in ENTITY, NEW id \in {0, 1}
    PROVE  LET n == AfterRc(f, id)
           IN  /\ n \in ENTITY /\ n.Id = NewId(f, id) /\ n.adapter = e[f].adapter
               /\ n.rc_count = IF ref[f] = "remove" THEN 0 ELSE CountDown(f)
               /\ n.rc = IF e[f].rc = 2 THEN 2 ELSE e[f].rc + 1
               /\ \A s \in {"TIMEOUT", "REMOVED"} : s \in n.status <=> s \in e[f].status
               /\ "RC_PENDING" \in e[f].status /\ e[f].rc # 2
                    => "RC_PENDING" \in n.status
<1> DEFINE x == e[f]
           n == AfterRc(f, id)
           i == NewId(f, id)
           s == x.status \ ({"ASSIGN_PENDING"} \cup
                              IF x.rc = 2 THEN {"RC_PENDING"} ELSE {})
           c == IF ref[f] = "remove" THEN 0 ELSE CountDown(f)
           d == IF x.rc = 2 THEN 2 ELSE x.rc + 1
<1>1. /\ s \in SUBSET STATUS
      /\ \A st \in {"TIMEOUT", "REMOVED"} : st \in s <=> st \in x.status
      /\ "RC_PENDING" \in x.status /\ x.rc # 2 => "RC_PENDING" \in s
  BY Fields
<1>2. i \in {0, 1} /\ c \in 0..1 /\ d \in 0..2 /\ x \in ENTITY
  BY Fields DEF NewId, CountDown
<1>3. n = [x EXCEPT !.Id = i, !.status = s, !.rc_count = c, !.rc = d]
  BY DEF AfterRc
<1> HIDE DEF x, n, i, s, c, d
<1>4. s \in SUBSET STATUS
  BY <1>1
<1>5. /\ n \in ENTITY /\ n.Id = i /\ n.rc_count = c /\ n.status = s
      /\ n.rc = d /\ n.adapter = x.adapter
  BY <1>4, <1>2, <1>3 DEF ENTITY
<1>6. QED
  BY <1>1, <1>5 DEF x, n, i, c, d

LEMMA RcTimedOutRecord ==
    ASSUME Types, NEW f \in Entity, NEW id \in {0, 1},
           e' = [e EXCEPT ![f].Id = NewId(f, id)]
    PROVE  /\ e' \in [Entity -> ENTITY]
           /\ e'[f].Id = NewId(f, id)
           /\ e'[f].rc_count = e[f].rc_count /\ e'[f].adapter = e[f].adapter
           /\ e'[f].status = e[f].status
<1> DEFINE x == e[f]
           i == NewId(f, id)
           n == [x EXCEPT !.Id = i]
<1>1. x \in ENTITY /\ i \in {0, 1}
  BY Fields DEF Types, NewId
<1>2. e' = [e EXCEPT ![f] = n]
  BY Zenon
<1> HIDE DEF x, i
<1>3. /\ n \in ENTITY /\ n.rc_count = x.rc_count /\ n.Id = i /\ n.adapter = x.adapter
      /\ n.status = x.status
  BY <1>1 DEF ENTITY
<1> HIDE DEF n
<1>4. e'[f] = n /\ e' \in [Entity -> ENTITY]
  BY <1>2, <1>3, NewRecord
<1>5. QED
  BY <1>3, <1>4 DEF x, i

LEMMA RcKeeps ==
    ASSUME UmIdiAssumption, Types, NEW f \in Entity, EntityInv(f), Rc(f)
    PROVE  Types' /\ EntityInv(f)' /\ (Agrees(f) => Agrees(f)')
<1>1. /\ ref[f] \in Pending /\ mem' = mem /\ running' = running /\ aborted' = aborted
      /\ pc' = pc /\ xdi' = xdi
  BY DEF Rc
<1>2. PICK id \in {0, 1} :
        /\ (ref[f] = "data" => id = 1) /\ (ref[f] = "remove" => id = 0)
        /\ Set(ref, f, IF id = 0 THEN "none" ELSE "idle")
        /\ RcCallback(f, id)
  BY DEF Rc
<1>3. /\ ref' \in [Entity -> Ref] /\ ref'[f] = IF id = 0 THEN "none" ELSE "idle"
      /\ armed' \in [Entity -> BOOLEAN] /\ woken' \in [Entity -> BOOLEAN]
      /\ armed'[f] => armed[f]
  BY <1>2 DEF RcCallback, Set, Wake, Types, Ref
<1>4. e[f] \in ENTITY
  BY DEF Types
<1>5. ref[f] # "none" /\ xdi # "off" /\ (xdi = "up" /\ mem[f] = "live" => Linked(f))
  BY <1>1 DEF EntityInv, OfAdapter, Pending
<1>6. mem[f] = "live" /\ Linked(f) => /\ e[f].Id # 0 /\ e[f].rc_count = 1
                                      /\ pc[f] # "none"
  BY <1>1, <1>5 DEF EntityInv, Owned, Known, Live
<1>7. CASE mem[f] = "free"
  <2>1. e' = e /\ armed' = armed /\ woken' = woken
    BY <1>2, <1>7 DEF RcCallback
  <2>2. Types'
    BY <1>1, <1>3, <2>1 DEF Types
  <2>3. EntityInv(f)' /\ Agrees(f)'
    BY <1>1, <1>3, <1>5, <1>7, <2>1
       DEF EntityInv, Owned, OfAdapter, Known, Calling, Leaving, Agrees, Live, Linked
  <2>4. QED
    BY <2>2, <2>3
<1>8. CASE mem[f] # "free" /\ "TIMEOUT" \in e[f].status
  <2>1. /\ e' \in [Entity -> ENTITY]
        /\ e'[f].Id = NewId(f, id)
        /\ e'[f].rc_count = e[f].rc_count /\ e'[f].adapter = e[f].adapter
        /\ e'[f].status = e[f].status
    BY <1>2, <1>8, RcTimedOutRecord DEF RcCallback
  <2>2. Types'
    BY <1>1, <1>3, <2>1 DEF Types
  <2>3. ~InTime(f)' /\ Linked(f)' = Linked(f) /\ TimedOut(f)' = TimedOut(f)
    BY <1>8, <2>1 DEF InTime, Linked, TimedOut
  <2>4. Owned(f)' /\ OfAdapter(f)'
    BY <1>1, <1>3, <1>5, <2>1, <2>3 DEF EntityInv, Owned, OfAdapter
  <2>5. Known(f)'
    BY <1>1, <1>2, <1>3, <1>6, <2>1, <2>3 DEF Known, Live, Pending, NewId
  <2>6. Calling(f)' /\ Leaving(f)' /\ Agrees(f)'
    BY <1>1, <1>3, <1>5, <1>8, <2>3 DEF EntityInv, Calling, Leaving, Agrees, InTime
  <2>7. QED
    BY <2>2, <2>4, <2>5, <2>6 DEF EntityInv
<1>9. CASE mem[f] # "free" /\ InTime(f)
  <2> DEFINE n == AfterRc(f, id)
  <2>1. /\ n \in ENTITY /\ n.Id = NewId(f, id) /\ n.adapter = e[f].adapter
        /\ n.rc_count = IF ref[f] = "remove" THEN 0 ELSE CountDown(f)
        /\ n.rc = IF e[f].rc = 2 THEN 2 ELSE e[f].rc + 1
        /\ \A s \in {"TIMEOUT", "REMOVED"} : s \in n.status <=> s \in e[f].status
        /\ "RC_PENDING" \in e[f].status /\ e[f].rc # 2 => "RC_PENDING" \in n.status
    BY <1>4, RcRecord
  <2>2. e' = [e EXCEPT ![f] = n]
    BY <1>2, <1>9 DEF RcCallback, InTime, Set
  <2> HIDE DEF n
  <2>3. e'[f] = n /\ e' \in [Entity -> ENTITY]
    BY <2>1, <2>2, NewRecord
  <2>4. Types'
    BY <1>1, <1>3, <2>3 DEF Types
  <2>5. InTime(f)' /\ Linked(f)' = Linked(f) /\ TimedOut(f)' = TimedOut(f)
    BY <1>9, <2>1, <2>3 DEF InTime, Linked, TimedOut
  <2>6. Owned(f)' /\ OfAdapter(f)'
    BY <1>1, <1>3, <1>5, <2>1, <2>3, <2>5 DEF EntityInv, Owned, OfAdapter
  <2>7. mem[f] = "live" /\ Linked(f) =>
          /\ n.rc_count = 0
          /\ n.Id = IF ref[f] = "data" THEN e[f].Id ELSE id
    BY <1>6, <2>1 DEF CountDown, NewId
  <2>8. Known(f)'
    BY <1>1, <1>2, <1>3, <1>6, <1>9, <2>3, <2>5, <2>7 DEF EntityInv, Known, Live, Pending
  <2>9. pc[f] = "open" /\ Linked(f) => n.rc = 1 /\ "RC_PENDING" \in n.status
    <3>1. pc[f] = "open" /\ Linked(f) =>
            /\ mem[f] = "live" /\ e[f].rc_count = 1
            /\ e[f].rc <= 1 /\ (e[f].rc > 0 => e[f].rc_count = 0)
            /\ ("RC_PENDING" \notin e[f].status => e[f].rc_count = 0)
      BY <1>6, <1>9 DEF EntityInv, Owned, Calling
    <3>2. pc[f] = "open" /\ Linked(f) => e[f].rc = 0 /\ "RC_PENDING" \in e[f].status
      BY <1>4, <3>1, Fields
    <3>3. QED
      BY <2>1, <3>2
  <2>10. Calling(f)'
    BY <1>1, <2>3, <2>5, <2>7, <2>9 DEF EntityInv, Owned, Calling
  <2>11. Leaving(f)'
    BY <1>1, <1>3, <1>5, <2>5 DEF EntityInv, Leaving
  <2>12. Agrees(f)'
    BY <1>1, <1>2, <1>3, <1>6, <2>3, <2>5, <2>7, <2>9 DEF Agrees, Live, Pending
  <2>13. QED
    BY <2>4, <2>6, <2>8, <2>10, <2>11, <2>12 DEF EntityInv
<1>10. QED
  BY <1>7, <1>8, <1>9 DEF InTime

-----------------------------------------------------------------------------
(* The adapter goes: it takes every live entity out of the queues          *)

LEMMA RemovedRecord ==
    ASSUME NEW x \in ENTITY
    PROVE  LET n == [x EXCEPT !.adapter = FALSE, !.Id = 0, !.rc_count = 0,
                              !.status = {"REMOVED", "REMOVE_PENDING"}]
           IN  n \in ENTITY /\ ~n.adapter
<1> DEFINE s == {"REMOVED", "REMOVE_PENDING"}
           z == 0
           n == [x EXCEPT !.adapter = FALSE, !.Id = z, !.rc_count = z, !.status = s]
<1>1. s \in SUBSET STATUS /\ z \in {0, 1} /\ z \in 0..1
  BY DEF STATUS
<1> HIDE DEF s, z
<1>2. n \in ENTITY /\ n.adapter = FALSE
  BY <1>1 DEF ENTITY
<1>3. QED
  BY <1>2 DEF s, z

LEMMA RemoveAdapterKeeps ==
    ASSUME UmIdiAssumption, Types, RemoveAdapter
    PROVE  /\ Types'
           /\ \A f \in Entity : EntityInv(f) => EntityInv(f)' /\ Agrees(f)'
<1> DEFINE n(f) == [e[f] EXCEPT !.adapter = FALSE, !.Id = 0, !.rc_count = 0,
                                !.status = {"REMOVED", "REMOVE_PENDING"}]
<1>1. \A f \in Entity : n(f) \in ENTITY /\ ~n(f).adapter
  BY RemovedRecord DEF Types
<1>2. e' = [f \in Entity |-> IF Queued(f) THEN n(f)
                             ELSE IF mem[f] = "delayed" THEN New ELSE e[f]]
  BY DEF RemoveAdapter
<1> HIDE DEF n
<1>3. New \in ENTITY
  BY DEF New, ENTITY, STATUS, DATA, UmIdiAssumption
<1>4. /\ e' \in [Entity -> ENTITY]
      /\ \A f \in Entity : mem[f] = "live" => ~e'[f].adapter
  BY <1>1, <1>2, <1>3 DEF Types, Queued, ENTITY
<1>5. PICK queued \in SUBSET {f \in Entity : ref[f] \in {"data", "remove"}} :
        ref' = [f \in Entity |-> IF f \in queued THEN "assign" ELSE ref[f]]
  BY DEF RemoveAdapter
<1>6. Types'
  BY <1>4, <1>5 DEF RemoveAdapter, Types, Ref, Pending, Xdi
<1>7. ASSUME NEW f \in Entity, EntityInv(f)
      PROVE  EntityInv(f)' /\ Agrees(f)'
  <2>1. /\ xdi' = "leaving" /\ pc'[f] = pc[f] /\ armed'[f] = armed[f]
        /\ running'[f] = running[f]
        /\ mem'[f] = IF mem[f] = "delayed" THEN "free" ELSE mem[f]
        /\ IF mem[f] = "live" THEN aborted'[f] = aborted[f] ELSE ~aborted'[f]
    BY DEF RemoveAdapter, Types
  <2>2. ref'[f] \in {ref[f], "assign"}
    BY <1>5
  <2>3. mem'[f] = "live" => ~Linked(f)' /\ ~e'[f].adapter
    BY <1>4, <2>1 DEF Linked
  <2>4. Owned(f)' /\ OfAdapter(f)' /\ Known(f)'
    BY <1>7, <2>1, <2>2, <2>3 DEF EntityInv, Owned, OfAdapter, Known, Live
  <2>5. Calling(f)' /\ Leaving(f)' /\ Agrees(f)'
    BY <1>7, <2>1, <2>3 DEF EntityInv, Owned, Calling, Leaving, Agrees, Live
  <2>6. QED
    BY <2>4, <2>5 DEF EntityInv
<1>8. QED
  BY <1>6, <1>7

\* The steps of the XDI after that, and a new adapter: no live entity is linked.
LEMMA XdiKeeps ==
    ASSUME UmIdiAssumption, Types, ClearIds \/ StopXdi \/ CreateAdapter
    PROVE  /\ Types' /\ mem' = mem /\ nr_delayed' = nr_delayed
           /\ \A f \in Entity : EntityInv(f) => EntityInv(f)' /\ Agrees(f)'
<1>1. /\ mem' = mem /\ nr_delayed' = nr_delayed /\ e' = e /\ pc' = pc
      /\ armed' = armed /\ running' = running /\ aborted' = aborted /\ woken' = woken
      /\ xdi # "up" /\ xdi' \in Xdi
  BY DEF ClearIds, StopXdi, CreateAdapter, osVars, Xdi
<1>2. /\ ref' \in [Entity -> Ref]
      /\ \A f \in Entity : ref'[f] \in {ref[f], "none"}
      /\ xdi' \in {"up", "off"} =>
            \A f \in Entity : ref'[f] = "none" \/ (ref'[f] = ref[f] /\ xdi = "off")
  <2>1. CASE ClearIds
    BY <2>1 DEF ClearIds, Types, Ref
  <2>2. CASE StopXdi
    BY <2>2 DEF StopXdi, Types, Ref
  <2>3. CASE CreateAdapter
    BY <2>3 DEF CreateAdapter, Types
  <2>4. QED
    BY <2>1, <2>2, <2>3
<1>3. Types'
  BY <1>1, <1>2 DEF Types
<1>4. ASSUME NEW f \in Entity, EntityInv(f)
      PROVE  EntityInv(f)' /\ Agrees(f)'
  <2>1. mem[f] = "live" => ~e[f].adapter /\ ~Linked(f) /\ ~Linked(f)'
    BY <1>1, <1>4 DEF EntityInv, OfAdapter, Linked
  <2>2. xdi' \in {"up", "off"} => ref'[f] = "none"
    BY <1>2, <1>4 DEF EntityInv, OfAdapter
  <2>3. Owned(f)' /\ OfAdapter(f)' /\ Known(f)'
    BY <1>1, <1>2, <1>4, <2>1, <2>2 DEF EntityInv, Owned, OfAdapter, Known, Live
  <2>4. Calling(f)' /\ Leaving(f)' /\ Agrees(f)'
    BY <1>1, <1>4, <2>1, <2>2 DEF EntityInv, Owned, Calling, Leaving, Agrees, Live
  <2>5. QED
    BY <2>3, <2>4 DEF EntityInv
<1>5. QED
  BY <1>1, <1>3, <1>4

-----------------------------------------------------------------------------
(* A write finds room in the XDI when it has room for all entities         *)

LEMMA Room ==
    ASSUME UmIdiAssumption, Cardinality(Entity) <= Slots, NEW f \in Entity, ref[f] = "none"
    PROVE  InUse < Slots
<1> DEFINE S == {g \in Entity : ref[g] # "none"}
<1>1. IsFiniteSet(Entity \ {f}) /\ Cardinality(Entity \ {f}) = Cardinality(Entity) - 1
  BY FS_RemoveElement DEF UmIdiAssumption
<1>2. S \subseteq Entity \ {f}
  OBVIOUS
<1> HIDE DEF S
<1>3. Cardinality(S) <= Cardinality(Entity \ {f}) /\ IsFiniteSet(S)
  BY <1>1, <1>2, FS_Subset
<1>4. Cardinality(S) \in Nat /\ Cardinality(Entity) \in Nat
  BY <1>3, FS_CardinalityType DEF UmIdiAssumption
<1>5. Cardinality(S) < Slots
  BY <1>1, <1>3, <1>4 DEF UmIdiAssumption
<1>6. QED
  BY <1>5 DEF S, InUse

LEMMA WriteAgrees ==
    ASSUME UmIdiAssumption, Cardinality(Entity) <= Slots, Types, NEW f \in Entity,
           EntityInv(f), NEW Req \in Pending, Write(f, Req), Agrees(f)
    PROVE  Agrees(f)'
<1>1. /\ pc[f] = "open" /\ ~aborted[f] /\ Linked(f) /\ "RC_PENDING" \notin e[f].status
      /\ (Req = "assign" <=> e[f].Id = 0)
  BY DEF Write, MayWrite, Linked
<1>2. InTime(f) /\ mem[f] = "live"
  BY <1>1 DEF EntityInv, Calling, Owned, OfAdapter
<1>3. e[f].rc_count = 0 /\ ref[f] \in {"none", "idle"}
  BY <1>1, <1>2 DEF EntityInv, Calling, Known, Live, Types, Ref
<1>4. Req = "assign" => ref[f] = "none"
  BY <1>1, <1>2 DEF EntityInv, Known, Live
<1>5. ref' = [ref EXCEPT ![f] = Req]
  <2>1. CASE Req = "assign"
    <3>1. ~(InUse >= Slots)
      <4>1. InUse < Slots
        BY <1>4, <2>1, Room
      <4>2. InUse \in Nat
        BY FS_Subset, FS_CardinalityType DEF InUse, UmIdiAssumption
      <4>3. QED
        BY <4>1, <4>2 DEF UmIdiAssumption
    <3>2. QED
      BY <1>3, <3>1 DEF Write, XdiRequest, Types
  <2>2. CASE Req # "assign"
    BY <1>3, <2>2 DEF Write, XdiRequest, Types
  <2>3. QED
    BY <2>1, <2>2
<1>6. ref'[f] \in Pending /\ ref'[f] # "none"
  BY <1>5 DEF Types, Pending
<1>7. QED
  BY <1>6 DEF Agrees

-----------------------------------------------------------------------------
(* The step of the whole system                                            *)

LEMMA OneKeeps ==
    ASSUME UmIdiAssumption, Types, NEW f \in Entity, EntityInv(f), OfOne(f)
    PROVE  Types' /\ EntityInv(f)'
BY OpenKeeps, WriteKeeps, ReadKeeps, ReleaseKeeps, StartRemoveKeeps, AssignedKeeps,
   StopKeeps, DeleteKeeps, TimerKeeps, RcKeeps, IndKeeps DEF OfOne, Releasing

LEMMA OneAgrees ==
    ASSUME UmIdiAssumption, Cardinality(Entity) <= Slots, Types, NEW f \in Entity,
           EntityInv(f), OfOne(f), Agrees(f)
    PROVE  Agrees(f)'
<1>1. CASE \E Req \in Pending : Write(f, Req)
  BY <1>1, WriteAgrees
<1>2. QED
  BY <1>1, OpenKeeps, ReadKeeps, ReleaseKeeps, StartRemoveKeeps, AssignedKeeps,
     StopKeeps, DeleteKeeps, TimerKeeps, RcKeeps, IndKeeps DEF OfOne, Releasing

\* Entities come into the queue of the delayed ones in a release only, and
\* leave it with the adapter.
LEMMA CountKeeps ==
    ASSUME UmIdiAssumption, Types, DelayedCounted, \A f \in Entity : EntityInv(f), Next
    PROVE  DelayedCounted'
<1>1. IsFiniteSet(Delayed)
  BY FS_Subset DEF Delayed, UmIdiAssumption
<1>2. CASE RemoveAdapter
  <2>1. Delayed' = {}
    BY <1>2 DEF RemoveAdapter, Delayed, Types
  <2>2. QED
    BY <1>2, <2>1, FS_EmptySet DEF DelayedCounted, RemoveAdapter
<1>3. ASSUME NEW f \in Entity, Delete(f)
      PROVE  DelayedCounted'
  <2>1. mem[f] = "live"
    BY <1>3 DEF EntityInv, Owned, OfAdapter, Delete
  <2>2. CASE TimedOut(f)
    <3>1. Delayed' = Delayed \cup {f} /\ f \notin Delayed /\ nr_delayed' = nr_delayed + 1
      BY <1>3, <2>1, <2>2 DEF Delete, Set, Delayed, Types
    <3>2. QED
      BY <1>1, <3>1, FS_AddElement DEF DelayedCounted
  <2>3. CASE ~TimedOut(f)
    <3>1. Delayed' = Delayed /\ nr_delayed' = nr_delayed
      BY <1>3, <2>1, <2>3 DEF Delete, Set, Delayed, Types
    <3>2. QED
      BY <3>1 DEF DelayedCounted
  <2>4. QED
    BY <2>2, <2>3
<1>4. ASSUME NEW f \in Entity, Open(f)
      PROVE  DelayedCounted'
  <2>1. Delayed' = Delayed /\ nr_delayed' = nr_delayed
    BY <1>4 DEF Open, Set, Delayed, Types
  <2>2. QED
    BY <2>1 DEF DelayedCounted
<1>5. CASE mem' = mem /\ nr_delayed' = nr_delayed
  BY <1>5 DEF DelayedCounted, Delayed
<1>6. ASSUME NEW f \in Entity, OfOne(f), ~Open(f), ~Delete(f)
      PROVE  mem' = mem /\ nr_delayed' = nr_delayed
  BY <1>6 DEF OfOne, Write, Read, Release, Releasing, Timer, Rc, Ind, StartRemove,
              Assigned, Stop, TimerExpires, TimerNotifies
<1>7. ClearIds \/ StopXdi \/ CreateAdapter => mem' = mem /\ nr_delayed' = nr_delayed
  BY DEF ClearIds, StopXdi, CreateAdapter
<1>8. \/ \E f \in Entity : OfOne(f)
      \/ RemoveAdapter \/ ClearIds \/ StopXdi \/ CreateAdapter
  BY DEF Next, OfOne
<1>9. QED
  BY <1>2, <1>3, <1>4, <1>5, <1>6, <1>7, <1>8

LEMMA Step ==
    ASSUME UmIdiAssumption, IInv, [Next]_vars
    PROVE  IInv'
<1> USE DEF IInv
<1>1. CASE UNCHANGED vars
  BY <1>1 DEF vars, Types, DelayedCounted, Delayed, EntityInv, Owned, OfAdapter, Known, Calling,
              Leaving, Live, Linked, InTime, TimedOut
<1>2. ASSUME NEW f \in Entity, OfOne(f)
      PROVE  Types' /\ \A g \in Entity : EntityInv(g)'
  BY <1>2, OneKeeps, OthersSame, SameKeeps
<1>3. CASE RemoveAdapter
  BY <1>3, RemoveAdapterKeeps, CountKeeps DEF Next
<1>4. CASE ClearIds \/ StopXdi \/ CreateAdapter
  BY <1>4, XdiKeeps, CountKeeps DEF Next
<1>5. ASSUME NEW f \in Entity, OfOne(f)
      PROVE  IInv'
  <2>1. Next
    BY <1>5 DEF Next, OfOne
  <2>2. QED
    BY <1>2, <1>5, <2>1, CountKeeps
<1>6. QED
  BY <1>1, <1>3, <1>4, <1>5 DEF Next, OfOne

AllAgree == \A f \in Entity : Agrees(f)

LEMMA AgreeStep ==
    ASSUME UmIdiAssumption, Cardinality(Entity) <= Slots, IInv, AllAgree, [Next]_vars
    PROVE  AllAgree'
<1> USE DEF IInv, AllAgree
<1>1. CASE UNCHANGED vars
  BY <1>1 DEF vars, Agrees, Live, Linked, InTime
<1>2. ASSUME NEW f \in Entity, OfOne(f)
      PROVE  AllAgree'
  BY <1>2, OneAgrees, OthersSame, SameKeeps
<1>3. CASE RemoveAdapter
  BY <1>3, RemoveAdapterKeeps
<1>4. CASE ClearIds \/ StopXdi \/ CreateAdapter
  BY <1>4, XdiKeeps
<1>5. QED
  BY <1>1, <1>2, <1>3, <1>4 DEF Next, OfOne

LEMMA Start == ASSUME UmIdiAssumption, Init PROVE IInv /\ AllAgree
<1>1. New \in ENTITY
  BY DEF New, ENTITY, STATUS, DATA, UmIdiAssumption
<1>2. Types
  BY <1>1 DEF Init, Types, Ref, Pc, Xdi
<1>3. Delayed = {}
  BY DEF Init, Delayed
<1>4. DelayedCounted
  BY <1>3, FS_EmptySet DEF Init, DelayedCounted
<1>5. \A f \in Entity : EntityInv(f) /\ Agrees(f)
  BY DEF Init, EntityInv, Owned, OfAdapter, Known, Calling, Leaving, Agrees, Live
<1>6. QED
  BY <1>2, <1>4, <1>5 DEF IInv, AllAgree

LEMMA Invariance == Spec => []IInv
  BY UmIdiAssumption, Start, Step, PTL DEF Spec

LEMMA AgreeInvariance ==
    ASSUME Cardinality(Entity) <= Slots PROVE Spec => []AllAgree
<1>1. Init => AllAgree
  BY UmIdiAssumption, Start
<1>2. IInv /\ AllAgree /\ [Next]_vars => AllAgree'
  BY UmIdiAssumption, AgreeStep
<1>3. QED
  BY <1>1, <1>2, Invariance, PTL DEF Spec

-----------------------------------------------------------------------------
(* The theorems                                                            *)

\* Entities keep their form, and no more of them wait to be freed than there
\* are (um_idi.c:819-841).
THEOREM TypeCorrect == Spec => []TypeOK
<1>1. IInv => TypeOK
  <2>1. SUFFICES ASSUME IInv PROVE TypeOK
    OBVIOUS
  <2>2. IsFiniteSet(Delayed) /\ Cardinality(Delayed) <= Cardinality(Entity)
    BY UmIdiAssumption, FS_Subset DEF Delayed, UmIdiAssumption
  <2>3. nr_delayed \in 0..Cardinality(Entity)
    BY <2>1, <2>2, UmIdiAssumption, FS_CardinalityType
       DEF IInv, DelayedCounted, UmIdiAssumption
  <2>4. QED
    BY <2>1, <2>3 DEF IInv, Types, TypeOK, ENTITY, STATUS, DATA
<1>2. QED
  BY <1>1, Invariance, PTL

\* The step that frees the memory of an entity, and the one that gives an entity
\* to the XDI.
LEMMA Frees ==
    ASSUME UmIdiAssumption, IInv, Next, NEW f \in Entity,
           mem[f] # "free", mem'[f] = "free", ref'[f] # "none"
    PROVE  xdi' # "up" \/ running[f]
<1>1. CASE RemoveAdapter
  BY <1>1 DEF RemoveAdapter
<1>2. CASE ClearIds \/ StopXdi \/ CreateAdapter
  BY <1>2, XdiKeeps DEF IInv
<1>3. ASSUME NEW g \in Entity, OfOne(g)
      PROVE  xdi' # "up" \/ running[f]
  <2>1. f = g
    BY <1>3, OthersSame DEF IInv, Same
  <2>2. Open(f) => mem'[f] = "live"
    BY DEF Open, Set, IInv, Types
  <2>3. Delete(f)
    BY <1>3, <2>1, <2>2 DEF OfOne, Write, Read, Release, Releasing, Timer, Rc, Ind,
                            StartRemove, Assigned, Stop, TimerExpires, TimerNotifies
  <2>4. pc[f] = "delete" /\ ~TimedOut(f) /\ ref'[f] = ref[f] /\ xdi' = xdi
    BY <2>3 DEF Delete, Set, IInv, Types
  <2>5. QED
    BY <2>4 DEF IInv, EntityInv, Leaving
<1>4. QED
  BY <1>1, <1>2, <1>3 DEF Next, OfOne

LEMMA Gives ==
    ASSUME UmIdiAssumption, IInv, Next, NEW f \in Entity, ref[f] = "none", ref'[f] # "none"
    PROVE  mem'[f] = "live"
<1>1. CASE RemoveAdapter
  BY <1>1 DEF RemoveAdapter
<1>2. CASE ClearIds \/ StopXdi \/ CreateAdapter
  BY <1>2 DEF ClearIds, StopXdi, CreateAdapter
<1>3. ASSUME NEW g \in Entity, OfOne(g)
      PROVE  mem'[f] = "live"
  <2>1. f = g
    BY <1>3, OthersSame DEF IInv, Same
  <2>2. (\E Req \in Pending : Write(f, Req)) \/ StartRemove(f)
    BY <1>3, <2>1 DEF OfOne, Open, Read, Release, Releasing, Timer, Rc, Ind, Assigned,
                      Stop, Delete, TimerExpires, TimerNotifies, Pending
  <2>3. mem' = mem /\ pc[f] # "none"
    BY <2>2 DEF Write, MayWrite, StartRemove
  <2>4. QED
    BY <2>3 DEF IInv, EntityInv, Owned
<1>4. QED
  BY <1>1, <1>2, <1>3 DEF Next, OfOne

\* However releases, return codes, the watchdog and the removal of the adapter
\* interleave, memory that the XDI uses is freed in two cases only: the adapter
\* is being removed, or the release got between the parts of the timer function
\* (divasi.c:621-717, um_idi.c:819-841).
THEOREM NoDanglingSafe == Spec => NoDangling
<1> DEFINE Kept == \A f \in Entity :
                     /\ mem[f] # "free" /\ mem'[f] = "free" /\ ref'[f] # "none"
                        => xdi' # "up" \/ running[f]
                     /\ ref[f] = "none" /\ ref'[f] # "none" => mem'[f] = "live"
<1>1. IInv /\ [Next]_vars => [Kept]_vars
  BY UmIdiAssumption, Frees, Gives
<1>2. QED
  BY <1>1, Invariance, PTL DEF Spec, NoDangling

\* Neither a process nor the end of its release sends a request to a busy
\* entity, also when an ASSIGN was dropped (um_idi.c:1194, io.c:550-563).
THEOREM NoTrapSafe == Spec => []NoTrap
<1>1. IInv => NoTrap
  BY DEF IInv, EntityInv, Known, NoTrap
<1>2. QED
  BY <1>1, Invariance, PTL

\* When the XDI has room for every entity, the flags, the count and the Id of
\* each tell the truth about the request it has (um_idi.c:1194, 2673, 3084-3116).
THEOREM RequestsAgreeSafe ==
    ASSUME Cardinality(Entity) <= Slots PROVE Spec => []RequestsAgree
<1>1. IInv /\ AllAgree => XdiAgrees
  <2>1. SUFFICES ASSUME IInv, AllAgree, NEW f \in Entity, Live(f), InTime(f)
                 PROVE  /\ e[f].rc_count = IF ref[f] \in Pending THEN 1 ELSE 0
                        /\ (e[f].Id = 0) <=> (ref[f] = "none")
    BY DEF XdiAgrees, Live, InTime
  <2>2. QED
    BY <2>1 DEF IInv, AllAgree, EntityInv, Known, Agrees
<1>2. IInv /\ AllAgree => RcWillCome
  BY DEF IInv, AllAgree, Agrees, RcWillCome, InTime
<1>3. QED
  BY <1>1, <1>2, Invariance, AgreeInvariance, TypeCorrect, NoTrapSafe, PTL
     DEF RequestsAgree
=============================================================================
