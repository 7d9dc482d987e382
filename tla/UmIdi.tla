-------------------------------- MODULE UmIdi -------------------------------
(***************************************************************************)
(* The IDI for user processes (kernel/um_idi.c) and its device             *)
(* (kernel/divasi.c): management entities of one adapter, each opened,     *)
(* written to, read from and released by a process, with the callbacks of  *)
(* the XDI, the watchdog of ten seconds and the removal of the adapter,    *)
(* which the XDI outlives (os_pri.c:557-589), against it.  What takes      *)
(* adapter_lock is one action.                                             *)
(***************************************************************************)
EXTENDS Integers, FiniteSets

CONSTANTS
    Entity,         \* memory for entities
    Slots,          \* entities the XDI has room for
    MaxData,        \* segments of the queue of indications
    MaxTimeouts     \* DIVA_UM_IDI_MAX_TIMEOUTS

ASSUME UmIdiAssumption ==
    /\ IsFiniteSet(Entity)
    /\ Slots \in Nat /\ MaxData \in Nat \ {0} /\ MaxTimeouts \in Nat

VARIABLES
    xdi,            \* the adapter, see below
    nr_delayed,     \* nr_delayed_cleanup_entities
    mem,            \* of an entity: "free", "live", or "delayed" in its queue
    e,              \* divas_um_idi_entity_t
    ref,            \* what the XDI has of it, see below
    armed,          \* diva_timer_id is pending
    running,        \* its function has set aborted, and waits for the lock
    aborted,
    woken,          \* close_wait was woken
    pc              \* of the process, see below

vars == <<xdi, nr_delayed, mem, e, ref, armed, running, aborted, woken, pc>>
osVars == <<armed, running, aborted, woken>>

\* The XDI knows nothing of the entity; it has a request queued; or it has the
\* entity in its table and waits for the next request; or has trapped, because
\* of a request to a busy entity.
Pending == {"assign", "data", "remove"}
Ref == {"none", "idle", "trap"} \cup Pending

\* The adapter is in adapter_q; has been taken out of it; its Ids are cleared;
\* its interrupts and soft ISRs are stopped.
Xdi == {"up", "leaving", "cleared", "off"}

\* The process has no file; may call; is in the first or the second loop of
\* remove_entity, at its end, and before divas_um_idi_delete_entity.
Pc == {"none", "open", "busy", "assigned", "stop", "delete"}

\* What it asked for last, Req, is in ref.
New == [status |-> {}, Id |-> 0, rc_count |-> 0, rc |-> 0, data |-> 0,
        adapter |-> TRUE]

Init ==
    /\ xdi = "up" /\ nr_delayed = 0
    /\ mem = [f \in Entity |-> "free"]
    /\ e = [f \in Entity |-> New]
    /\ ref = [f \in Entity |-> "none"]
    /\ armed = [f \in Entity |-> FALSE] /\ running = [f \in Entity |-> FALSE]
    /\ aborted = [f \in Entity |-> FALSE] /\ woken = [f \in Entity |-> FALSE]
    /\ pc = [f \in Entity |-> "none"]

Set(v, f, val) == v' = [v EXCEPT ![f] = val]

-----------------------------------------------------------------------------
(* open, write, read *)

\* The first write selects the adapter: divas_um_idi_create_entity.  Memory that
\* was freed too early is not followed into a new owner.
Open(f) ==
    /\ pc[f] = "none" /\ mem[f] = "free" /\ ~running[f] /\ ref[f] = "none"
    /\ xdi = "up" /\ nr_delayed <= MaxTimeouts
    /\ Set(mem, f, "live") /\ Set(e, f, New) /\ Set(pc, f, "open")
    /\ UNCHANGED <<xdi, nr_delayed, ref, osVars>>

\* request() of the XDI: without room an ASSIGN is dropped, and Rc stays.
InUse == Cardinality({g \in Entity : ref[g] # "none"})
XdiRequest(f, Req) ==
    ref' = IF Req = "assign" /\ InUse >= Slots THEN ref
           ELSE [ref EXCEPT ![f] = IF @ \in {"none", "idle"} THEN Req ELSE "trap"]

\* Mutant: the process may write while it waits for a return code.
MayWriteAny(f) == pc[f] = "open" /\ ~aborted[f] /\ e[f].adapter

MayWrite(f) ==
    /\ pc[f] = "open" /\ ~aborted[f] /\ e[f].adapter
    /\ e[f].status \cap {"RC_PENDING", "REMOVE_PENDING", "REMOVED"} = {}

\* The entity with a request under way.
AfterWrite(f, Req) ==
    [e[f] EXCEPT !.Id = IF Req = "assign" THEN 1 ELSE @, !.rc_count = @ + 1,
                 !.status = @ \cup {"RC_PENDING"} \cup
                            IF Req = "assign" THEN {"ASSIGN_PENDING"} ELSE {}]

\* diva_um_idi_write with a request: process_idi_request.
Write(f, Req) ==
    /\ MayWrite(f)
    /\ (Req = "assign") <=> (e[f].Id = 0)
    /\ Set(e, f, AfterWrite(f, Req))
    /\ XdiRequest(f, Req)
    /\ Set(armed, f, TRUE)
    /\ UNCHANGED <<xdi, nr_delayed, mem, running, aborted, woken, pc>>

\* diva_um_idi_read: return codes first, and nothing else while one is awaited.
Read(f) ==
    /\ pc[f] = "open" /\ ~aborted[f] /\ e[f].adapter
    /\ e[f].status \cap {"REMOVE_PENDING", "REMOVED"} = {}
    /\ \/ /\ e[f].rc > 0
          /\ e' = [e EXCEPT ![f].rc = @ - 1, ![f].status = @ \ {"RC_PENDING"}]
       \/ /\ e[f].rc = 0 /\ "RC_PENDING" \notin e[f].status /\ e[f].data > 0
          /\ e' = [e EXCEPT ![f].data = @ - 1]
    /\ UNCHANGED <<xdi, nr_delayed, mem, ref, osVars, pc>>

-----------------------------------------------------------------------------
(* diva_um_idi_xdi_callback *)

Wake(f) == Set(woken, f, mem[f] # "free")

\* Mutant: the count of requests is left to the REMOVE.
CountKept(f) == e[f].rc_count

CountDown(f) == IF e[f].rc_count = 0 THEN 0 ELSE e[f].rc_count - 1

\* What isdn_rc makes of Id.
NewId(f, id) == IF ref[f] = "data" THEN e[f].Id ELSE id

\* Mutant: a failed ASSIGN is not reported to the process.
AfterRcSilent(f, id) ==
    [e[f] EXCEPT !.Id = NewId(f, id),
                 !.status = @ \ {"ASSIGN_PENDING"},
                 !.rc_count = IF ref[f] = "remove" THEN 0 ELSE CountDown(f),
                 !.rc = IF @ = 2 \/ id = 0 THEN @ ELSE @ + 1]

\* process_idi_rc and write_return_code: when two return codes wait to be read,
\* the third one is lost.
AfterRc(f, id) ==
    [e[f] EXCEPT !.Id = NewId(f, id),
                 !.status = @ \ ({"ASSIGN_PENDING"} \cup
                                 IF e[f].rc = 2 THEN {"RC_PENDING"} ELSE {}),
                 !.rc_count = IF ref[f] = "remove" THEN 0 ELSE CountDown(f),
                 !.rc = IF @ = 2 THEN 2 ELSE @ + 1]

\* The callback changes nothing that counts when the entity has timed out; when
\* its memory is free it writes there, and nobody looks.
RcCallback(f, id) ==
    \/ /\ mem[f] = "free"
       /\ UNCHANGED <<e, armed, woken>>
    \/ /\ mem[f] # "free" /\ "TIMEOUT" \in e[f].status
       /\ e' = [e EXCEPT ![f].Id = NewId(f, id)]
       /\ UNCHANGED <<armed, woken>>
    \/ /\ mem[f] # "free" /\ "TIMEOUT" \notin e[f].status
       /\ Set(e, f, AfterRc(f, id))
       /\ armed' = IF "REMOVE_PENDING" \in e[f].status THEN armed
                   ELSE [armed EXCEPT ![f] = FALSE]
       /\ Wake(f)

\* A return code of the card: of an ASSIGN it fails or gives an Id, after that
\* of a REMOVE nothing is left.
Rc(f) ==
    /\ ref[f] \in Pending
    /\ \E id \in IF ref[f] = "assign" THEN {0, 1}
                 ELSE IF ref[f] = "remove" THEN {0} ELSE {1} :
          /\ Set(ref, f, IF id = 0 THEN "none" ELSE "idle")
          /\ RcCallback(f, id)
    /\ UNCHANGED <<xdi, nr_delayed, mem, running, aborted, pc>>

\* An indication that fits is copied; what does not fit comes again, and what
\* comes after a timeout or in the removal is discarded.
Ind(f) ==
    /\ ref[f] \in {"idle", "data", "remove"} /\ mem[f] # "free"
    /\ e[f].status \cap {"TIMEOUT", "REMOVE_PENDING"} = {} /\ e[f].data < MaxData
    /\ e' = [e EXCEPT ![f].data = @ + 1]
    /\ UNCHANGED <<xdi, nr_delayed, mem, ref, osVars, pc>>

-----------------------------------------------------------------------------
(* The watchdog *)

\* In the queue of an adapter.
Queued(f) == mem[f] = "live" /\ e[f].adapter

\* divas_um_notify_timeout looks for the entity in the queues.
Notified(f) ==
    IF Queued(f) THEN e' = [e EXCEPT ![f].status = @ \cup {"TIMEOUT"}]
    ELSE UNCHANGED e

\* diva_um_timer_function, up to the lock, and from there.
TimerExpires(f) ==
    /\ armed[f] /\ ~running[f]
    /\ Set(armed, f, FALSE) /\ Set(aborted, f, TRUE)
    /\ Set(running, f, TRUE)
    /\ UNCHANGED <<xdi, nr_delayed, mem, e, ref, woken, pc>>

TimerNotifies(f) ==
    /\ running[f]
    /\ Set(running, f, FALSE) /\ Notified(f) /\ Wake(f)
    /\ UNCHANGED <<xdi, nr_delayed, mem, ref, armed, aborted, pc>>

-----------------------------------------------------------------------------
(* release *)

\* divas_um_idi_entity_assigned.
Linked(f) == e[f].adapter /\ "REMOVED" \notin e[f].status
IsAssigned(f) ==
    /\ Linked(f)
    /\ e[f].Id # 0 \/ e[f].rc_count # 0
       \/ "ASSIGN_PENDING" \in e[f].status
RemovePending(f) ==
    [e EXCEPT ![f].status = IF Linked(f) THEN @ \cup {"REMOVE_PENDING"} ELSE @]

\* Mutant: the watchdog stays off.
WdogOff(f, on) == Set(armed, f, FALSE)

Wdog(f, on) == Set(armed, f, on)

\* remove_entity, up to its loops.
Release(f) ==
    LET wait == IsAssigned(f) /\ ~aborted[f]
    IN  /\ pc[f] = "open"
        /\ e' = RemovePending(f)
        /\ Wdog(f, wait)
        /\ Wake(f)
        /\ Set(pc, f, IF wait THEN "busy" ELSE "delete")
        /\ UNCHANGED <<xdi, nr_delayed, mem, ref, running, aborted>>

Busy(f) == Linked(f) /\ e[f].rc_count > 0

\* A turn of the first loop: divas_um_idi_entity_start_remove.
StartRemove(f) ==
    /\ pc[f] = "busy" /\ woken[f]
    /\ \/ /\ Busy(f) /\ ~aborted[f]
          /\ Set(woken, f, FALSE)
          /\ UNCHANGED <<e, ref, pc>>
       \/ /\ Linked(f) /\ ~Busy(f) /\ e[f].Id # 0
          /\ e' = [e EXCEPT ![f].rc_count = @ + 1]
          /\ XdiRequest(f, "remove")
          /\ Set(pc, f, "assigned")
          /\ UNCHANGED woken
       \/ /\ \/ Busy(f) /\ aborted[f]
             \/ ~Busy(f) /\ (Linked(f) => e[f].Id = 0)
          /\ Set(pc, f, "assigned")
          /\ UNCHANGED <<e, ref, woken>>
    /\ UNCHANGED <<xdi, nr_delayed, mem, armed, running, aborted>>

\* A turn of the second one.
Assigned(f) ==
    /\ pc[f] = "assigned" /\ woken[f]
    /\ e' = RemovePending(f)
    /\ IF IsAssigned(f) /\ ~aborted[f]
       THEN Set(woken, f, FALSE) /\ UNCHANGED pc
       ELSE Set(pc, f, "stop") /\ UNCHANGED woken
    /\ UNCHANGED <<xdi, nr_delayed, mem, ref, armed, running, aborted>>

Stop(f) ==
    /\ pc[f] = "stop"
    /\ Set(armed, f, FALSE) /\ Set(aborted, f, FALSE) /\ Set(pc, f, "delete")
    /\ UNCHANGED <<xdi, nr_delayed, mem, e, ref, running, woken>>

\* Mutant: the memory is freed in any case.
AlwaysFree(f) == FALSE

TimedOut(f) == e[f].adapter /\ "TIMEOUT" \in e[f].status

\* divas_um_idi_delete_entity: after a timeout the XDI may still use the memory.
Delete(f) ==
    /\ pc[f] = "delete"
    /\ \/ /\ TimedOut(f)
          /\ Set(mem, f, "delayed") /\ nr_delayed' = nr_delayed + 1
          /\ UNCHANGED <<e, aborted, woken>>
       \/ /\ ~TimedOut(f)
          /\ Set(mem, f, "free") /\ Set(e, f, New)
          /\ Set(aborted, f, FALSE) /\ Set(woken, f, FALSE)
          /\ UNCHANGED nr_delayed
    /\ Set(armed, f, FALSE) /\ Set(pc, f, "none")
    /\ UNCHANGED <<xdi, ref, running>>

-----------------------------------------------------------------------------
(* The adapter goes, and comes *)

\* diva_user_mode_idi_remove_adapter, cleanup_adapter, cleanup_entity and
\* diva_um_free_unused_memory, called from diva_xdi_didd_remove_adapter while
\* the XDI still works.  A request in the queue of the XDI, of the entities in
\* `queued`, goes to the card without its Id, which makes an ASSIGN of it.
RemoveAdapter ==
    /\ xdi = "up" /\ xdi' = "leaving" /\ nr_delayed' = 0
    /\ e' = [f \in Entity |->
               IF Queued(f)
               THEN [e[f] EXCEPT !.adapter = FALSE, !.Id = 0, !.rc_count = 0,
                                 !.status = {"REMOVED", "REMOVE_PENDING"}]
               ELSE IF mem[f] = "delayed" THEN New ELSE e[f]]
    /\ mem' = [f \in Entity |-> IF mem[f] = "delayed" THEN "free" ELSE mem[f]]
    /\ \E queued \in SUBSET {f \in Entity : ref[f] \in {"data", "remove"}} :
          ref' = [f \in Entity |-> IF f \in queued THEN "assign" ELSE ref[f]]
    /\ woken' = [f \in Entity |-> Queued(f) \/ (mem[f] = "live" /\ woken[f])]
    /\ aborted' = [f \in Entity |-> mem[f] = "live" /\ aborted[f]]
    /\ UNCHANGED <<armed, running, pc>>

\* The rest of diva_xdi_didd_remove_adapter: without IdTable the XDI finds an
\* entity by the reference of its ASSIGN only.
ClearIds ==
    /\ xdi = "leaving" /\ xdi' = "cleared"
    /\ ref' = [f \in Entity |-> IF ref[f] \in {"assign", "trap"} THEN ref[f] ELSE "none"]
    /\ UNCHANGED <<nr_delayed, mem, e, osVars, pc>>

\* diva_pri_stop_adapter, the rest: no interrupt and no soft ISR from here.
StopXdi ==
    /\ xdi = "cleared" /\ xdi' = "off"
    /\ ref' = [f \in Entity |-> "none"]
    /\ UNCHANGED <<nr_delayed, mem, e, osVars, pc>>

CreateAdapter ==
    /\ xdi = "off" /\ xdi' = "up"
    /\ UNCHANGED <<nr_delayed, mem, e, ref, osVars, pc>>

Releasing(f) == StartRemove(f) \/ Assigned(f) \/ Stop(f) \/ Delete(f)
Timer(f) == TimerExpires(f) \/ TimerNotifies(f)

Next ==
    \/ \E f \in Entity :
          \/ Open(f) \/ (\E Req \in Pending : Write(f, Req)) \/ Read(f)
          \/ Release(f) \/ Releasing(f) \/ Timer(f)
          \/ Rc(f) \/ Ind(f)
    \/ RemoveAdapter \/ ClearIds \/ StopXdi \/ CreateAdapter

\* A process that releases its file runs, and timers expire; neither the card
\* nor the processes have to do anything.
Spec == Init /\ [][Next]_vars
FairSpec ==
    Spec /\ \A f \in Entity : WF_vars(Releasing(f)) /\ WF_vars(Timer(f))

-----------------------------------------------------------------------------
(* Properties *)

TypeOK ==
    /\ xdi \in Xdi /\ nr_delayed \in 0..Cardinality(Entity)
    /\ mem \in [Entity -> {"free", "live", "delayed"}]
    /\ e \in [Entity ->
             [status : SUBSET {"RC_PENDING", "REMOVE_PENDING", "REMOVED",
                               "ASSIGN_PENDING", "TIMEOUT"},
              Id : {0, 1}, rc_count : 0..1,
              rc : 0..2, data : 0..MaxData, adapter : BOOLEAN]]
    /\ ref \in [Entity -> Ref] /\ pc \in [Entity -> Pc]

\* While the adapter is there, no memory is freed that the XDI has a request
\* for, or in its table, not even after a timeout (um_idi.c:819-841), except
\* when the release gets between the two parts of the timer function
\* (divasi.c:621-622); and the XDI is given no entity whose memory is free.
NoDangling ==
    [][\A f \in Entity :
          /\ mem[f] # "free" /\ mem'[f] = "free" /\ ref'[f] # "none"
             => xdi' # "up" \/ running[f]
          /\ ref[f] = "none" /\ ref'[f] # "none" => mem'[f] = "live"]_vars

\* The process and its REMOVE never send a request to a busy entity, which the
\* XDI answers with a trap of the card (io.c:550-563).
NoTrap == \A f \in Entity : ref[f] # "trap"

\* rc_count and Id tell what the XDI has, so that a release waits for what is
\* outstanding and for nothing else (um_idi.c:3084, 3111, 3116).
XdiAgrees ==
    \A f \in Entity :
        mem[f] = "live" /\ Linked(f) /\ "TIMEOUT" \notin e[f].status =>
            /\ e[f].rc_count = IF ref[f] \in Pending THEN 1 ELSE 0
            /\ (e[f].Id = 0) <=> (ref[f] = "none")

\* A process that must wait for a return code gets one, unless the card does
\* not answer (um_idi.c:1194, 2673, 2692).
RcWillCome ==
    \A f \in Entity :
        /\ pc[f] = "open" /\ Linked(f)
        /\ "RC_PENDING" \in e[f].status /\ "TIMEOUT" \notin e[f].status
        => e[f].rc > 0 \/ ref[f] \in Pending

\* A release ends, whatever the card and the adapter do (divasi.c:645-717).
ReleaseEnds ==
    \A f \in Entity : pc[f] \notin {"none", "open"} ~> pc[f] = "none"

\* The flags, the count and the Id of an entity tell the truth about the
\* request that the XDI has (um_idi.c:1194, 2673, 3084-3116).
RequestsAgree == TypeOK /\ XdiAgrees /\ NoTrap /\ RcWillCome
=============================================================================
