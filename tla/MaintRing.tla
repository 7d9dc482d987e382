------------------------------ MODULE MaintRing -----------------------------
(***************************************************************************)
(* The buffer of the trace driver DIMAINT (kernel/debug.c): drivers write  *)
(* trace messages into a ring, one process reads them                      *)
(* (kernel/mntfunc.c).                                                     *)
(*                                                                         *)
(* dbg_q_lock is held while a message is written: the oldest ones are      *)
(* dropped until there is room, so that the reader sees a gap in the       *)
(* sequence numbers.  The reader holds it from the look at a message until *)
(* it has copied it.  An interrupt must not wait for the lock: it leaves   *)
(* its information in a buffer of its own, and the next DI_format puts it  *)
(* into the ring first.                                                    *)
(***************************************************************************)
EXTENDS MsgQueue

CONSTANTS
    Writer,         \* threads of drivers: DI_format, DI_append, DI_register
    WSizes,         \* sizes of their messages
    Sys,            \* threads that write system information
    SysSize,        \* size of a message with system information
    Cpu,            \* processors whose interrupts leave information
    TmpMax,         \* MAX_TMP_BUFFER_STRING, in pieces of information
    MaxInfo         \* bound: pieces of information from interrupts

ASSUME MaintAssumption ==
    /\ WSizes \cup {SysSize} \subseteq Sizes
    /\ TmpMax \in Nat \ {0} /\ MaxInfo \in Nat

VARIABLES
    lock,           \* who holds dbg_q_lock
    job,            \* what its holder still has to do
    size,           \* of the message of a driver
    seen,           \* maint_tmp_buffer_length as the holder has read it
    entries,        \* the sequence numbers of the messages in the ring
    dbg_sequence,
    got, dropped,   \* the numbers that were read, or dropped for room
    buf, length,    \* maint_tmp_buffer_base and maint_tmp_buffer_length
    pos,            \* the length that an interrupt has read, or NoPos
    infos,          \* pieces of information left by interrupts so far
    shown           \* those that were put into the ring

holderVars == <<lock, job, size, seen>>
entryVars == <<entries, dbg_sequence, got, dropped>>
tmpVars == <<buf, length, pos, infos, shown>>
mvars == <<vars, holderVars, entryVars, tmpVars>>

NoPos == -1
Holder == Writer \cup Sys

MaintInit ==
    /\ Init
    /\ lock = "free" /\ job = <<>> /\ size = 0 /\ seen = 0
    /\ entries = <<>> /\ dbg_sequence = 0 /\ got = {} /\ dropped = {}
    /\ buf = [i \in 1..TmpMax |-> 0] /\ length = 0
    /\ pos = [c \in Cpu |-> NoPos] /\ infos = 0 /\ shown = {}

-----------------------------------------------------------------------------
(* Who writes takes the lock ... *)

\* diva_maint_recovery_tmp_buffer: one turn of its loop.
Recovery == <<"length", "intro", "info", "line", "check">>

\* DI_format looks for information from interrupts, DI_append and
\* DI_register do not.
StartWrite(w, s, format) ==
    /\ lock = "free" /\ allocs < MaxMsgs
    /\ lock' = w /\ size' = s
    /\ job' = IF format /\ length # 0 THEN Recovery \o <<"msg">> ELSE <<"msg">>
    /\ UNCHANGED <<vars, seen, entryVars, tmpVars>>

\* maint_write_system_info
StartSys(s) ==
    /\ lock = "free" /\ allocs < MaxMsgs
    /\ lock' = s /\ job' = <<"sys">>
    /\ UNCHANGED <<vars, size, seen, entryVars, tmpVars>>

Doing(steps) == lock \in Holder /\ job # <<>> /\ Head(job) \in steps

\* ... and leaves it when it is done.
Unlock ==
    /\ lock \in Holder /\ job = <<>>
    /\ lock' = "free"
    /\ UNCHANGED <<vars, job, size, seen, entryVars, tmpVars>>

-----------------------------------------------------------------------------
(* ... writes its messages *)

\* The step is the insertion of a message by diva_mnt_insert_message.
String == Head(job) # "msg"
Bytes == IF String THEN SysSize ELSE size

\* diva_mnt_insert_message writes the zero that ends the string behind the
\* message and not into its last byte: it may be the low byte of a header.
Terminated(m) ==
    [Written(m, m.size) EXCEPT ![m.at + Hdr + m.size].size = (@ \div 256) * 256]

Inserts == {"msg", "sys", "intro", "info", "line"}

Insert ==
    LET m == Message(At(Need(Bytes)), Bytes, TRUE)
    IN  /\ Doing(Inserts)
        /\ Reserve(Bytes)
        /\ mem' = IF String /\ m.at + Hdr + m.size \in Addr
                  THEN Terminated(m) ELSE Written(m, m.size)
        /\ msgs' = Append(msgs, m)
        /\ entries' = Append(entries, dbg_sequence)
        /\ dbg_sequence' = dbg_sequence + 1
        /\ shown' = IF Head(job) = "info"
                    THEN shown \cup {buf[i] : i \in 1..seen} ELSE shown
        /\ job' = Tail(job)
        /\ UNCHANGED <<lock, size, seen, got, dropped, buf, length, pos, infos>>

\* Mutant: the newest message is dropped.
DropNewest ==
    /\ entries' = SubSeq(entries, 1, Len(entries) - 1)
    /\ dropped' = dropped \cup {entries[Len(entries)]}

DropOldest ==
    /\ entries' = Tail(entries)
    /\ dropped' = dropped \cup {Head(entries)}

\* No room: drop the oldest message and try again ...
Drop ==
    /\ Doing(Inserts) /\ ~Fits(Need(Bytes))
    /\ Free /\ DropOldest
    /\ UNCHANGED <<holderVars, dbg_sequence, got, tmpVars>>

\* ... or, with none to drop, give up.
GiveUp ==
    /\ Doing(Inserts) /\ ~Fits(Need(Bytes)) /\ ~Peek
    /\ job' = Tail(job)
    /\ UNCHANGED <<vars, lock, size, seen, entryVars, tmpVars>>

-----------------------------------------------------------------------------
(* diva_maint_recovery_tmp_buffer *)

ReadLength ==
    /\ Doing({"length"})
    /\ seen' = length /\ job' = Tail(job)
    /\ UNCHANGED <<vars, lock, size, entryVars, tmpVars>>

\* More information came meanwhile: all of it is written once more.
Check ==
    /\ Doing({"check"})
    /\ job' = IF seen # length THEN Recovery \o Tail(job)
              ELSE <<"clear">> \o Tail(job)
    /\ UNCHANGED <<vars, lock, size, seen, entryVars, tmpVars>>

Clear ==
    /\ Doing({"clear"})
    /\ length' = 0 /\ job' = Tail(job)
    /\ UNCHANGED <<vars, lock, size, seen, entryVars, buf, pos, infos, shown>>

-----------------------------------------------------------------------------
(* Interrupts: the length is read, then the information and the new length
   are written, without a lock.  maint_write_system_info appends; DI_format
   writes only into an empty buffer. *)

IrqStart(c) ==
    /\ pos[c] = NoPos /\ infos < MaxInfo /\ length < TmpMax
    /\ pos' = [pos EXCEPT ![c] = length]
    /\ UNCHANGED <<vars, holderVars, entryVars, buf, length, infos, shown>>

IrqEnd(c) ==
    /\ pos[c] # NoPos
    /\ infos' = infos + 1
    /\ buf' = [buf EXCEPT ![pos[c] + 1] = infos + 1]
    /\ length' = pos[c] + 1
    /\ pos' = [pos EXCEPT ![c] = NoPos]
    /\ UNCHANGED <<vars, holderVars, entryVars, shown>>

-----------------------------------------------------------------------------
(* The reader: diva_maint_get_message, diva_maint_ack_message *)

GetMessage ==
    /\ lock = "free" /\ Peek
    /\ lock' = "reader"
    /\ UNCHANGED <<vars, job, size, seen, entryVars, tmpVars>>

\* The message was copied ...
AckMessage ==
    /\ lock = "reader"
    /\ Free
    /\ entries' = Tail(entries) /\ got' = got \cup {Head(entries)}
    /\ lock' = "free"
    /\ UNCHANGED <<job, size, seen, dbg_sequence, dropped, tmpVars>>

\* ... or the caller had no room for it, and it stays.
KeepMessage ==
    /\ lock = "reader"
    /\ lock' = "free"
    /\ UNCHANGED <<vars, job, size, seen, entryVars, tmpVars>>

-----------------------------------------------------------------------------

Hold == Insert \/ Drop \/ GiveUp \/ ReadLength \/ Check \/ Clear \/ Unlock

MaintNext ==
    \/ \E w \in Writer, s \in WSizes, format \in BOOLEAN : StartWrite(w, s, format)
    \/ \E s \in Sys : StartSys(s)
    \/ Hold
    \/ \E c \in Cpu : IrqStart(c) \/ IrqEnd(c)
    \/ GetMessage \/ AckMessage \/ KeepMessage

MaintSpec == MaintInit /\ [][MaintNext]_mvars

\* A processor that holds a spin lock goes on.
FairSpec == MaintSpec /\ WF_mvars(Hold) /\ WF_mvars(AckMessage \/ KeepMessage)

-----------------------------------------------------------------------------
(* Properties *)

MaintTypeOK ==
    /\ TypeOK
    /\ lock \in {"free", "reader"} \cup Holder
    /\ job \in Seq(Inserts \cup {"length", "check", "clear"})
    /\ size \in Sizes \cup {0} /\ seen \in 0..TmpMax
    /\ entries \in Seq(Nat) /\ dbg_sequence \in Nat
    /\ got \subseteq Nat /\ dropped \subseteq Nat
    /\ buf \in [1..TmpMax -> 0..MaxInfo] /\ length \in 0..TmpMax
    /\ pos \in [Cpu -> -1..TmpMax - 1]
    /\ infos \in Nat /\ shown \subseteq 0..MaxInfo

\* The reader can tell what it missed: the messages in the ring are the
\* newest ones, without a gap, and every older number was read once or was
\* dropped (debug.c:997-1010, 855-880).
Accounted ==
    /\ Len(entries) = Len(msgs)
    /\ \A i \in 1..Len(entries) :
          entries[i] = dbg_sequence - Len(entries) + i - 1
    /\ got \cap dropped = {}
    /\ got \cup dropped = 0..(dbg_sequence - Len(entries) - 1)

\* What an interrupt has left in the temporary buffer is there until it was
\* put into the ring (debug.c:2921 "save information in the temporary
\* buffer").
InfoKept ==
    \A i \in 1..infos : i \in shown \/ \E k \in 1..length : buf[k] = i

\* A thread that has to drop messages, to write others for the interrupts and
\* to begin again as these leave more, gets done and gives the lock back
\* (debug.c:1131-1138, 1166-1171).
LockFreed == lock \in Holder ~> lock = "free"
=============================================================================
