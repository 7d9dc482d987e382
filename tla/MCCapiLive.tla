----------------------------- MODULE MCCapiLive ----------------------------
(***************************************************************************)
(* The progress of the CAPI driver and of the trace driver, in small       *)
(* instances of their parts, each with variables of its own: a behaviour   *)
(* belongs to one part, and the variables of the others stay as they are.  *)
(***************************************************************************)
EXTENDS Integers, SequencesExt

CONSTANTS b1, b2    \* transmit buffers

VARIABLES
    part,
    cap, card, box, told, asked,                    \* of CapiCall
    plci, fcOwed, ackOwed, discOwed,                \* of CapiData
    fplci, app, held,                               \* of CapiFlow
    head, tail, wrap, count, mem, msgs, allocs, lock, job, size, seen,
    entries, dbg_sequence, got, dropped, buf, length, pos, infos, shown
                                                    \* of MaintRing

callVars == <<cap, card, box, told, asked>>
dataVars == <<plci, fcOwed, ackOwed, discOwed>>
flowVars == <<fplci, app, held>>
maintVars == <<head, tail, wrap, count, mem, msgs, allocs, lock, job, size, seen,
               entries, dbg_sequence, got, dropped, buf, length, pos, infos, shown>>
allVars == <<part, callVars, dataVars, flowVars, maintVars>>

Call == INSTANCE CapiCall WITH
    NumPlci <- 1, Appls <- 1..2, MaxListen <- 1, AssignFails <- FALSE, MaxBox <- 1
Data == INSTANCE CapiData WITH
    Bufs <- {b1}, MaxNcci <- 2, MaxData <- 1, MaxAck <- 1, MaxQueue <- 1,
    Transparent <- FALSE, FlowControl <- TRUE, NReset <- FALSE, AckFlags <- {FALSE}
Trans == INSTANCE CapiData WITH
    Bufs <- {b1, b2}, MaxNcci <- 1, MaxData <- 2, MaxAck <- 1, MaxQueue <- 1,
    Transparent <- TRUE, FlowControl <- TRUE, NReset <- TRUE, AckFlags <- BOOLEAN
Flow == INSTANCE CapiFlow WITH
    Nccis <- 1..2, MaxNCCI <- 1, MaxNCCIData <- 1, DiscardAt <- 40,
    XonFeature <- TRUE, AckFlags <- {FALSE}, Outgoing <- FALSE, MaxCall <- 1, MaxApp <- 2,
    plci <- fplci
Wide == INSTANCE CapiFlow WITH
    Nccis <- {1}, MaxNCCI <- 1, MaxNCCIData <- 3, DiscardAt <- 40,
    XonFeature <- TRUE, AckFlags <- {TRUE}, Outgoing <- TRUE, MaxCall <- 1, MaxApp <- 3,
    plci <- fplci
Maint == INSTANCE MaintRing WITH
    Size <- 24, Sizes <- {4, 5, 24}, MaxMsgs <- 2, Writer <- {"w1"},
    WSizes <- {4, 24}, Sys <- {"s1"}, SysSize <- 5, Cpu <- {"c1"},
    TmpMax <- 2, MaxInfo <- 1

-----------------------------------------------------------------------------

PartInit ==
    /\ part \in {"call", "data", "trans", "flow", "wide", "maint"}
    /\ Call!Init /\ Maint!MaintInit
    /\ IF part = "trans" THEN Trans!Init ELSE Data!Init
    /\ IF part = "wide" THEN Wide!Init ELSE Flow!Init

Step(p) ==
    /\ part = p /\ UNCHANGED part
    /\ p # "call" => UNCHANGED callVars
    /\ p \notin {"data", "trans"} => UNCHANGED dataVars
    /\ p \notin {"flow", "wide"} => UNCHANGED flowVars
    /\ p # "maint" => UNCHANGED maintVars

\* The trace driver has written as much as it may here.
MaintEnd == allocs >= 2 /\ lock = "free" /\ UNCHANGED maintVars

PartNext ==
    \/ Step("call") /\ Call!Next
    \/ Step("data") /\ Data!Next
    \/ Step("trans") /\ Trans!Next
    \/ Step("flow") /\ Flow!Next
    \/ Step("wide") /\ Wide!Next
    \/ Step("maint") /\ (Maint!MaintNext \/ MaintEnd)

\* The fair actions of the parts, see Fairness in CapiCall, CapiData and
\* CapiFlow and FairSpec in MaintRing.  As a behaviour belongs to one part, one
\* condition serves an action of each.
CallFair(k) ==
    \/ k \in 1..2 /\ Call!AppAnswers(k)
    \/ k = 3 /\ Call!CardRc(1)
    \/ k = 4 /\ Call!CardAnswersHangup(1)
DataFair(k) ==
    \/ k = 1 /\ (Data!CardRc("OK") \/ Data!CardRc("OK_FC"))
    \/ k = 2 /\ Data!CardResets
    \/ k \in 3..4 /\ Data!CardEndsFc(k - 2)
    \/ k \in 5..6 /\ Data!CardAcks(k - 4)
    \/ k \in 7..8 /\ Data!CardDiscAck(k - 6)
TransFair(k) ==
    \/ k = 1 /\ (Trans!CardRc("OK") \/ Trans!CardRc("OK_FC"))
    \/ k = 2 /\ Trans!CardResets
    \/ k = 3 /\ Trans!CardEndsFc(1)
    \/ k = 4 /\ Trans!CardAcks(1)
    \/ k = 5 /\ Trans!CardDiscAck(1)
FlowFair(k) ==
    \/ k = 1 /\ Flow!CardRc
    \/ k = 2 /\ Flow!Complete
    \/ k = 3 /\ Flow!CallConnected
    \/ k \in 4..5 /\ Flow!ConnectAck(k - 3)
    \/ k \in 6..7 /\ Flow!DiscAck(k - 5)
WideFair(k) ==
    \/ k = 1 /\ Wide!CardRc
    \/ k = 2 /\ Wide!Complete
    \/ k = 3 /\ Wide!CallConnected
    \/ k = 4 /\ Wide!ConnectAck(1)
    \/ k = 5 /\ Wide!DiscAck(1)
MaintFair(k) ==
    \/ k = 1 /\ Maint!Hold
    \/ k = 2 /\ (Maint!AckMessage \/ Maint!KeepMessage)

Fair(k) ==
    /\ UNCHANGED part
    /\ \/ part = "call" /\ CallFair(k)
       \/ part = "data" /\ DataFair(k)
       \/ part = "trans" /\ TransFair(k)
       \/ part = "flow" /\ FlowFair(k)
       \/ part = "wide" /\ WideFair(k)
       \/ part = "maint" /\ MaintFair(k)

AppAnswers ==
    /\ UNCHANGED part
    /\ \/ part = "flow" /\ Flow!AppAnswers
       \/ part = "wide" /\ Wide!AppAnswers

\* What a step of the part changes.
partVars ==
    CASE part = "call" -> callVars
      [] part \in {"data", "trans"} -> dataVars
      [] part \in {"flow", "wide"} -> flowVars
      [] part = "maint" -> maintVars

FairSpec ==
    /\ PartInit /\ [][PartNext]_allVars
    /\ \A k \in 1..8 : WF_partVars(Fair(k))
    /\ SF_partVars(AppAnswers)

-----------------------------------------------------------------------------
(* The properties, each one for the parts it has a meaning in *)

\* Data is kept: DATA_B3_REQ k, of connection k or of the transparent one, with
\* the driver; data of connection k, which the driver refused, with the card.
Kept(k) ==
    \/ part = "data" /\ 1 \in ToSet(plci.waiting[k])
    \/ part = "trans" /\ k \in ToSet(plci.waiting[1])
    \/ part = "flow" /\ held[k]
    \/ part = "wide" /\ k = 1 /\ held[1]

\* The buffers are fewer than the connections need, and no answer of the
\* application is left that starts the channel again.
Starved(k) == part = "flow" /\ Flow!Starved(k)

\* Else no data is kept for ever: what the application sends is sent, confirmed
\* or discarded with its connection (message.c:6704-6751, 1198-1222), and a
\* channel that was stopped is started again (message.c:4298-4301, 4033-4034,
\* 24172-24197).
DataMoves == \A k \in 1..2 : Kept(k) /\ ~Starved(k) ~> ~Kept(k)

\* Connection or call k is to end.
Ending(k) ==
    \/ part = "data" /\ plci.state[k] = "OUTG_DIS_PENDING"
    \/ part = "trans" /\ k = 1 /\ plci.state[1] = "OUTG_DIS_PENDING"
    \/ part = "call" /\ k = 1 /\ cap.plci[1].used
         /\ cap.plci[1].State \in {"OUTG_DIS_PENDING", "INC_DIS_PENDING"}

\* What is to end, ends: N_DISC is sent, behind the data that is left, whatever
\* else is under way (message.c:4088-4098, 12430-12448); the PLCI and its
\* entities are freed (message.c:13133-13159).
EndReached == \A k \in 1..2 : Ending(k) ~> ~Ending(k)

\* Something is taken: a transmit buffer, the entry of a connection that ended,
\* the lock of the trace ring.
Taken ==
    \/ part = "data" /\ b1 \notin plci.free
    \/ part = "wide" /\ fplci.dis # << >>
    \/ part = "maint" /\ lock # "free"

\* What is taken is given back: the buffer by the return code, the reset or the
\* end of the connection (message.c:6704-6751), the entry by DISCONNECT_B3_RESP
\* or the end of the call (message.c:4132-4202), the lock after the ring was
\* emptied as far as it can be (debug.c:1131-1138, 1166-1171).
GivenBack == Taken ~> ~Taken
=============================================================================
