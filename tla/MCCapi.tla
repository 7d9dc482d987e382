------------------------------- MODULE MCCapi ------------------------------
(***************************************************************************)
(* The parts of the CAPI driver, each alone: a behaviour belongs to one of *)
(* them, and the variables of the others have no value.                    *)
(***************************************************************************)
EXTENDS Integers, TLC

CONSTANTS
    Parts,              \* the parts that are checked
    x1, x2, x3,         \* applications, transmit buffers, or connections
    none

VARIABLES
    part,
    cap, card, box, told, asked,                    \* of CapiCall
    plci,                                           \* of CapiData and CapiFlow
    fcOwed, ackOwed, discOwed,                      \* of CapiData
    app, held,                                      \* of CapiFlow
    ncci_ch, ncci_plci, ncci_next, ch_ncci, ring, adjust, owner, outside,
                                                    \* of CapiNcci
    rd, wr, wrap, mem, busy                         \* of PlciQueue

callVars == <<cap, card, box, told, asked>>
cardVars == <<fcOwed, ackOwed, discOwed>>
flowVars == <<app, held>>
ncciVars == <<ncci_ch, ncci_plci, ncci_next, ch_ncci, ring, adjust, owner, outside>>
queueVars == <<rd, wr, wrap, mem, busy>>
allVars == <<part, callVars, plci, cardVars, flowVars, ncciVars, queueVars>>

NoCall == cap = none /\ card = none /\ box = none /\ told = none /\ asked = none
NoCard == fcOwed = none /\ ackOwed = none /\ discOwed = none
NoFlow == app = none /\ held = none
NoNcci == /\ ncci_ch = none /\ ncci_plci = none /\ ncci_next = none /\ ch_ncci = none
          /\ ring = none /\ adjust = none /\ owner = none /\ outside = none
NoQueue == rd = none /\ wr = none /\ wrap = none /\ mem = none /\ busy = none

-----------------------------------------------------------------------------

\* One PLCI and two applications; two PLCIs of one application on a card
\* that may be out of entities.
Call == INSTANCE CapiCall WITH
    NumPlci <- 1, Appls <- {x1, x2}, MaxListen <- 1, AssignFails <- FALSE, MaxBox <- 2
Pair == INSTANCE CapiCall WITH
    NumPlci <- 2, Appls <- {1}, MaxListen <- 1, AssignFails <- TRUE, MaxBox <- 2

\* Two connections of one PLCI; a transparent one that is reset.
Data == INSTANCE CapiData WITH
    Bufs <- {x1, x2, x3}, MaxNcci <- 2, MaxData <- 2, MaxAck <- 1, MaxQueue <- 1,
    Transparent <- FALSE, FlowControl <- TRUE, NReset <- FALSE, AckFlags <- BOOLEAN
Reset == INSTANCE CapiData WITH
    Bufs <- {x1, x2, x3}, MaxNcci <- 1, MaxData <- 2, MaxAck <- 2, MaxQueue <- 2,
    Transparent <- TRUE, FlowControl <- TRUE, NReset <- TRUE, AckFlags <- BOOLEAN

\* Two connections that receive; one with more buffers; a card without N_XON.
Flow == INSTANCE CapiFlow WITH
    Nccis <- {x1, x2}, MaxNCCI <- 2, MaxNCCIData <- 1, DiscardAt <- 3,
    XonFeature <- TRUE, AckFlags <- {FALSE}, Outgoing <- TRUE, MaxCall <- 1, MaxApp <- 2
Wide == INSTANCE CapiFlow WITH
    Nccis <- {1}, MaxNCCI <- 1, MaxNCCIData <- 3, DiscardAt <- 3,
    XonFeature <- TRUE, AckFlags <- BOOLEAN, Outgoing <- TRUE, MaxCall <- 1, MaxApp <- 3
Poll == INSTANCE CapiFlow WITH
    Nccis <- {x1, x2}, MaxNCCI <- 2, MaxNCCIData <- 1, DiscardAt <- 3,
    XonFeature <- FALSE, AckFlags <- {FALSE}, Outgoing <- FALSE, MaxCall <- 1, MaxApp <- 2

\* More channels than NCCIs; NCCIs enough, and changes of the B protocol.
Ncci == INSTANCE CapiNcci WITH
    Plcis <- 1..2, MaxNcci <- 3, MaxCh <- 4, MaxBusy <- 3, Adjusts <- FALSE
Adjust == INSTANCE CapiNcci WITH
    Plcis <- 1..2, MaxNcci <- 4, MaxCh <- 5, MaxBusy <- 2, Adjusts <- TRUE

\* Two lengths of messages; two applications.
Queue == INSTANCE PlciQueue WITH
    Size <- 34, WordSize <- 2, Lens <- {3, 7}, Appls <- {1}, NoAppl <- 0
Shared == INSTANCE PlciQueue WITH
    Size <- 22, WordSize <- 2, Lens <- {1, 3}, Appls <- {1, 2}, NoAppl <- 0

ASSUME Call!ConstantsOK /\ Pair!ConstantsOK
ASSUME Data!ConstantsOK /\ Reset!ConstantsOK
ASSUME Flow!ConstantsOK /\ Wide!ConstantsOK /\ Poll!ConstantsOK
ASSUME Ncci!ConstantsOK /\ Adjust!ConstantsOK
ASSUME Queue!ConstantsOK /\ Shared!ConstantsOK

-----------------------------------------------------------------------------

\* The variables a part has.
OfCall == {"call"}
OfData == {"plci", "card"}
OfFlow == {"plci", "flow"}
OfNcci == {"ncci"}
OfQueue == {"queue"}

Start(p, groups) ==
    /\ part = p /\ p \in Parts
    /\ "call" \notin groups => NoCall
    /\ "plci" \notin groups => plci = none
    /\ "card" \notin groups => NoCard
    /\ "flow" \notin groups => NoFlow
    /\ "ncci" \notin groups => NoNcci
    /\ "queue" \notin groups => NoQueue

PartInit ==
    \/ Start("call", OfCall) /\ Call!Init
    \/ Start("pair", OfCall) /\ Pair!Init
    \/ Start("data", OfData) /\ Data!Init
    \/ Start("reset", OfData) /\ Reset!Init
    \/ Start("flow", OfFlow) /\ Flow!Init
    \/ Start("wide", OfFlow) /\ Wide!Init
    \/ Start("poll", OfFlow) /\ Poll!Init
    \/ Start("ncci", OfNcci) /\ Ncci!Init
    \/ Start("adjust", OfNcci) /\ Adjust!Init
    \/ Start("queue", OfQueue) /\ Queue!Init
    \/ Start("shared", OfQueue) /\ Shared!Init

Step(p, groups) ==
    /\ part = p /\ UNCHANGED part
    /\ "call" \notin groups => UNCHANGED callVars
    /\ "plci" \notin groups => UNCHANGED plci
    /\ "card" \notin groups => UNCHANGED cardVars
    /\ "flow" \notin groups => UNCHANGED flowVars
    /\ "ncci" \notin groups => UNCHANGED ncciVars
    /\ "queue" \notin groups => UNCHANGED queueVars

PartNext ==
    \/ Step("call", OfCall) /\ Call!Next
    \/ Step("pair", OfCall) /\ Pair!Next
    \/ Step("data", OfData) /\ Data!Next
    \/ Step("reset", OfData) /\ Reset!Next
    \/ Step("flow", OfFlow) /\ Flow!Next
    \/ Step("wide", OfFlow) /\ Wide!Next
    \/ Step("poll", OfFlow) /\ Poll!Next
    \/ Step("ncci", OfNcci) /\ Ncci!Next
    \/ Step("adjust", OfNcci) /\ Adjust!Next
    \/ Step("queue", OfQueue) /\ Queue!Next
    \/ Step("shared", OfQueue) /\ Shared!Next

PartSpec == PartInit /\ [][PartNext]_allVars

\* What these stand for is interchangeable in each part.
Symmetry == Permutations({x1, x2, x3})

-----------------------------------------------------------------------------
(* The properties of the parts *)

In(p, P) == part = p => P

\* Calls belong to one application, every application that knows of one is told
\* once that it ended, and the PLCI waits for those that did not get it; a PLCI
\* listens as long as there is one (message.c:2323-2352, 8234, 8565, 8587,
\* 12456-12486).  For what an answer to an earlier call does, see CapiCall.
CallsKnown ==
    /\ [](/\ In("call", Call!TypeOK /\ Call!Listening /\ Call!Single /\ Call!Awaits)
          /\ In("pair", Pair!TypeOK /\ Pair!Listening /\ Pair!Single /\ Pair!Awaits))
    /\ [][/\ In("call", Call!StaysReachable /\ Call!EndedOnce /\ Call!AnswersAwaited)
          /\ In("pair", Pair!StaysReachable /\ Pair!EndedOnce /\ Pair!AnswersAwaited)
         ]_allVars

\* Data that is sent waits in one place and in order, its buffer stays as long
\* as the card may read it, and what may not be sent yet is held
\* (message.c:643-676, 1198-1222, 4229-4246, 6714-6751, 12365): see CapiData.
DataOwned ==
    /\ In("data", /\ Data!TypeOK /\ Data!BuffersOwned /\ Data!CardReadsOwn
                  /\ Data!RingsKept /\ Data!WaitingHeld)
    /\ In("reset", /\ Reset!TypeOK /\ Reset!BuffersOwned /\ Reset!CardReadsOwn
                   /\ Reset!RingsKept /\ Reset!WaitingHeld)

\* Data that is received has a buffer of its own until the application gives
\* it back, a channel under flow control is known as such, and data is refused
\* only if the application has no buffer left (message.c:1172, 4291-4296,
\* 5778-5790, 10096-10133, 24152-24246): see CapiFlow.
ReceiveOwned ==
    /\ [](/\ In("flow", Flow!TypeOK /\ Flow!HeldKept /\ Flow!FlowKnown)
          /\ In("wide", Wide!TypeOK /\ Wide!HeldKept /\ Wide!FlowKnown)
          /\ In("poll", Poll!TypeOK /\ Poll!HeldKept))
    /\ [][/\ In("flow", Flow!RejectsOnlyAtLimit) /\ In("wide", Wide!RejectsOnlyAtLimit)
          /\ In("poll", Poll!RejectsOnlyAtLimit)]_allVars

\* The tables of NCCIs, channels and PLCIs are inverse to each other, rings
\* have no foreign link, and a preserved NCCI stays where it was
\* (message.c:1094-1143, 1246-1276, 12366-12454): see CapiNcci.  After a
\* protocol change was aborted Found does not hold.
ConnectionsMapped ==
    /\ In("ncci", Ncci!TypeOK /\ Ncci!RingExact /\ Ncci!MapsAgree /\ Ncci!Found)
    /\ In("adjust", /\ Adjust!TypeOK /\ Adjust!RingExact /\ Adjust!MapsAgree
                    /\ Adjust!KeptInPlace)

\* The queue of commands is first in, first out, no message in it is damaged, an
\* empty one takes every message, and only one that would wrap is lost before
\* it is full (message.c:611-741, 1544-1598, 5800-5838): see PlciQueue.
CommandsInOrder ==
    /\ [](/\ In("queue", /\ Queue!TypeOK /\ Queue!Undamaged
                         /\ Queue!EmptyTakesAll /\ Queue!LostOnlyWrapped)
          /\ In("shared", /\ Shared!TypeOK /\ Shared!Undamaged
                          /\ Shared!EmptyTakesAll /\ Shared!LostOnlyWrapped))
    /\ [][In("queue", Queue!FifoStep) /\ In("shared", Shared!FifoStep)]_allVars
=============================================================================
