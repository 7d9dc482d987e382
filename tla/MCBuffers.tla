------------------------------ MODULE MCBuffers -----------------------------
(***************************************************************************)
(* The data structures below the drivers, each alone: a behaviour belongs  *)
(* to one part, and the variables of the others stay as they are.          *)
(***************************************************************************)
EXTENDS MaintRing, DmaFrag, TLC

CONSTANTS u, v      \* readers of the trace of a card

VARIABLES
    part,
    lhead, ltail, lprev, lnext,                         \* of DList
    flags, reg, pcm, state, pc, xbuf, xgot, gaveUp, dpc, sched,
    asked, stopSent, card, ring,                        \* of VidiXlog
    shared                                              \* see X and Single

listVars == <<lhead, ltail, lprev, lnext>>
xlogVars == <<flags, reg, pcm, state, pc, xbuf, xgot, gaveUp, dpc, sched,
              asked, stopSent, card, ring>>

L == INSTANCE DList WITH
        Elem <- {"a", "b", "c", "d"}, Queue <- {"free", "used"}, Null <- "null",
        head <- lhead, tail <- ltail, prev <- lprev, next <- lnext

\* Several processors may change request_flags at the same time, or one may.
X == INSTANCE VidiXlog WITH
        Reader <- {u, v}, MaxPieces <- 2, Bound <- 2, Shared <- TRUE,
        buf <- xbuf, got <- xgot
Single == INSTANCE VidiXlog WITH
        Reader <- {u, v}, MaxPieces <- 2, Bound <- 2, Shared <- FALSE,
        buf <- xbuf, got <- xgot

ASSUME L!ConstantsOK /\ X!ConstantsOK /\ Single!ConstantsOK

-----------------------------------------------------------------------------

PartInit ==
    /\ part \in {"ring", "maint", "dma", "list", "xlog"}
    /\ MaintInit /\ DmaInit /\ L!Init /\ X!Init
    /\ shared \in BOOLEAN /\ (part # "xlog" => shared)

\* No more messages are written here.
RingEnd == allocs >= MaxMsgs /\ lock = "free" /\ msgs = <<>> /\ UNCHANGED mvars

\* Nor is the trace of the card read again.
XlogEnd == 2 \in {asked, gaveUp} /\ UNCHANGED xlogVars

Part(p) == part = p /\ UNCHANGED <<part, shared>>
Others(p) ==
    /\ p \notin {"ring", "maint"} => UNCHANGED mvars
    /\ p = "ring" => UNCHANGED <<holderVars, entryVars, tmpVars>>
    /\ p # "dma" => UNCHANGED dmaVars
    /\ p # "list" => UNCHANGED listVars
    /\ p # "xlog" => UNCHANGED xlogVars

PartNext ==
    \/ Part("ring") /\ Next /\ Others("ring")
    \/ Part("maint") /\ MaintNext /\ Others("maint")
    \/ part \in {"ring", "maint"} /\ RingEnd /\ Part(part) /\ Others("maint")
    \/ Part("dma") /\ DmaNext /\ Others("dma")
    \/ Part("list") /\ L!Next /\ Others("list")
    \/ Part("xlog") /\ shared /\ X!Next /\ Others("xlog")
    \/ Part("xlog") /\ ~shared /\ Single!Next /\ Others("xlog")
    \/ Part("xlog") /\ XlogEnd /\ Others("xlog")

PartSpec ==
    PartInit /\ [][PartNext]_<<part, shared, mvars, dmaVars, listVars, xlogVars>>

Sym == Permutations({u, v})

-----------------------------------------------------------------------------
(* Properties of the instances *)

\* The numbers of the messages left in the trace ring are the newest without a
\* gap, so that its reader can account for every one of them (debug.c:855-880,
\* 997-1010): see MaintRing.
NumbersAccounted == part = "maint" => Accounted /\ MaintTypeOK

\* The links are those of sequences, which the operations of dlist.c change as
\* their names say, and a search finds its place (dlist.c:50-63, 69-122): see
\* DList.
ListsAreSequences ==
    /\ []L!WellLinked
    /\ L!Lists!Init /\ [][listVars' # listVars => L!Lists!Next]_listVars
    /\ [][listVars' # listVars => L!AllInPlace]_listVars

\* An answer of the trace is whole and the card never writes to a buffer that
\* was taken back (vidi_di.c:698-727, 1222-1226); as long as one processor at a
\* time changes request_flags, no wish to stop is lost and only so many pieces
\* are (vidi_di.c:187, 305, 724): see VidiXlog.
TraceKept ==
    /\ []X!WholeAnswer /\ X!NoLateWrite
    /\ [](~shared => Single!StopKept /\ Single!LossBounded)
=============================================================================
