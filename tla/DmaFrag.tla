------------------------------- MODULE DmaFrag ------------------------------
(***************************************************************************)
(* The pages for DMA of one adapter: the map of pages (kernel/diva_dma.c)  *)
(* and the map that splits some of them into fragments for short requests  *)
(* (kernel/diva_dma_fragment.c), as VIDI and the streaming clients use     *)
(* them.                                                                   *)
(*                                                                         *)
(* The page map is shared and used under data_spin_lock; the fragment map  *)
(* is used by the soft ISR of the adapter only.  A fragment is known by a  *)
(* number of 16 bits: bit 15, 3 bits for the fragment and 8 for the entry  *)
(* of the fragment map, while a whole page is known by its number.         *)
(***************************************************************************)
EXTENDS Integers, FiniteSets, Sequences

CONSTANTS
    Pages,          \* number of pages in the DMA map
    Parts,          \* entries of the fragment map, none if there is no map
    Frag,           \* fragments of a page: 0..7
    Fixed,          \* pages of the rings and receive buffers of VIDI
    MinFree         \* pages that are kept from streams

ASSUME DmaFragAssumption ==
    /\ Pages \in 1..256
    /\ Parts \subseteq 0..29
    /\ Frag \subseteq 0..7 /\ 0 \in Frag
    /\ Fixed \subseteq 0..Pages - 1
    /\ MinFree \in Nat

VARIABLES
    busy,           \* pages that are marked busy
    dma_map_entry,  \* page of an entry of the fragment map, or NoPage
    fragments,      \* its fragments in use: dma_map_entry_fragments
    free_q, available_q,
    reqs,           \* numbers of the buffers that requests hold
    streams         \* pages that streaming clients hold

dmaVars == <<busy, dma_map_entry, fragments, free_q, available_q, reqs, streams>>
mapVars == <<dma_map_entry, fragments, free_q, available_q>>

Page == 0..Pages - 1
NoPage == 65535

Elements(q) == {q[i] : i \in 1..Len(q)}

\* q without the element e that it has once.
Without(q, e) ==
    LET k == CHOOSE i \in 1..Len(q) : q[i] = e
    IN  [i \in 1..Len(q) - 1 |-> IF i < k THEN q[i] ELSE q[i + 1]]

\* The entries are free, in their order: diva_init_dma_fragment_map.
DmaInit ==
    /\ busy = Fixed
    /\ dma_map_entry = [p \in Parts |-> NoPage]
    /\ fragments = [p \in Parts |-> {}]
    /\ free_q \in [1..Cardinality(Parts) -> Parts] /\ Elements(free_q) = Parts
    /\ \A i, j \in 1..Cardinality(Parts) : i < j => free_q[i] < free_q[j]
    /\ available_q = <<>>
    /\ reqs = {} /\ streams = {}

-----------------------------------------------------------------------------
(* Numbers of buffers *)

Number(p, f) == 32768 + 256 * f + p

IsFragment(nr) == Parts # {} /\ nr >= 32768
PartOf(nr) == nr % 256
FragOf(nr) == (nr \div 256) % 8

\* The memory that diva_dma_fragment_map_get_dma_map_entry tells.
Memory(nr) ==
    IF IsFragment(nr) THEN {<<dma_map_entry[PartOf(nr)], FragOf(nr)>>}
    ELSE {<<nr, f>> : f \in Frag}

-----------------------------------------------------------------------------
(* diva_dma_fragment_map_alloc *)

\* Mutant: any page will do.
AnyPage(nr) == nr \in Page

\* diva_alloc_dma_map_entry: the first page that is not busy.
FirstFree(nr) == nr \in Page \ busy /\ \A i \in Page : i < nr => i \in busy

\* A request longer than a fragment, or no fragment map: a page.
AllocPage(nr) ==
    /\ FirstFree(nr)
    /\ busy' = busy \cup {nr}
    /\ reqs' = reqs \cup {nr}
    /\ UNCHANGED <<mapVars, streams>>

\* Only the head is looked at.
HeadHasRoom ==
    available_q # <<>> /\ fragments[Head(available_q)] # Frag

\* Mutant: a page that is full stays where it is.
FullStays(p) == UNCHANGED available_q

\* A page that is full now goes to the end.
FullToTail(p) ==
    available_q' = IF fragments'[p] = Frag
                   THEN Append(Without(available_q, p), p) ELSE available_q

AllocFragment(f) ==
    LET p == Head(available_q)
    IN  /\ HeadHasRoom
        /\ f \in Frag \ fragments[p]
        /\ \A g \in Frag : g < f => g \in fragments[p]
        /\ fragments' = [fragments EXCEPT ![p] = @ \cup {f}]
        /\ FullToTail(p)
        /\ reqs' = reqs \cup {Number(p, f)}
        /\ UNCHANGED <<busy, dma_map_entry, free_q, streams>>

\* Another page is split, and gives its first fragment.
AllocSplit(nr) ==
    LET p == Head(free_q)
    IN  /\ Parts # {} /\ ~HeadHasRoom /\ free_q # <<>>
        /\ FirstFree(nr)
        /\ busy' = busy \cup {nr}
        /\ dma_map_entry' = [dma_map_entry EXCEPT ![p] = nr]
        /\ fragments' = [fragments EXCEPT ![p] = {0}]
        /\ free_q' = Tail(free_q)
        /\ available_q' = <<p>> \o available_q
        /\ reqs' = reqs \cup {Number(p, 0)}
        /\ UNCHANGED streams

-----------------------------------------------------------------------------
(* diva_dma_fragment_map_free *)

FreePage(nr) ==
    /\ ~IsFragment(nr)
    /\ busy' = busy \ {nr}
    /\ reqs' = reqs \ {nr}
    /\ UNCHANGED <<mapVars, streams>>

\* Mutant: the page stays busy.
PageKept(p) == UNCHANGED busy

PageFreed(p) == busy' = busy \ {dma_map_entry[p]}

\* The page has fragments in use, and goes to the head.
BackToHead(p) == available_q' = <<p>> \o Without(available_q, p)

FreeFragment(nr) ==
    LET p == PartOf(nr)
        left == fragments[p] \ {FragOf(nr)}
    IN  /\ IsFragment(nr)
        /\ fragments' = [fragments EXCEPT ![p] = left]
        /\ \/ /\ left = {}
              /\ PageFreed(p)
              /\ dma_map_entry' = [dma_map_entry EXCEPT ![p] = NoPage]
              /\ available_q' = Without(available_q, p)
              /\ free_q' = Append(free_q, p)
           \/ /\ left # {}
              /\ BackToHead(p)
              /\ UNCHANGED <<busy, dma_map_entry, free_q>>
        /\ reqs' = reqs \ {nr}
        /\ UNCHANGED streams

-----------------------------------------------------------------------------
(* Streams, and the reset of the card *)

\* IDI_SYNC_REQ_PROCESS_STREAMING_MAPPING_ALLOC_COMMAND
StreamAlloc(nr) ==
    /\ Cardinality(Page \ busy) > MinFree
    /\ FirstFree(nr)
    /\ busy' = busy \cup {nr}
    /\ streams' = streams \cup {nr}
    /\ UNCHANGED <<mapVars, reqs>>

\* IDI_SYNC_REQ_PROCESS_STREAMING_MAPPING_FREE_COMMAND
StreamFree(nr) ==
    /\ busy' = busy \ {nr}
    /\ streams' = streams \ {nr}
    /\ UNCHANGED <<mapVars, reqs>>

\* Mutant: the entries keep the bits of their fragments.
BitsKept == UNCHANGED fragments

BitsCleared ==
    fragments' = [p \in Parts |->
                     IF p \in Elements(available_q) THEN {} ELSE fragments[p]]

\* diva_reset_dma_fragment_map, then diva_reset_dma_mapping; diva_init_vidi
\* takes its pages again.  The clients have left by then.
Reset ==
    /\ BitsCleared
    /\ dma_map_entry' = [p \in Parts |->
          IF p \in Elements(available_q) THEN NoPage ELSE dma_map_entry[p]]
    /\ free_q' = free_q \o available_q
    /\ available_q' = <<>>
    /\ busy' = Fixed
    /\ reqs' = {} /\ streams' = {}

DmaNext ==
    \/ \E nr \in Page : AllocPage(nr) \/ AllocSplit(nr) \/ StreamAlloc(nr)
    \/ \E f \in Frag : AllocFragment(f)
    \/ \E nr \in reqs : FreePage(nr) \/ FreeFragment(nr)
    \/ \E nr \in streams : StreamFree(nr)
    \/ Reset

DmaSpec == DmaInit /\ [][DmaNext]_dmaVars

-----------------------------------------------------------------------------
(* Properties *)

DmaTypeOK ==
    /\ busy \subseteq Page
    /\ dma_map_entry \in [Parts -> Page \cup {NoPage}]
    /\ fragments \in [Parts -> SUBSET Frag]
    /\ free_q \in Seq(Parts) /\ available_q \in Seq(Parts)
    /\ reqs \subseteq Page \cup {Number(p, f) : p \in Parts, f \in Frag}
    /\ streams \subseteq Page

\* An entry of the fragment map is in one queue once, in available_q when
\* and only when it has a page and a fragment in use: diva_q_remove takes a
\* wrong list for the right one (diva_dma_fragment.c:219, 149).
QueuesExact ==
    /\ Elements(free_q) \cap Elements(available_q) = {}
    /\ \A q \in {free_q, available_q} : \A i, j \in 1..Len(q) : q[i] = q[j] => i = j
    /\ \A p \in Parts :
          /\ p \in Elements(available_q) <=> fragments[p] # {}
          /\ p \in Elements(free_q) <=> fragments[p] = {}
          /\ fragments[p] = {} <=> dma_map_entry[p] = NoPage

\* A page is busy when and only when somebody holds it: nothing leaks, and
\* nothing is given to a second one (diva_dma.c:100, diva_dma_fragment.c:228).
BusyExact ==
    busy = Fixed \cup streams \cup {nr \in reqs : ~IsFragment(nr)}
             \cup {dma_map_entry[p] : p \in Elements(available_q)}

\* No two requests, and no request and stream or ring, share memory, through
\* the numbers of 16 bits that stand for it (diva_dma_fragment.c:118, 178).
OneOwner ==
    /\ \A a, b \in reqs : a # b => Memory(a) \cap Memory(b) = {}
    /\ \A a \in reqs, nr \in streams \cup Fixed : Memory(a) \cap ({nr} \X Frag) = {}
    /\ streams \cap Fixed = {}
    /\ \A p \in Parts : fragments[p] = {f \in Frag : Number(p, f) \in reqs}

\* A short request is refused only if every fragment is in use and there is
\* no page, or no entry, to split: the look at the head of the queue is
\* enough (diva_dma_fragment.c:106-138).
Refused == Parts # {} /\ ~HeadHasRoom /\ (free_q = <<>> \/ Page \subseteq busy)
NoFalseShortage ==
    Refused => /\ \A p \in Parts : fragments[p] \in {{}, Frag}
               /\ Page \subseteq busy \/ \A p \in Parts : fragments[p] = Frag

\* The maps are a pool of buffers that do not overlap.
Pool == INSTANCE BufferPool WITH
            Entry <- Page,
            out <- {Memory(nr) : nr \in reqs} \cup {{nr} \X Frag : nr \in streams}
PoolSpec == Pool!Spec

\* Every piece of memory for DMA is free or has one owner, the masks and the
\* queues say which, and a short request is refused only if nothing is left
\* (diva_dma.c:100, diva_dma_fragment.c:106-138, 178, 228).
MemoryOwned ==
    DmaTypeOK /\ QueuesExact /\ BusyExact /\ OneOwner /\ NoFalseShortage
=============================================================================
