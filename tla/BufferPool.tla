------------------------------ MODULE BufferPool ----------------------------
(***************************************************************************)
(* What the DMA map and the fragment map promise together: buffers are     *)
(* handed out, given back, and never overlap.                              *)
(***************************************************************************)
CONSTANTS Entry, Frag

VARIABLE out        \* the buffers handed out, as sets of fragments of pages

\* A page, or one of its fragments.
Buffer == {{entry} \X Frag : entry \in Entry}
             \cup {{<<entry, f>>} : entry \in Entry, f \in Frag}

Init == out = {}

Get(b) == (\A c \in out : b \cap c = {}) /\ out' = out \cup {b}

Put(b) == b \in out /\ out' = out \ {b}

\* The card was reset.
Forget == out' = {}

Next == (\E b \in Buffer : Get(b)) \/ (\E b \in out : Put(b)) \/ Forget

Spec == Init /\ [][Next]_out
=============================================================================
