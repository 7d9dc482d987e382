------------------------------ MODULE CapiNcci ------------------------------
(***************************************************************************)
(* The NCCIs of an adapter in kernel/message.c: the numbers by which the   *)
(* applications know the network layer connections, the channels by which  *)
(* the card knows them, and for every PLCI the ring of its NCCIs.          *)
(*                                                                         *)
(* The card gives a channel to a connection and takes it back; the driver  *)
(* hears of it from the return code or the indication N_CONNECT, from      *)
(* N_DISC, and from the return code of REMOVE.  While the B channel        *)
(* protocol of a connection is changed, its network layer entity is        *)
(* removed and assigned anew, and its NCCI is kept for the new channel.    *)
(***************************************************************************)
EXTENDS Integers, FiniteSets

CONSTANTS
    Plcis,
    MaxNcci,        \* MAX_NCCI
    MaxCh,          \* MAX_NL_CHANNEL
    MaxBusy,        \* bound: channels that the card gives out at a time
    Adjusts         \* whether B protocols are changed

ConstantsOK ==
    /\ MaxNcci \in Nat \ {0} /\ MaxCh \in Nat \ {0}
    /\ MaxBusy \in Nat /\ 0 \notin Plcis /\ Adjusts \in BOOLEAN

Nccis == 1..MaxNcci
Channels == 1..MaxCh

VARIABLES
    ncci_ch, ncci_plci, ncci_next,  \* by NCCI; 0 is none
    ch_ncci,                        \* by channel
    ring,           \* plci->ncci_ring_list
    adjust,         \* the NCCI that is kept for the PLCI, 0 if none
    owner,          \* the card: the PLCI whose connection has the channel
    outside         \* an entry behind the tables was written

vars == <<ncci_ch, ncci_plci, ncci_next, ch_ncci, ring, adjust, owner, outside>>

tables == <<ncci_ch, ncci_plci, ncci_next, ch_ncci, ring>>

Init ==
    /\ ncci_ch = [n \in Nccis |-> 0] /\ ncci_plci = [n \in Nccis |-> 0]
    /\ ncci_next = [n \in Nccis |-> 0]
    /\ ch_ncci = [c \in Channels |-> 0]
    /\ ring = [p \in Plcis |-> 0] /\ adjust = [p \in Plcis |-> 0]
    /\ owner = [c \in Channels |-> 0]
    /\ outside = FALSE

-----------------------------------------------------------------------------
(* get_ncci *)

Unused == {n \in Nccis : ncci_ch[n] = 0}

Lowest(S) == CHOOSE n \in S : \A m \in S : n <= m

\* Mutant: an NCCI without a channel in ch_ncci counts as unused.
SlotUnmapped(ch) ==
    LET free == {n \in Nccis : ncci_ch[n] = 0 \/ ch_ncci[ncci_ch[n]] = 0}
    IN  IF ch \in free THEN ch ELSE IF free # {} THEN Lowest(free) ELSE ch

\* The NCCI with the number of the channel, else the lowest one unused, else
\* the number of the channel all the same.
Slot(ch) ==
    IF ch \in Unused THEN ch ELSE IF Unused # {} THEN Lowest(Unused) ELSE ch

\* Mutant: a second NCCI is put in front of the ring without closing it.
LinkedOpen(p, n) ==
    [ncci_next EXCEPT ![n] = IF ring[p] = 0 THEN n ELSE ring[p]]

\* The links with n in the ring of p, behind the one that was served last.
Linked(p, n) ==
    IF ring[p] = 0 THEN [ncci_next EXCEPT ![n] = n]
    ELSE [ncci_next EXCEPT ![n] = ncci_next[ring[p]], ![ring[p]] = n]

Mapped(n, ch) ==
    /\ ncci_ch' = [ncci_ch EXCEPT ![n] = ch]
    /\ ch_ncci' = [ch_ncci EXCEPT ![ch] = n]

\* A new NCCI for the channel.
GetNcci(p, ch) ==
    LET n == Slot(ch)
    IN  IF n \in Nccis
        THEN /\ ncci_plci' = [ncci_plci EXCEPT ![n] = p]
             /\ ncci_next' = Linked(p, n)
             /\ ring' = [ring EXCEPT ![p] = IF @ = 0 THEN n ELSE @]
             /\ Mapped(n, ch)
             /\ UNCHANGED outside
        ELSE outside' = TRUE /\ UNCHANGED tables

-----------------------------------------------------------------------------
(* ncci_remove *)

\* The links without n, and the new start of the ring.
Unlinked(p, n) ==
    LET before == CHOOSE i \in Nccis : ncci_plci[i] = p /\ ncci_next[i] = n
    IN  [links |-> [ncci_next EXCEPT ![before] = ncci_next[n], ![n] = 0],
         anchor |-> IF before = n THEN 0
                    ELSE IF ring[p] = n THEN before ELSE ring[p]]

\* The channels without the NCCIs S: cleared by the channel that n has or had.
Cleared(S) ==
    [c \in Channels |-> IF \E n \in S : ncci_ch[n] = c THEN 0 ELSE ch_ncci[c]]

Of(p) == {n \in Nccis : ncci_plci[n] = p}

\* Mutant: the channels of all its NCCIs are kept.
RemoveAllNoChannels(p) ==
    /\ ncci_ch' = [n \in Nccis |-> IF n \in Of(p) THEN 0 ELSE ncci_ch[n]]
    /\ ncci_plci' = [n \in Nccis |-> IF n \in Of(p) THEN 0 ELSE ncci_plci[n]]
    /\ ncci_next' = [n \in Nccis |-> IF n \in Of(p) THEN 0 ELSE ncci_next[n]]
    /\ ring' = [ring EXCEPT ![p] = 0]
    /\ UNCHANGED ch_ncci

\* With ncci = 0: all of the PLCI.
RemoveAll(p) ==
    /\ ch_ncci' = Cleared(Of(p))
    /\ ncci_ch' = [n \in Nccis |-> IF n \in Of(p) THEN 0 ELSE ncci_ch[n]]
    /\ ncci_plci' = [n \in Nccis |-> IF n \in Of(p) THEN 0 ELSE ncci_plci[n]]
    /\ ncci_next' = [n \in Nccis |-> IF n \in Of(p) THEN 0 ELSE ncci_next[n]]
    /\ ring' = [ring EXCEPT ![p] = 0]

\* Mutant: the end of one connection is the end of all.
RemoveOneAll(p, n) == RemoveAll(p)

RemoveOne(p, n) ==
    IF ncci_plci[n] = p
    THEN /\ ch_ncci' = Cleared({n})
         /\ ncci_ch' = [ncci_ch EXCEPT ![n] = 0]
         /\ ncci_plci' = [ncci_plci EXCEPT ![n] = 0]
         /\ ncci_next' = Unlinked(p, n).links
         /\ ring' = [ring EXCEPT ![p] = Unlinked(p, n).anchor]
    ELSE UNCHANGED tables

\* With preserve_ncci: only the channels are forgotten.
Preserve(p) ==
    /\ ch_ncci' = Cleared(Of(p))
    /\ UNCHANGED <<ncci_ch, ncci_plci, ncci_next, ring>>

-----------------------------------------------------------------------------
(* What happens to connections *)

CardGives(p, ch) ==
    /\ owner[ch] = 0 /\ Cardinality({c \in Channels : owner[c] # 0}) < MaxBusy
    /\ owner' = [owner EXCEPT ![ch] = p]

\* The card gives p a channel; the driver hears of it by N_CONNECT and maps it
\* unless it is mapped already.
Connect(p, ch) ==
    /\ adjust[p] = 0 /\ CardGives(p, ch)
    /\ IF ch_ncci[ch] = 0 THEN GetNcci(p, ch) ELSE UNCHANGED <<tables, outside>>
    /\ UNCHANGED adjust

\* N_DISC or N_DISC_ACK: with no NCCI for the channel it is ncci = 0.
Disconnect(p, ch) ==
    /\ owner[ch] = p
    /\ owner' = [owner EXCEPT ![ch] = 0]
    /\ IF ch_ncci[ch] = 0 THEN RemoveAll(p) ELSE RemoveOne(p, ch_ncci[ch])
    /\ UNCHANGED <<adjust, outside>>

Released(p) == [c \in Channels |-> IF owner[c] = p THEN 0 ELSE owner[c]]

\* The return code of REMOVE, after a change of the B protocol was started
\* for the NCCI n: p is left without channels and keeps its NCCIs.
StartAdjust(p, n) ==
    /\ Adjusts /\ adjust[p] = 0 /\ n \in Of(p)
    /\ Of(p) = {n}              \* only for protocols with one connection
    /\ owner' = Released(p)
    /\ Preserve(p)
    /\ adjust' = [adjust EXCEPT ![p] = n]
    /\ UNCHANGED outside

\* The return code of the new N_CONNECT: get_ncci with force_ncci.  A mapping
\* that exists is left alone.
FinishAdjust(p, ch) ==
    /\ adjust[p] # 0 /\ CardGives(p, ch)
    /\ IF ch_ncci[ch] = 0
       THEN Mapped(adjust[p], ch) /\ UNCHANGED <<ncci_plci, ncci_next, ring>>
       ELSE UNCHANGED tables
    /\ adjust' = [adjust EXCEPT ![p] = 0]
    /\ UNCHANGED outside

\* The call is cleared while the protocol is changed.
AbortAdjust(p) ==
    /\ adjust[p] # 0
    /\ RemoveOne(p, adjust[p])
    /\ adjust' = [adjust EXCEPT ![p] = 0]
    /\ UNCHANGED <<owner, outside>>

\* The return code of REMOVE at the end of the call, or free_plci.
RemovePlci(p) ==
    /\ owner' = Released(p)
    /\ RemoveAll(p)
    /\ adjust' = [adjust EXCEPT ![p] = 0]
    /\ UNCHANGED outside

\* send_data ends with the NCCI that it has served.
Rotate(p) ==
    /\ ring[p] # 0
    /\ ring' = [ring EXCEPT ![p] = ncci_next[ring[p]]]
    /\ UNCHANGED <<ncci_ch, ncci_plci, ncci_next, ch_ncci, adjust, owner, outside>>

Next ==
    /\ ~outside
    /\ \E p \in Plcis :
          \/ \E ch \in Channels :
                Connect(p, ch) \/ Disconnect(p, ch) \/ FinishAdjust(p, ch)
          \/ \E n \in Nccis : StartAdjust(p, n)
          \/ AbortAdjust(p) \/ RemovePlci(p) \/ Rotate(p)

Spec == Init /\ [][Next]_vars

-----------------------------------------------------------------------------
(* Properties *)

TypeOK ==
    /\ ncci_ch \in [Nccis -> {0} \cup Channels]
    /\ ncci_plci \in [Nccis -> {0} \cup Plcis]
    /\ ncci_next \in [Nccis -> {0} \cup Nccis]
    /\ ch_ncci \in [Channels -> {0} \cup Nccis]
    /\ ring \in [Plcis -> {0} \cup Nccis]
    /\ adjust \in [Plcis -> {0} \cup Nccis]
    /\ owner \in [Channels -> {0} \cup Plcis]
    /\ outside \in BOOLEAN

\* Where the ring of p leads to in up to MaxNcci steps.
Ringed(p) ==
    LET at[k \in 0..MaxNcci] ==
            IF k = 0 \/ ring[p] = 0 THEN ring[p]
            ELSE IF at[k - 1] = 0 THEN 0 ELSE ncci_next[at[k - 1]]
    IN  {at[k] : k \in 0..MaxNcci} \ {0}

\* The ring of a PLCI goes through all its NCCIs and no others and closes:
\* send_data, which goes around it until it is back, serves every connection
\* and ends (message.c:1134-1139, 1252-1264, 12366-12454).
RingExact ==
    /\ \A p \in Plcis : Ringed(p) = Of(p)
    /\ \A p \in Plcis : \A n \in Of(p) :
          \E k \in Of(p) : ncci_next[k] = n
    /\ \A n \in Nccis : ncci_plci[n] = 0 => ncci_next[n] = 0

\* A channel leads to an NCCI that is in use and knows that channel: what the
\* card says of two connections never goes to one NCCI, in whatever order
\* PLCIs come, go and change their protocols (message.c:1142-1143, 1246, 1276).
MapsAgree ==
    \A ch \in Channels :
        ch_ncci[ch] # 0 =>
            ncci_ch[ch_ncci[ch]] = ch /\ ncci_plci[ch_ncci[ch]] # 0

\* While a connection has its channel, indications and return codes for it
\* find an NCCI of its PLCI (message.c:1142, 9235, 6708).
Found ==
    \A ch \in Channels :
        owner[ch] # 0 => ch_ncci[ch] # 0 /\ ncci_plci[ch_ncci[ch]] = owner[ch]

\* The NCCI that a protocol change keeps is nobody else's when the new
\* connection is there (message.c:1094-1101, 1251, 23188).
KeptInPlace ==
    \A p \in Plcis : adjust[p] # 0 => ncci_plci[adjust[p]] = p

\* The tables are as long as they are declared: "byte ncci_ch[MAX_NCCI+1]"
\* (divacapi.h:657); get_ncci never writes behind them (message.c:1128-1143).
InTables == ~outside
=============================================================================
