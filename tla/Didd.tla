-------------------------------- MODULE Didd --------------------------------
(***************************************************************************)
(* The DIDD: the table of adapters and the notification of IDI clients     *)
(* (kernel/dadapter.c).                                                    *)
(*                                                                         *)
(* Drivers add an adapter when they start it and remove it before they     *)
(* stop it; the trace driver, DIMAINT, has a descriptor of its own outside *)
(* of the table.  A client reads the table, makes a "card" of every        *)
(* adapter it finds and registers a callback for the changes; the order of *)
(* the two is a parameter.  didd_spin protects single entries only: a scan *)
(* of a table is one step for each entry, and a callback is made after the *)
(* lock on the notification entry was given up.                            *)
(***************************************************************************)
EXTENDS Integers, FiniteSets

CONSTANTS
    Adapter,        \* the adapters of the drivers
    Maint,          \* DIMAINT, the trace driver
    Client,         \* IDI clients: CAPI, user mode IDI
    Slots,          \* NEW_MAX_DESCRIPTORS
    Notifications,  \* DIVA_DIDD_MAX_NOTIFICATIONS
    ReadLen,        \* MAX_DESCRIPTORS, the descriptors a client has room for
    RegisterFirst,  \* clients register before they read, or after
    MaxAdds         \* bound: adapters added in a behaviour

Driver == Adapter \cup {Maint}
Null == "NULL"
Slot == 1..Slots

ASSUME DiddAssumption ==
    /\ IsFiniteSet(Adapter) /\ Null \notin Adapter /\ Maint \notin Adapter
    /\ Null \notin Client
    /\ Slots \in Nat \ {0} /\ Notifications \in Nat \ {0}
    /\ ReadLen \in Nat /\ ReadLen >= Slots
    /\ RegisterFirst \in BOOLEAN
    /\ MaxAdds \in Nat

VARIABLES
    HandleTable, Adapters,      \* the table and the number of entries
    MAdapter,                   \* MAdapter.request: no_printf or DIMAINT's
    NotificationTable,
    \* the driver of an adapter: add, in the table, remove
    pc, pos,                    \* where it is, index of the loop it is in
    nfy,                        \* the entry copied for the next callback
    slot,                       \* the entry to be removed
    adds,
    \* the clients
    step, cpos,                 \* where connect_didd is, index of a loop
    handle,                     \* of the notification, 0 if none
    seen,                       \* the descriptors read
    cards                       \* cards[c][d]: c's cards for adapter d

tableVars  == <<HandleTable, Adapters, MAdapter>>
driverVars == <<pc, pos, nfy, slot, adds>>
clientVars == <<step, cpos, handle, seen, cards>>
vars == <<tableVars, NotificationTable, driverVars, clientVars>>

\* The steps of connect_didd, and of the disconnection.
Steps == IF RegisterFirst
         THEN <<"register", "read", "maint", "take">>
         ELSE <<"read", "maint", "take", "register">>
Connected == 5
Leaving == 6

Init ==
    /\ HandleTable = [i \in Slot |-> Null] /\ Adapters = 0 /\ MAdapter = "no_printf"
    /\ NotificationTable = [i \in 1..Notifications |-> Null]
    /\ pc = [d \in Driver |-> "out"] /\ pos = [d \in Driver |-> 1]
    /\ nfy = [d \in Driver |-> Null] /\ slot = [a \in Adapter |-> 0]
    /\ adds = 0
    /\ step = [c \in Client |-> 0] /\ cpos = [c \in Client |-> 1]
    /\ handle = [c \in Client |-> 0] /\ seen = [c \in Client |-> {}]
    /\ cards = [c \in Client |-> [d \in Driver |-> 0]]

-----------------------------------------------------------------------------
(* diva_didd_add_descriptor *)

Goto(d, p) == pc' = [pc EXCEPT ![d] = p] /\ pos' = [pos EXCEPT ![d] = 1]

AddStart(a) ==
    /\ pc[a] = "out" /\ adds < MaxAdds
    /\ adds' = adds + 1 /\ Goto(a, "scan")
    /\ UNCHANGED <<tableVars, NotificationTable, nfy, slot, clientVars>>

\* Mutant: Adapters is not incremented.
EnterOnly(a) ==
    /\ HandleTable' = [HandleTable EXCEPT ![pos[a]] = a]
    /\ UNCHANGED Adapters

Enter(a) ==
    /\ HandleTable' = [HandleTable EXCEPT ![pos[a]] = a]
    /\ Adapters' = Adapters + 1

\* Mutant: the entry is taken without a second look under the lock.
Unused(a) == TRUE

Free(a) == HandleTable[pos[a]] = Null

\* One entry of the table, under the lock: take it, or look at the next one.
AddSlot(a) ==
    /\ pc[a] = "scan"
    /\ IF Free(a) THEN Enter(a) /\ Goto(a, "told")
       ELSE /\ IF pos[a] = Slots THEN Goto(a, "out")
               ELSE pos' = [pos EXCEPT ![a] = @ + 1] /\ UNCHANGED pc
            /\ UNCHANGED <<HandleTable, Adapters>>
    /\ UNCHANGED <<MAdapter, NotificationTable, nfy, slot, adds, clientVars>>

\* DIMAINT: no entry, MAdapter carries its request function.
AddMaint ==
    /\ pc[Maint] = "out" /\ adds < MaxAdds
    /\ adds' = adds + 1 /\ MAdapter' = "prtComp" /\ Goto(Maint, "told")
    /\ UNCHANGED <<HandleTable, Adapters, NotificationTable, nfy, slot,
                   clientVars>>

-----------------------------------------------------------------------------
(* diva_notify_adapter_change, called by both *)

\* Copy the next entry of the notification table, under the lock.
NotifyCopy(d) ==
    /\ pc[d] \in {"told", "drop"} /\ nfy[d] = Null
    /\ pos[d] <= Notifications
    /\ nfy' = [nfy EXCEPT ![d] = NotificationTable[pos[d]]]
    /\ pos' = [pos EXCEPT ![d] = @ + 1]
    /\ UNCHANGED <<tableVars, NotificationTable, pc, slot, adds, clientVars>>

\* Mutant: a card is removed that is not there.
RemoveCardAlways(n, d) == IF d = Maint THEN 0 ELSE n - 1

\* The clients' diva_add_card and divacapi_remove_card: a new card for each
\* insertion, the first card with this request function for a removal.  For
\* DIMAINT there is just dprintf.
AddCard(n, d) == IF d = Maint THEN 1 ELSE n + 1
RemoveCard(n, d) == IF d = Maint \/ n = 0 THEN 0 ELSE n - 1

\* Call the client, without the lock.
NotifyCall(d) ==
    /\ nfy[d] # Null
    /\ cards' = [cards EXCEPT ![nfy[d]][d] =
                    IF pc[d] = "told" THEN AddCard(@, d) ELSE RemoveCard(@, d)]
    /\ nfy' = [nfy EXCEPT ![d] = Null]
    /\ UNCHANGED <<tableVars, NotificationTable, pc, pos, slot, adds, step,
                   cpos, handle, seen>>

AllTold(d, p) == pc[d] = p /\ nfy[d] = Null /\ pos[d] > Notifications

AddDone(d) ==
    /\ AllTold(d, "told") /\ Goto(d, "in")
    /\ UNCHANGED <<tableVars, NotificationTable, nfy, slot, adds, clientVars>>

-----------------------------------------------------------------------------
(* diva_didd_remove_descriptor *)

\* Look the request function up, without the lock, and tell the clients.
RemoveStart(a) ==
    /\ pc[a] = "in" /\ Adapters # 0
    /\ \E i \in Slot :
         /\ HandleTable[i] = a /\ \A j \in 1..(i-1) : HandleTable[j] # a
         /\ slot' = [slot EXCEPT ![a] = i]
    /\ Goto(a, "drop")
    /\ UNCHANGED <<tableVars, NotificationTable, nfy, adds, clientVars>>

RemoveMaint ==
    /\ pc[Maint] = "in" /\ Goto(Maint, "drop")
    /\ UNCHANGED <<tableVars, NotificationTable, nfy, slot, adds, clientVars>>

Wipe(a) ==
    /\ HandleTable' = [HandleTable EXCEPT ![slot[a]] = Null]
    /\ Adapters' = Adapters - 1

RemoveDone(a) ==
    /\ AllTold(a, "drop") /\ Goto(a, "out") /\ Wipe(a)
    /\ slot' = [slot EXCEPT ![a] = 0]
    /\ UNCHANGED <<MAdapter, NotificationTable, nfy, adds, clientVars>>

RemoveMaintDone ==
    /\ AllTold(Maint, "drop") /\ Goto(Maint, "out") /\ MAdapter' = "no_printf"
    /\ UNCHANGED <<HandleTable, Adapters, NotificationTable, nfy, slot, adds,
                   clientVars>>

-----------------------------------------------------------------------------
(* The clients: connect_didd and disconnect_didd *)

At(c, s) == step[c] \in 1..4 /\ Steps[step[c]] = s
NextStep(c) == step' = [step EXCEPT ![c] = @ + 1]

Connect(c) ==
    /\ step[c] = 0
    /\ NextStep(c) /\ cpos' = [cpos EXCEPT ![c] = 1]
    /\ cards' = [cards EXCEPT ![c] = [d \in Driver |-> 0]]
    /\ UNCHANGED <<tableVars, NotificationTable, driverVars, handle, seen>>

\* Mutant: the handle of the neighbouring entry.
NextHandle(c) == IF cpos[c] = Notifications THEN 1 ELSE cpos[c] + 1

Handle(c) == cpos[c]

\* diva_register_adapter_callback: one entry, under the lock.  Without a free
\* entry the handle is 0, which is reported as a success all the same.
Register(c) ==
    /\ At(c, "register")
    /\ IF NotificationTable[cpos[c]] = Null
       THEN /\ NotificationTable' = [NotificationTable EXCEPT ![cpos[c]] = c]
            /\ handle' = [handle EXCEPT ![c] = Handle(c)]
            /\ NextStep(c) /\ UNCHANGED cpos
       ELSE /\ IF cpos[c] = Notifications THEN NextStep(c) /\ UNCHANGED cpos
               ELSE cpos' = [cpos EXCEPT ![c] = @ + 1] /\ UNCHANGED step
            /\ UNCHANGED <<NotificationTable, handle>>
    /\ UNCHANGED <<tableVars, driverVars, seen, cards>>

\* diva_didd_read_adapter_array with n adapters in the table and room for len
\* descriptors: what it writes, MAdapter and DAdapter included, and returns.
ReadArray(n, len) ==
    LET t == IF n < len THEN n ELSE len
        m == IF t < len THEN t + 1 ELSE t
        d == IF m < len THEN m + 1 ELSE m
    IN [written |-> d, rc |-> IF d = len THEN 1 ELSE 0]

InTable == {a \in Adapter : \E i \in Slot : HandleTable[i] = a}

\* diva_didd_read_adapter_array, the table, under the lock: there is room for
\* all of it.
Read(c) ==
    /\ At(c, "read") /\ NextStep(c)
    /\ seen' = [seen EXCEPT ![c] = InTable]
    /\ UNCHANGED <<tableVars, NotificationTable, driverVars, cpos, handle,
                   cards>>

\* ... then MAdapter and DAdapter as far as they fit, without the lock.  A
\* client that does not find DADAPTER cannot register and gives up.
ReadMaint(c) ==
    /\ At(c, "maint")
    /\ LET n == Cardinality(seen[c]) IN
       IF ~RegisterFirst /\ n + 2 > ReadLen
       THEN /\ step' = [step EXCEPT ![c] = 0]
            /\ seen' = [seen EXCEPT ![c] = {}]
       ELSE /\ NextStep(c)
            /\ seen' = IF MAdapter # "no_printf" /\ n < ReadLen
                       THEN [seen EXCEPT ![c] = @ \cup {Maint}] ELSE seen
    /\ UNCHANGED <<tableVars, NotificationTable, driverVars, cpos, handle,
                   cards>>

\* A card for every descriptor that was read.
Take(c) ==
    /\ At(c, "take") /\ NextStep(c)
    /\ cards' = [cards EXCEPT ![c] =
                    [d \in Driver |-> IF d \in seen[c] THEN AddCard(@[d], d)
                                      ELSE @[d]]]
    /\ seen' = [seen EXCEPT ![c] = {}]
    /\ UNCHANGED <<tableVars, NotificationTable, driverVars, cpos, handle>>

\* diva_remove_adapter_callback, and then the client removes its cards.
Unregister(c) ==
    /\ step[c] = Connected
    /\ step' = [step EXCEPT ![c] = Leaving]
    /\ NotificationTable' = IF handle[c] = 0 THEN NotificationTable
                            ELSE [NotificationTable EXCEPT ![handle[c]] = Null]
    /\ handle' = [handle EXCEPT ![c] = 0]
    /\ UNCHANGED <<tableVars, driverVars, cpos, seen, cards>>

Cleanup(c) ==
    /\ step[c] = Leaving
    /\ step' = [step EXCEPT ![c] = 0]
    /\ cards' = [cards EXCEPT ![c] = [d \in Driver |-> 0]]
    /\ UNCHANGED <<tableVars, NotificationTable, driverVars, cpos, handle,
                   seen>>

-----------------------------------------------------------------------------
AdapterNext == \E a \in Adapter :
                  AddStart(a) \/ AddSlot(a) \/ RemoveStart(a) \/ RemoveDone(a)

MaintNext == AddMaint \/ RemoveMaint \/ RemoveMaintDone

NotifyNext == \E d \in Driver : NotifyCopy(d) \/ NotifyCall(d) \/ AddDone(d)

ClientNext == \E c \in Client :
                  \/ Connect(c) \/ Register(c) \/ Read(c) \/ ReadMaint(c)
                  \/ Take(c) \/ Unregister(c) \/ Cleanup(c)

Next == AdapterNext \/ MaintNext \/ NotifyNext \/ ClientNext

Spec == Init /\ [][Next]_vars

-----------------------------------------------------------------------------
(* Properties *)

\* Every variable stays in its type; no loop leaves its table.
TypeOK ==
    /\ HandleTable \in [Slot -> Adapter \cup {Null}]
    /\ Adapters \in Int /\ MAdapter \in {"no_printf", "prtComp"}
    /\ NotificationTable \in [1..Notifications -> Client \cup {Null}]
    /\ pc \in [Driver -> {"out", "scan", "told", "in", "drop"}]
    /\ pos \in [Driver -> Nat \ {0}]
    /\ \A a \in Adapter : pc[a] = "scan" => pos[a] <= Slots
    /\ nfy \in [Driver -> Client \cup {Null}]
    /\ slot \in [Adapter -> 0..Slots]
    /\ adds \in 0..MaxAdds
    /\ step \in [Client -> 0..Leaving]
    /\ cpos \in [Client -> 1..Notifications]
    /\ handle \in [Client -> 0..Notifications]
    /\ seen \in [Client -> SUBSET Driver]
    /\ cards \in [Client -> [Driver -> Nat]]

Listed(d) == pc[d] \in {"told", "in", "drop"}

\* An adapter has an entry from diva_didd_add_descriptor to the end of
\* diva_didd_remove_descriptor, and one only: the entry found without the
\* lock is still the adapter's own when it is cleared under the lock.
SlotOwned ==
    /\ \A i \in Slot : HandleTable[i] # Null => Listed(HandleTable[i])
    /\ \A a \in Adapter : Listed(a) =>
         \E i \in Slot : \A j \in Slot : HandleTable[j] = a <=> j = i
    /\ \A a \in Adapter : pc[a] = "drop" =>
         slot[a] \in Slot /\ HandleTable[slot[a]] = a

\* Adapters, which gates the loops of remove and read, is the number of
\* entries in use.
AdaptersCounted == Adapters = Cardinality({i \in Slot : HandleTable[i] # Null})

\* A client that is registered and has read the table has a card for every
\* adapter whose driver is done with adding it: between the table and the
\* callbacks no adapter is missed.
NoAdapterMissed ==
    \A c \in Client, a \in Adapter :
        step[c] = Connected /\ handle[c] # 0 /\ pc[a] = "in"
          => cards[c][a] > 0

\* The table of adapters, whose entries are locked one by one, and the count
\* that gates its loops stay right (dadapter.c:124, 155, 202).
EntriesSound == TypeOK /\ SlotOwned /\ AdaptersCounted

\* What a comment of the source says and the code does not keep.

\* dadapter.c: clients are notified of every change: a client that is
\* registered has no card of an adapter that was removed.
NoStaleCard ==
    \A c \in Client, a \in Adapter :
        step[c] = Connected /\ handle[c] # 0 /\ pc[a] = "out"
          => cards[c][a] = 0
=============================================================================
