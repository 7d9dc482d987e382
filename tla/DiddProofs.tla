----------------------------- MODULE DiddProofs -----------------------------
(***************************************************************************)
(* Theorems about the DIDD, for every number of adapters, clients and      *)
(* table entries.                                                          *)
(***************************************************************************)
EXTENDS Didd, FiniteSetTheorems, TLAPS

-----------------------------------------------------------------------------
(* Types *)

\* The initial state is in its type.
LEMMA InitType == ASSUME DiddAssumption PROVE Init => TypeOK
  BY DEF Init, TypeOK, DiddAssumption, Driver, Slot, Leaving

\* What the proofs of types need to know of the constants.
LEMMA Constants ==
    ASSUME DiddAssumption
    PROVE  /\ Slots \in Nat \ {0} /\ Notifications \in Nat \ {0}
           /\ MaxAdds \in Nat /\ Null \notin Client /\ Null \notin Adapter
           /\ Maint \notin Adapter /\ Adapter \subseteq Driver
           /\ Maint \in Driver
  BY DEF DiddAssumption, Driver

\* A driver enters a loop: its index is in its type and below every bound.
LEMMA GotoType ==
    ASSUME DiddAssumption, TypeOK, NEW d \in Driver,
           NEW p \in {"out", "scan", "told", "in", "drop"}, Goto(d, p)
    PROVE  /\ pc' \in [Driver -> {"out", "scan", "told", "in", "drop"}]
           /\ pos' \in [Driver -> Nat \ {0}]
           /\ \A a \in Adapter : pc'[a] = "scan" => pos'[a] <= Slots
  <1>1. pc' = [pc EXCEPT ![d] = p] /\ pos' = [pos EXCEPT ![d] = 1]
    BY DEF Goto
  <1>2. /\ pc \in [Driver -> {"out", "scan", "told", "in", "drop"}]
        /\ pos \in [Driver -> Nat \ {0}]
        /\ \A a \in Adapter : pc[a] = "scan" => pos[a] <= Slots
    BY DEF TypeOK
  <1>3. QED BY <1>1, <1>2, Constants

\* The steps of the drivers keep the types ...
LEMMA DriverType ==
    ASSUME DiddAssumption, TypeOK,
           AdapterNext \/ MaintNext \/ NotifyNext
    PROVE  TypeOK'
  <1>. USE DEF Slot
  <1>1. CASE \E a \in Adapter : AddStart(a)
    <2>1. PICK a \in Adapter : AddStart(a)
      BY <1>1
    <2>2. adds' \in 0..MaxAdds
      BY <2>1, Constants DEF AddStart, TypeOK
    <2>3. QED
      BY <2>1, <2>2, GotoType, Constants
      DEF AddStart, TypeOK, tableVars, clientVars
  <1>2. CASE \E a \in Adapter : AddSlot(a)
    <2>1. PICK a \in Adapter : AddSlot(a)
      BY <1>2
    <2>2. a \in Driver /\ pos[a] \in Slot
      BY <2>1, Constants DEF AddSlot, TypeOK
    <2>3. HandleTable' \in [Slot -> Adapter \cup {Null}] /\ Adapters' \in Int
      BY <2>1 DEF AddSlot, Enter, TypeOK
    <2>4. /\ pc' \in [Driver -> {"out", "scan", "told", "in", "drop"}]
          /\ pos' \in [Driver -> Nat \ {0}]
          /\ \A b \in Adapter : pc'[b] = "scan" => pos'[b] <= Slots
      <3>1. CASE Free(a) \/ pos[a] = Slots
        BY <2>1, <2>2, <3>1, GotoType DEF AddSlot
      <3>2. CASE ~(Free(a) \/ pos[a] = Slots)
        <4>1. pc' = pc /\ pos' = [pos EXCEPT ![a] = pos[a] + 1]
          BY <2>1, <3>2 DEF AddSlot
        <4>2. pos[a] + 1 \in Nat \ {0} /\ pos[a] + 1 <= Slots
          BY <2>2, <3>2, Constants
        <4>3. QED BY <2>2, <4>1, <4>2 DEF TypeOK
      <3>3. QED BY <3>1, <3>2
    <2>5. QED BY <2>1, <2>3, <2>4 DEF AddSlot, TypeOK, clientVars
  <1>3. CASE \E a \in Adapter : RemoveStart(a)
    <2>1. PICK a \in Adapter : RemoveStart(a)
      BY <1>3
    <2>2. slot' \in [Adapter -> 0..Slots]
      BY <2>1, Constants DEF RemoveStart, TypeOK
    <2>3. QED
      BY <2>1, <2>2, GotoType, Constants
      DEF RemoveStart, TypeOK, tableVars, clientVars
  <1>4. CASE \E a \in Adapter : RemoveDone(a)
    <2>1. PICK a \in Adapter : RemoveDone(a)
      BY <1>4
    <2>2. HandleTable' \in [Slot -> Adapter \cup {Null}] /\ Adapters' \in Int
      <3>1. HandleTable' = [HandleTable EXCEPT ![slot[a]] = Null]
            /\ Adapters' = Adapters - 1
        BY <2>1 DEF RemoveDone, Wipe
      <3>2. HandleTable \in [Slot -> Adapter \cup {Null}] /\ Adapters \in Int
        BY DEF TypeOK
      <3>3. Adapters' \in Int
        BY <3>1, <3>2
      <3>4. HandleTable' \in [Slot -> Adapter \cup {Null}]
        BY <3>1, <3>2
      <3>5. QED BY <3>3, <3>4
    <2>3. slot' \in [Adapter -> 0..Slots]
      BY <2>1, Constants DEF RemoveDone, TypeOK
    <2>4. QED
      BY <2>1, <2>2, <2>3, GotoType, Constants
      DEF RemoveDone, TypeOK, clientVars
  <1>5. CASE MaintNext
    <2>1. CASE AddMaint
      <3>1. adds' \in 0..MaxAdds
        BY <2>1, Constants DEF AddMaint, TypeOK
      <3>2. QED
        BY <2>1, <3>1, GotoType, Constants DEF AddMaint, TypeOK, clientVars
    <2>2. CASE RemoveMaint
      BY <2>2, GotoType, Constants
      DEF RemoveMaint, TypeOK, tableVars, clientVars
    <2>3. CASE RemoveMaintDone
      BY <2>3, GotoType, Constants DEF RemoveMaintDone, TypeOK, clientVars
    <2>4. QED BY <1>5, <2>1, <2>2, <2>3 DEF MaintNext
  <1>6. CASE \E d \in Driver : NotifyCopy(d)
    <2>1. PICK d \in Driver : NotifyCopy(d)
      BY <1>6
    <2>2. pos[d] \in 1..Notifications
      BY <2>1, Constants DEF NotifyCopy, TypeOK
    <2>3. nfy' \in [Driver -> Client \cup {Null}]
      BY <2>1, <2>2 DEF NotifyCopy, TypeOK
    <2>4. pos' \in [Driver -> Nat \ {0}]
      BY <2>1, <2>2 DEF NotifyCopy, TypeOK
    <2>5. \A a \in Adapter : pc'[a] = "scan" => pos'[a] <= Slots
      BY <2>1, Constants DEF NotifyCopy, TypeOK
    <2>6. QED
      BY <2>1, <2>3, <2>4, <2>5 DEF NotifyCopy, TypeOK, tableVars, clientVars
  <1>7. CASE \E d \in Driver : NotifyCall(d)
    <2>1. PICK d \in Driver : NotifyCall(d)
      BY <1>7
    <2>2. nfy[d] \in Client /\ cards[nfy[d]] \in [Driver -> Nat]
      BY <2>1 DEF NotifyCall, TypeOK
    <2>3. AddCard(cards[nfy[d]][d], d) \in Nat
          /\ RemoveCard(cards[nfy[d]][d], d) \in Nat
      BY <2>2 DEF AddCard, RemoveCard
    <2>4. cards' \in [Client -> [Driver -> Nat]]
      BY <2>1, <2>2, <2>3 DEF NotifyCall, TypeOK
    <2>5. nfy' \in [Driver -> Client \cup {Null}]
      BY <2>1 DEF NotifyCall, TypeOK
    <2>6. QED BY <2>1, <2>4, <2>5 DEF NotifyCall, TypeOK, tableVars
  <1>8. CASE \E d \in Driver : AddDone(d)
    BY <1>8, GotoType DEF AddDone, TypeOK, tableVars, clientVars
  <1>9. QED BY <1>1, <1>2, <1>3, <1>4, <1>5, <1>6, <1>7, <1>8
            DEF AdapterNext, NotifyNext

\* ... and so do those of the clients.
LEMMA ClientType ==
    ASSUME DiddAssumption, TypeOK, ClientNext
    PROVE  TypeOK'
  <1>1. PICK c \in Client :
           \/ Connect(c) \/ Register(c) \/ Read(c) \/ ReadMaint(c)
           \/ Take(c) \/ Unregister(c) \/ Cleanup(c)
    BY DEF ClientNext
  <1>2. UNCHANGED <<tableVars, driverVars>>
    BY <1>1 DEF Connect, Register, Read, ReadMaint, Take, Unregister, Cleanup
  <1>3. step' \in [Client -> 0..Leaving]
    <2>1. step \in [Client -> 0..6]
      BY DEF TypeOK, Leaving
    <2>2. \E n \in 0..6 : step' = [step EXCEPT ![c] = n]
      BY <1>1, <2>1 DEF Connect, Register, Read, ReadMaint, Take, Unregister,
         Cleanup, NextStep, At, Leaving, Connected
    <2>3. QED BY <2>1, <2>2 DEF Leaving
  <1>4. cpos' \in [Client -> 1..Notifications]
    <2>1. cpos \in [Client -> 1..Notifications]
      BY DEF TypeOK
    <2>2. \E n \in 1..Notifications : cpos' = [cpos EXCEPT ![c] = n]
      BY <1>1, <2>1, Constants DEF Connect, Register, Read, ReadMaint, Take,
         Unregister, Cleanup
    <2>3. QED BY <2>1, <2>2
  <1>5. handle' \in [Client -> 0..Notifications]
    <2>1. /\ handle \in [Client -> 0..Notifications]
          /\ cpos[c] \in 1..Notifications
      BY DEF TypeOK
    <2>2. \E n \in 0..Notifications : handle' = [handle EXCEPT ![c] = n]
      BY <1>1, <2>1, Constants DEF Connect, Register, Read, ReadMaint, Take,
         Unregister, Cleanup, Handle
    <2>3. QED BY <2>1, <2>2
  <1>6. NotificationTable' \in [1..Notifications -> Client \cup {Null}]
    BY <1>1 DEF Connect, Register, Read, ReadMaint, Take, Unregister, Cleanup,
       TypeOK
  <1>7. seen' \in [Client -> SUBSET Driver]
    <2>1. seen \in [Client -> SUBSET Driver]
      BY DEF TypeOK
    <2>2. InTable \subseteq Driver /\ Maint \in Driver
      BY Constants DEF InTable
    <2>3. \E x \in SUBSET Driver : seen' = [seen EXCEPT ![c] = x]
      BY <1>1, <2>1, <2>2 DEF Connect, Register, Read, ReadMaint, Take,
         Unregister, Cleanup
    <2>4. QED BY <2>1, <2>3
  <1>8. cards' \in [Client -> [Driver -> Nat]]
    <2>1. cards \in [Client -> [Driver -> Nat]]
      BY DEF TypeOK
    <2>2. \A n \in Nat, d \in Driver : AddCard(n, d) \in Nat
      BY DEF AddCard
    <2>3. \E x \in [Driver -> Nat] : cards' = [cards EXCEPT ![c] = x]
      <3>1. CASE Take(c)
        BY <2>1, <2>2, <3>1 DEF Take
      <3>2. CASE Connect(c) \/ Cleanup(c)
        BY <3>2 DEF Connect, Cleanup
      <3>3. CASE UNCHANGED cards
        BY <2>1, <3>3
      <3>4. QED
        BY <1>1, <3>1, <3>2, <3>3 DEF Register, Read, ReadMaint, Unregister
    <2>4. QED BY <2>1, <2>3
  <1>9. QED
    BY <1>2, <1>3, <1>4, <1>5, <1>6, <1>7, <1>8 DEF TypeOK, tableVars,
       driverVars

\* Every step preserves the type.
LEMMA NextType == ASSUME DiddAssumption, TypeOK, [Next]_vars PROVE TypeOK'
  <1>1. CASE UNCHANGED vars
    BY <1>1 DEF TypeOK, vars, tableVars, driverVars, clientVars
  <1>2. QED BY <1>1, DriverType, ClientType DEF Next

\* Every variable stays in its type; no loop over HandleTable or
\* NotificationTable (diva_didd_add_descriptor, diva_notify_adapter_change,
\* diva_register_adapter_callback) leaves its table.
THEOREM TypeCorrect == Spec => []TypeOK
  <1>1. Init => TypeOK
    BY InitType, DiddAssumption
  <1>2. TypeOK /\ [Next]_vars => TypeOK'
    BY NextType, DiddAssumption
  <1>3. QED BY <1>1, <1>2, PTL DEF Spec

-----------------------------------------------------------------------------
(* The table: every adapter keeps the entry it has, and Adapters counts     *)

Used == {i \in Slot : HandleTable[i] # Null}

SlotInv == TypeOK /\ SlotOwned /\ AdaptersCounted

\* A step that leaves the table alone, and every driver in or out of it.
LEMMA SlotFrame ==
    ASSUME SlotInv, TypeOK', UNCHANGED <<HandleTable, Adapters>>,
           \A a \in Adapter : Listed(a)' <=> Listed(a),
           \A a \in Adapter : pc'[a] = "drop" =>
              slot'[a] \in Slot /\ HandleTable[slot'[a]] = a
    PROVE  SlotInv'
  <1>1. \A i \in Slot : HandleTable[i] \in Adapter \cup {Null}
    BY DEF SlotInv, TypeOK
  <1>2. SlotOwned'
    BY <1>1 DEF SlotInv, SlotOwned
  <1>3. QED BY <1>2 DEF SlotInv, AdaptersCounted

\* diva_didd_add_descriptor takes a free entry.
LEMMA SlotEnter ==
    ASSUME DiddAssumption, SlotInv, TypeOK', NEW a \in Adapter, AddSlot(a),
           Free(a)
    PROVE  SlotInv'
  <1>1. /\ pos[a] \in Slot /\ HandleTable[pos[a]] = Null
        /\ HandleTable' = [HandleTable EXCEPT ![pos[a]] = a]
        /\ Adapters' = Adapters + 1
        /\ pc' = [pc EXCEPT ![a] = "told"] /\ slot' = slot /\ pc[a] = "scan"
    BY Constants DEF AddSlot, Free, Enter, Goto, SlotInv, TypeOK, Slot
  <1>2. /\ HandleTable \in [Slot -> Adapter \cup {Null}] /\ Adapters \in Int
        /\ pc \in [Driver -> {"out", "scan", "told", "in", "drop"}]
        /\ slot \in [Adapter -> 0..Slots]
    BY DEF SlotInv, TypeOK
  <1>3. \A i \in Slot : HandleTable[i] # a
    BY <1>1, <1>2, Constants DEF SlotInv, SlotOwned, Listed
  <1>4. SlotOwned'
    <2>1. ASSUME NEW i \in Slot, HandleTable'[i] # Null
          PROVE  pc'[HandleTable'[i]] \in {"told", "in", "drop"}
      <3>1. CASE i = pos[a]
        BY <1>1, <1>2, <3>1, Constants DEF Listed
      <3>2. CASE i # pos[a]
        <4>1. HandleTable'[i] = HandleTable[i] /\ HandleTable[i] # a
          BY <1>1, <1>2, <1>3, <3>2
        <4>2. Listed(HandleTable[i])
          BY <2>1, <4>1 DEF SlotInv, SlotOwned
        <4>3. QED BY <1>1, <1>2, <4>1, <4>2 DEF Listed
      <3>3. QED BY <3>1, <3>2
    <2>2. ASSUME NEW b \in Adapter, Listed(b)'
          PROVE  \E i \in Slot : \A j \in Slot : HandleTable'[j] = b <=> j = i
      <3>1. CASE b = a
        BY <1>1, <1>2, <1>3, <3>1
      <3>2. CASE b # a
        <4>1. Listed(b)
          BY <1>1, <1>2, <2>2, <3>2 DEF Listed
        <4>2. PICK i \in Slot : \A j \in Slot : HandleTable[j] = b <=> j = i
          BY <4>1 DEF SlotInv, SlotOwned
        <4>3. HandleTable[i] = b /\ i # pos[a]
          BY <1>1, <4>2, Constants
        <4>4. \A j \in Slot : HandleTable'[j] = b <=> j = i
          BY <1>1, <1>2, <3>2, <4>2, <4>3
        <4>5. QED BY <4>4
      <3>3. QED BY <3>1, <3>2
    <2>3. ASSUME NEW b \in Adapter, pc'[b] = "drop"
          PROVE  slot'[b] \in Slot /\ HandleTable'[slot'[b]] = b
      <3>1. b # a /\ pc[b] = "drop"
        BY <1>1, <1>2, <2>3, Constants
      <3>2. slot[b] \in Slot /\ HandleTable[slot[b]] = b
        BY <3>1 DEF SlotInv, SlotOwned
      <3>3. slot[b] # pos[a]
        BY <1>1, <3>2, Constants
      <3>4. QED BY <1>1, <1>2, <3>2, <3>3
    <2>4. QED BY <2>1, <2>2, <2>3 DEF SlotOwned, Listed
  <1>5. AdaptersCounted'
    <2>1. Used' = Used \cup {pos[a]} /\ pos[a] \notin Used
      BY <1>1, <1>2, Constants DEF Used
    <2>2. IsFiniteSet(Used)
      BY FS_Interval, FS_Subset, Constants DEF Used, Slot
    <2>3. Cardinality(Used') = Cardinality(Used) + 1
      BY <2>1, <2>2, FS_AddElement
    <2>4. QED BY <1>1, <2>3 DEF AdaptersCounted, SlotInv, Used
  <1>6. QED BY <1>4, <1>5 DEF SlotInv

\* diva_didd_remove_descriptor clears the entry it found before.
LEMMA SlotWipe ==
    ASSUME DiddAssumption, SlotInv, TypeOK', NEW a \in Adapter, RemoveDone(a)
    PROVE  SlotInv'
  <1>. DEFINE k == slot[a]
  <1>1. /\ pc[a] = "drop"
        /\ HandleTable' = [HandleTable EXCEPT ![k] = Null]
        /\ Adapters' = Adapters - 1
        /\ pc' = [pc EXCEPT ![a] = "out"]
        /\ slot' = [slot EXCEPT ![a] = 0]
    BY DEF RemoveDone, AllTold, Wipe, Goto
  <1>2. /\ HandleTable \in [Slot -> Adapter \cup {Null}] /\ Adapters \in Int
        /\ pc \in [Driver -> {"out", "scan", "told", "in", "drop"}]
        /\ slot \in [Adapter -> 0..Slots]
    BY DEF SlotInv, TypeOK
  <1>3. k \in Slot /\ HandleTable[k] = a
    BY <1>1 DEF SlotInv, SlotOwned
  <1>4. \A j \in Slot : HandleTable[j] = a <=> j = k
    BY <1>1, <1>3 DEF SlotInv, SlotOwned, Listed
  <1>. HIDE DEF k
  <1>5. SlotOwned'
    <2>1. ASSUME NEW i \in Slot, HandleTable'[i] # Null
          PROVE  pc'[HandleTable'[i]] \in {"told", "in", "drop"}
      <3>1. i # k /\ HandleTable'[i] = HandleTable[i] /\ HandleTable[i] # a
        BY <1>1, <1>2, <1>3, <1>4, <2>1
      <3>2. Listed(HandleTable[i])
        BY <2>1, <3>1 DEF SlotInv, SlotOwned
      <3>3. QED BY <1>1, <1>2, <3>1, <3>2 DEF Listed
    <2>2. ASSUME NEW b \in Adapter, Listed(b)'
          PROVE  \E i \in Slot : \A j \in Slot : HandleTable'[j] = b <=> j = i
      <3>1. b # a /\ Listed(b)
        BY <1>1, <1>2, <2>2, Constants DEF Listed
      <3>2. PICK i \in Slot : \A j \in Slot : HandleTable[j] = b <=> j = i
        BY <3>1 DEF SlotInv, SlotOwned
      <3>3. i # k
        BY <1>3, <3>1, <3>2
      <3>4. \A j \in Slot : HandleTable'[j] = b <=> j = i
        BY <1>1, <1>2, <1>3, <3>2, <3>3, Constants
      <3>5. QED BY <3>4
    <2>3. ASSUME NEW b \in Adapter, pc'[b] = "drop"
          PROVE  slot'[b] \in Slot /\ HandleTable'[slot'[b]] = b
      <3>1. b # a /\ pc[b] = "drop"
        BY <1>1, <1>2, <2>3, Constants
      <3>2. slot[b] \in Slot /\ HandleTable[slot[b]] = b
        BY <3>1 DEF SlotInv, SlotOwned
      <3>3. slot[b] # k
        BY <1>3, <3>1, <3>2
      <3>4. QED BY <1>1, <1>2, <3>1, <3>2, <3>3
    <2>4. QED BY <2>1, <2>2, <2>3 DEF SlotOwned, Listed
  <1>6. AdaptersCounted'
    <2>1. Used' = Used \ {k} /\ k \in Used
      BY <1>1, <1>2, <1>3, Constants DEF Used
    <2>2. IsFiniteSet(Used)
      BY FS_Interval, FS_Subset, Constants DEF Used, Slot
    <2>3. Cardinality(Used') = Cardinality(Used) - 1
      BY <2>1, <2>2, FS_RemoveElement
    <2>4. QED BY <1>1, <2>3 DEF AdaptersCounted, SlotInv, Used
  <1>7. QED BY <1>5, <1>6 DEF SlotInv

\* Every step preserves the invariant of the table.
LEMMA SlotNext ==
    ASSUME DiddAssumption, SlotInv, [Next]_vars
    PROVE  SlotInv'
  <1>1. TypeOK'
    BY NextType DEF SlotInv
  <1>2. pc \in [Driver -> {"out", "scan", "told", "in", "drop"}]
        /\ slot \in [Adapter -> 0..Slots]
    BY DEF SlotInv, TypeOK
  <1>3. CASE AdapterNext
    <2>1. PICK a \in Adapter :
             AddStart(a) \/ AddSlot(a) \/ RemoveStart(a) \/ RemoveDone(a)
      BY <1>3 DEF AdapterNext
    <2>2. CASE AddStart(a)
      BY <1>1, <1>2, <2>2, SlotFrame, Constants
      DEF AddStart, Goto, Listed, tableVars, SlotInv, SlotOwned
    <2>3. CASE AddSlot(a) /\ Free(a)
      BY <1>1, <2>3, SlotEnter
    <2>4. CASE AddSlot(a) /\ ~Free(a)
      BY <1>1, <1>2, <2>4, SlotFrame, Constants
      DEF AddSlot, Goto, Listed, SlotInv, SlotOwned
    <2>5. CASE RemoveStart(a)
      BY <1>1, <1>2, <2>5, SlotFrame, Constants
      DEF RemoveStart, Goto, Listed, tableVars, SlotInv, SlotOwned
    <2>6. CASE RemoveDone(a)
      BY <1>1, <2>6, SlotWipe
    <2>7. QED BY <2>1, <2>2, <2>3, <2>4, <2>5, <2>6
  <1>4. CASE MaintNext
    <2>1. /\ UNCHANGED <<HandleTable, Adapters, slot>>
          /\ \A a \in Adapter : pc'[a] = pc[a]
      BY <1>2, <1>4, Constants
      DEF MaintNext, AddMaint, RemoveMaint, RemoveMaintDone, Goto, tableVars
    <2>2. QED BY <1>1, <2>1, SlotFrame DEF Listed, SlotInv, SlotOwned
  <1>5. CASE NotifyNext
    <2>1. UNCHANGED <<HandleTable, Adapters, slot>>
      BY <1>5 DEF NotifyNext, NotifyCopy, NotifyCall, AddDone, tableVars
    <2>2. \A a \in Adapter :
             pc'[a] = pc[a] \/ (pc[a] = "told" /\ pc'[a] = "in")
      <3>1. CASE \E d \in Driver : NotifyCopy(d) \/ NotifyCall(d)
        BY <3>1 DEF NotifyCopy, NotifyCall
      <3>2. CASE \E d \in Driver : AddDone(d)
        BY <1>2, <3>2, Constants DEF AddDone, AllTold, Goto
      <3>3. QED BY <1>5, <3>1, <3>2 DEF NotifyNext
    <2>3. QED BY <1>1, <2>1, <2>2, SlotFrame DEF Listed, SlotInv, SlotOwned
  <1>6. CASE ClientNext
    <2>1. UNCHANGED <<tableVars, driverVars>>
      BY <1>6 DEF ClientNext, Connect, Register, Read, ReadMaint, Take,
         Unregister, Cleanup
    <2>2. QED
      BY <1>1, <2>1, SlotFrame
      DEF Listed, SlotInv, SlotOwned, tableVars, driverVars
  <1>7. CASE UNCHANGED vars
    BY <1>1, <1>7, SlotFrame
    DEF vars, Listed, SlotInv, SlotOwned, tableVars, driverVars
  <1>8. QED BY <1>3, <1>4, <1>5, <1>6, <1>7 DEF Next

\* The table is empty at first.
LEMMA InitSlot == ASSUME DiddAssumption, Init PROVE SlotInv
  <1>2. \A i \in Slot : HandleTable[i] = Null
    BY DEF Init
  <1>3. {i \in Slot : HandleTable[i] # Null} = {}
    BY <1>2
  <1>4. AdaptersCounted
    BY <1>3, FS_EmptySet DEF AdaptersCounted, Init
  <1>5. \A a \in Adapter : pc[a] = "out"
    BY DEF Init, Driver
  <1>6. SlotOwned
    BY <1>2, <1>5 DEF SlotOwned, Listed
  <1>7. QED BY <1>4, <1>6, InitType, DiddAssumption DEF SlotInv

\* An adapter has one entry of HandleTable from the time it is added to the
\* time it is removed, the entry that diva_didd_remove_descriptor found
\* without the lock is still its own when it clears it, and the counter
\* Adapters is right, whatever the drivers and clients do at the same time.
THEOREM TableSound == Spec => [](SlotOwned /\ AdaptersCounted)
  <1>1. Init => SlotInv
    BY InitSlot, DiddAssumption
  <1>2. SlotInv /\ [Next]_vars => SlotInv'
    BY SlotNext, DiddAssumption
  <1>3. SlotInv => SlotOwned /\ AdaptersCounted
    BY DEF SlotInv
  <1>4. QED BY <1>1, <1>2, <1>3, PTL DEF Spec

\* In particular the number of adapters, which gates the loops of remove and
\* read, never goes wrong (dadapter.c:133, 160).
THEOREM CountSound == Spec => []AdaptersCounted
  BY TableSound, PTL

\* The table of adapters is right although its entries are locked one by one
\* and removal looks up without a lock (dadapter.c:124, 155): no loop leaves it,
\* every adapter owns one entry, and the count is exact.
THEOREM EntriesSafe == Spec => []EntriesSound
  BY TypeCorrect, TableSound, PTL DEF EntriesSound

-----------------------------------------------------------------------------
(* Clients that register first miss no adapter                              *)

\* A client that is registered has a card for the adapter, will read it from
\* the table, has read it, or will be called back about it.
Covered(c, a) ==
    \/ cards[c][a] > 0
    \/ step[c] = 2
    \/ step[c] \in {3, 4} /\ a \in seen[c]
    \/ pc[a] = "told" /\ (pos[a] <= handle[c] \/ nfy[a] = c)

RegInv ==
    \A c \in Client : handle[c] # 0 =>
        /\ step[c] \in 2..5
        /\ NotificationTable[handle[c]] = c

NotifyInv == \A d \in Driver : nfy[d] # Null => pc[d] \in {"told", "drop"}

MissInv ==
    /\ SlotInv /\ RegInv /\ NotifyInv
    /\ \A c \in Client, a \in Adapter :
         handle[c] # 0 /\ pc[a] \in {"told", "in"} => Covered(c, a)

\* Which step a client that registers first is in.
LEMMA StepNames ==
    ASSUME RegisterFirst, NEW c \in Client, step[c] \in 0..6
    PROVE  /\ At(c, "register") <=> step[c] = 1
           /\ At(c, "read") <=> step[c] = 2
           /\ At(c, "maint") <=> step[c] = 3
           /\ At(c, "take") <=> step[c] = 4
  BY DEF At, Steps

\* The types the invariant needs.
LEMMA MissTypes ==
    ASSUME DiddAssumption, TypeOK
    PROVE  /\ step \in [Client -> 0..6]
           /\ handle \in [Client -> 0..Notifications]
           /\ cpos \in [Client -> 1..Notifications]
           /\ NotificationTable \in [1..Notifications -> Client \cup {Null}]
           /\ cards \in [Client -> [Driver -> Nat]]
           /\ seen \in [Client -> SUBSET Driver]
           /\ pc \in [Driver -> {"out", "scan", "told", "in", "drop"}]
           /\ pos \in [Driver -> Nat \ {0}]
           /\ nfy \in [Driver -> Client \cup {Null}]
           /\ Notifications \in Nat \ {0}
           /\ Null \notin Client /\ Adapter \subseteq Driver
           /\ Maint \notin Adapter
  BY Constants DEF TypeOK, Leaving

\* A step of a driver d keeps every client covered that is not concerned.
LEMMA MissDriver ==
    ASSUME DiddAssumption, MissInv, AdapterNext \/ MaintNext \/ NotifyNext
    PROVE  /\ RegInv' /\ NotifyInv'
           /\ \A c \in Client, a \in Adapter :
                handle'[c] # 0 /\ pc'[a] \in {"told", "in"} => Covered(c, a)'
  <1>. DEFINE Kept(c, a) ==
                handle'[c] # 0 /\ pc'[a] \in {"told", "in"} => Covered(c, a)'
  <1>1. TypeOK
    BY DEF MissInv, SlotInv
  <1>2. UNCHANGED <<NotificationTable, step, cpos, handle, seen>>
    BY DEF AdapterNext, MaintNext, NotifyNext, AddStart, AddSlot, RemoveStart,
       RemoveDone, AddMaint, RemoveMaint, RemoveMaintDone, NotifyCopy,
       NotifyCall, AddDone, clientVars
  <1>3. RegInv'
    BY <1>2 DEF MissInv, RegInv
  <1>4. ASSUME NEW d \in Driver, UNCHANGED cards, UNCHANGED nfy,
               NEW p \in {"out", "scan", "told", "in", "drop"}, Goto(d, p),
               nfy[d] = Null, p = "in" => AllTold(d, "told")
        PROVE  NotifyInv' /\ \A c \in Client, a \in Adapter : Kept(c, a)
    <2>0. NotifyInv'
      BY <1>1, <1>4, MissTypes DEF MissInv, NotifyInv, Goto
    <2>1. SUFFICES ASSUME NEW c \in Client, NEW a \in Adapter,
                          handle[c] # 0, pc'[a] \in {"told", "in"}
                   PROVE  Covered(c, a)'
      BY <1>2, <2>0
    <2>2. CASE a # d
      BY <1>1, <1>2, <1>4, <2>1, <2>2, MissTypes
      DEF MissInv, Covered, Goto
    <2>3. CASE a = d /\ p = "told"
      BY <1>1, <1>2, <1>4, <2>1, <2>3, MissTypes DEF Covered, Goto
    <2>4. CASE a = d /\ p = "in"
      <3>1. Covered(c, a) /\ pc[a] = "told" /\ nfy[a] = Null
            /\ pos[a] > Notifications
        BY <1>4, <2>1, <2>4 DEF MissInv, AllTold
      <3>2. ~(pos[a] <= handle[c] \/ nfy[a] = c)
        BY <1>1, <3>1, MissTypes
      <3>3. QED BY <1>2, <1>4, <3>1, <3>2 DEF Covered
    <2>5. QED
      BY <1>1, <1>4, <2>1, <2>2, <2>3, <2>4, MissTypes DEF Goto
  <1>5. CASE AdapterNext
    <2>1. PICK a \in Adapter :
             AddStart(a) \/ AddSlot(a) \/ RemoveStart(a) \/ RemoveDone(a)
      BY <1>5 DEF AdapterNext
    <2>2. CASE AddSlot(a) /\ ~Free(a) /\ pos[a] # Slots
      <3>1. /\ UNCHANGED <<cards, nfy, pc>> /\ pc[a] = "scan"
            /\ pos' = [pos EXCEPT ![a] = @ + 1]
        BY <2>2 DEF AddSlot, clientVars
      <3>2. \A c \in Client, b \in Adapter : Kept(c, b)
        BY <1>1, <1>2, <3>1, MissTypes DEF MissInv, Covered
      <3>3. NotifyInv'
        BY <3>1 DEF MissInv, NotifyInv
      <3>4. QED BY <1>3, <3>2, <3>3
    <2>3. CASE ~(AddSlot(a) /\ ~Free(a) /\ pos[a] # Slots)
      <3>1. /\ UNCHANGED <<cards, nfy>> /\ a \in Driver /\ nfy[a] = Null
            /\ \E p \in {"out", "scan", "told", "drop"} : Goto(a, p)
        BY <1>1, <2>1, <2>3, MissTypes DEF AddStart, AddSlot, RemoveStart,
           RemoveDone, AllTold, clientVars, MissInv, NotifyInv
      <3>2. QED BY <1>3, <1>4, <3>1
    <2>4. QED BY <2>2, <2>3
  <1>6. CASE MaintNext
    <2>1. /\ UNCHANGED <<cards, nfy>> /\ Maint \in Driver /\ nfy[Maint] = Null
          /\ \E p \in {"out", "told", "drop"} : Goto(Maint, p)
      BY <1>6, Constants DEF MaintNext, AddMaint, RemoveMaint,
         RemoveMaintDone, AllTold, clientVars, MissInv, NotifyInv
    <2>2. QED BY <1>3, <1>4, <2>1
  <1>7. CASE NotifyNext
    <2>1. PICK d \in Driver : NotifyCopy(d) \/ NotifyCall(d) \/ AddDone(d)
      BY <1>7 DEF NotifyNext
    <2>2. CASE AddDone(d)
      BY <1>3, <1>4, <2>2 DEF AddDone, AllTold, clientVars
    <2>3. CASE NotifyCopy(d)
      <3>1. /\ UNCHANGED <<cards, pc>>
            /\ nfy[d] = Null
            /\ nfy' = [nfy EXCEPT ![d] = NotificationTable[pos[d]]]
            /\ pos' = [pos EXCEPT ![d] = @ + 1]
            /\ pc[d] \in {"told", "drop"}
        BY <2>3 DEF NotifyCopy, clientVars
      <3>0. NotifyInv'
        BY <1>1, <3>1, MissTypes DEF MissInv, NotifyInv
      <3>2. SUFFICES ASSUME NEW c \in Client, NEW a \in Adapter,
                            handle[c] # 0, pc[a] \in {"told", "in"}
                     PROVE  Covered(c, a)'
        BY <1>2, <1>3, <3>0, <3>1
      <3>3. Covered(c, a) /\ NotificationTable[handle[c]] = c
        BY <3>2 DEF MissInv, RegInv
      <3>4. CASE a # d
        BY <1>1, <1>2, <3>1, <3>3, <3>4, MissTypes DEF Covered
      <3>5. CASE a = d
        <4>1. nfy[a] # c
          BY <1>1, <3>1, <3>5, MissTypes
        <4>2. CASE pc[a] = "told" /\ pos[a] <= handle[c]
          <5>1. CASE pos[a] = handle[c]
            <6>1. nfy'[a] = c
              BY <1>1, <3>1, <3>3, <3>5, <5>1, MissTypes
            <6>2. QED BY <3>1, <4>2, <6>1 DEF Covered
          <5>2. CASE pos[a] # handle[c]
            <6>1. pos'[a] <= handle'[c]
              BY <1>1, <1>2, <3>1, <3>5, <4>2, <5>2, MissTypes
            <6>2. QED BY <3>1, <4>2, <6>1 DEF Covered
          <5>3. QED BY <5>1, <5>2
        <4>3. CASE ~(pc[a] = "told" /\ pos[a] <= handle[c])
          BY <1>2, <3>1, <3>3, <4>1, <4>3 DEF Covered
        <4>4. QED BY <4>2, <4>3
      <3>6. QED BY <3>4, <3>5
    <2>4. CASE NotifyCall(d)
      <3>1. /\ UNCHANGED <<pc, pos>> /\ nfy[d] \in Client
            /\ cards' = [cards EXCEPT ![nfy[d]][d] =
                  IF pc[d] = "told" THEN AddCard(@, d) ELSE RemoveCard(@, d)]
            /\ nfy' = [nfy EXCEPT ![d] = Null]
        BY <1>1, <2>4, MissTypes DEF NotifyCall
      <3>0. NotifyInv'
        BY <1>1, <3>1, MissTypes DEF MissInv, NotifyInv
      <3>2. SUFFICES ASSUME NEW c \in Client, NEW a \in Adapter,
                            handle[c] # 0, pc[a] \in {"told", "in"}
                     PROVE  Covered(c, a)'
        BY <1>2, <1>3, <3>0, <3>1
      <3>3. Covered(c, a) /\ a # Maint
        BY <1>1, <3>2, MissTypes DEF MissInv
      <3>4. CASE a # d
        <4>1. cards'[c][a] = cards[c][a] /\ nfy'[a] = nfy[a]
          BY <1>1, <3>1, <3>4, MissTypes
        <4>2. QED BY <1>2, <3>1, <3>3, <4>1 DEF Covered
      <3>5. CASE a = d /\ c = nfy[d] /\ pc[a] = "told"
        <4>1. cards'[c][a] = cards[c][a] + 1
          BY <1>1, <3>1, <3>3, <3>5, MissTypes DEF AddCard
        <4>2. cards'[c][a] > 0
          BY <1>1, <4>1, MissTypes
        <4>3. QED BY <4>2 DEF Covered
      <3>6. CASE a = d /\ c # nfy[d]
        <4>1. cards'[c][a] = cards[c][a] /\ nfy[a] # c
          BY <1>1, <3>1, <3>6, MissTypes
        <4>2. QED BY <1>2, <3>1, <3>3, <4>1 DEF Covered
      <3>7. pc[d] \in {"told", "drop"}
        BY <1>1, <3>1, MissTypes DEF MissInv, NotifyInv
      <3>8. QED BY <3>2, <3>4, <3>5, <3>6, <3>7
    <2>5. QED BY <2>1, <2>2, <2>3, <2>4
  <1>8. QED BY <1>5, <1>6, <1>7

\* A step of a client keeps itself and the other clients covered.
LEMMA MissClient ==
    ASSUME DiddAssumption, RegisterFirst, MissInv, ClientNext
    PROVE  /\ RegInv' /\ NotifyInv'
           /\ \A c \in Client, a \in Adapter :
                handle'[c] # 0 /\ pc'[a] \in {"told", "in"} => Covered(c, a)'
  <1>1. TypeOK
    BY DEF MissInv, SlotInv
  <1>2. PICK k \in Client :
           \/ Connect(k) \/ Register(k) \/ Read(k) \/ ReadMaint(k)
           \/ Take(k) \/ Unregister(k) \/ Cleanup(k)
    BY DEF ClientNext
  <1>3. UNCHANGED <<HandleTable, Adapters, MAdapter, pc, pos, nfy>>
    BY <1>2 DEF Connect, Register, Read, ReadMaint, Take, Unregister, Cleanup,
       tableVars, driverVars
  <1>4. NotifyInv'
    BY <1>3 DEF MissInv, NotifyInv
  <1>5. At(k, "register") => step[k] = 1
    BY <1>1, MissTypes, StepNames
  <1>6. /\ At(k, "read") => step[k] = 2
        /\ At(k, "maint") => step[k] = 3
        /\ At(k, "take") => step[k] = 4
    BY <1>1, MissTypes, StepNames
  <1>7. ASSUME NEW c \in Client, c # k
        PROVE  /\ handle'[c] = handle[c] /\ step'[c] = step[c]
               /\ seen'[c] = seen[c] /\ cards'[c] = cards[c]
               /\ handle[c] # 0 => NotificationTable'[handle[c]] = c
    <2>1. handle[c] # 0 => NotificationTable[handle[c]] = c
      BY DEF MissInv, RegInv
    <2>2. handle[k] # 0 => NotificationTable[handle[k]] = k
      BY DEF MissInv, RegInv
    <2>3. /\ handle'[c] = handle[c] /\ step'[c] = step[c]
          /\ seen'[c] = seen[c] /\ cards'[c] = cards[c]
      BY <1>1, <1>2, <1>7, MissTypes DEF Connect, Register, Read, ReadMaint,
         Take, Unregister, Cleanup, NextStep
    <2>4. handle[c] # 0 => NotificationTable'[handle[c]] = c
      BY <1>1, <1>2, <1>7, <2>1, <2>2, MissTypes DEF Connect, Register, Read,
         ReadMaint, Take, Unregister, Cleanup
    <2>5. QED BY <2>3, <2>4
  <1>8. /\ handle'[k] # 0 => /\ step'[k] \in 2..5
                             /\ NotificationTable'[handle'[k]] = k
        /\ \A a \in Adapter : handle'[k] # 0 /\ pc[a] \in {"told", "in"}
                                => Covered(k, a)'
    <2>1. CASE handle'[k] = 0
      BY <2>1
    <2>2. CASE Register(k) /\ handle'[k] # 0
      <3>0. step[k] = 1
        BY <1>5, <2>2 DEF Register
      <3>1. step[k] = 1 /\ handle[k] = 0
        <4>1. handle[k] # 0 => step[k] \in 2..5
          BY DEF MissInv, RegInv
        <4>2. QED BY <3>0, <4>1
      <3>2. /\ NotificationTable' = [NotificationTable EXCEPT ![cpos[k]] = k]
            /\ handle' = [handle EXCEPT ![k] = cpos[k]]
            /\ step' = [step EXCEPT ![k] = @ + 1]
        BY <2>2, <3>1 DEF Register, Handle, NextStep
      <3>3. step'[k] = 2 /\ NotificationTable'[handle'[k]] = k
        BY <1>1, <3>1, <3>2, MissTypes
      <3>4. QED BY <3>3 DEF Covered
    <2>3. CASE (Connect(k) \/ Cleanup(k)) /\ handle'[k] # 0
      <3>1. handle[k] # 0 /\ step[k] \in {0, 6}
        BY <2>3 DEF Connect, Cleanup, Leaving
      <3>2. QED BY <3>1 DEF MissInv, RegInv
    <2>4. CASE Unregister(k)
      BY <1>1, <2>4, MissTypes, <2>1 DEF Unregister
    <2>5. CASE Read(k) /\ handle'[k] # 0
      <3>1. /\ handle[k] # 0 /\ step[k] = 2 /\ step'[k] = 3
            /\ seen'[k] = InTable /\ UNCHANGED <<NotificationTable, handle>>
        BY <1>1, <1>6, <2>5, MissTypes DEF Read, NextStep
      <3>2. \A a \in Adapter : pc[a] \in {"told", "in"} => a \in InTable
        BY DEF MissInv, SlotInv, SlotOwned, Listed, InTable
      <3>3. QED BY <3>1, <3>2 DEF Covered, MissInv, RegInv
    <2>6. CASE ReadMaint(k) /\ handle'[k] # 0
      <3>1. /\ handle[k] # 0 /\ step[k] = 3 /\ step'[k] = 4
            /\ seen[k] \subseteq seen'[k]
            /\ UNCHANGED <<NotificationTable, handle, cards>>
        BY <1>1, <1>6, <2>6, MissTypes DEF ReadMaint, NextStep
      <3>2. QED BY <1>3, <3>1 DEF Covered, MissInv, RegInv
    <2>7. CASE Take(k) /\ handle'[k] # 0
      <3>1. /\ handle[k] # 0 /\ step[k] = 4 /\ step'[k] = 5
            /\ UNCHANGED <<NotificationTable, handle>>
        BY <1>1, <1>6, <2>7, MissTypes DEF Take, NextStep
      <3>2. \A a \in Adapter : cards'[k][a] =
               IF a \in seen[k] THEN AddCard(cards[k][a], a) ELSE cards[k][a]
        BY <1>1, <2>7, MissTypes DEF Take
      <3>3. \A a \in Adapter : cards[k][a] \in Nat
               /\ AddCard(cards[k][a], a) = cards[k][a] + 1
        BY <1>1, MissTypes DEF AddCard
      <3>4. \A a \in Adapter : cards[k][a] > 0 \/ a \in seen[k]
                                => cards'[k][a] > 0
        BY <3>2, <3>3
      <3>5. QED BY <1>3, <3>1, <3>4 DEF Covered, MissInv, RegInv
    <2>8. QED BY <1>2, <2>1, <2>2, <2>3, <2>4, <2>5, <2>6, <2>7
  <1>9. RegInv'
    BY <1>7, <1>8 DEF MissInv, RegInv
  <1>10. ASSUME NEW c \in Client, NEW a \in Adapter,
                handle'[c] # 0, pc'[a] \in {"told", "in"}
         PROVE  Covered(c, a)'
    <2>1. CASE c = k
      BY <1>3, <1>8, <1>10, <2>1
    <2>2. CASE c # k
      BY <1>3, <1>7, <1>10, <2>2 DEF Covered, MissInv
    <2>3. QED BY <2>1, <2>2
  <1>11. QED BY <1>4, <1>9, <1>10

\* A client that registers its callback before it reads the table, as
\* dadapter.c supposes, has a card for every adapter that was added: what is
\* added between the two steps is in the table, or the callback tells it.
THEOREM NoneMissed == ASSUME RegisterFirst PROVE Spec => []NoAdapterMissed
  <1>1. Init => MissInv
    <2>1. SUFFICES ASSUME Init PROVE MissInv
      OBVIOUS
    <2>2. SlotInv
      BY <2>1, InitSlot, DiddAssumption
    <2>3. /\ \A c \in Client : handle[c] = 0
          /\ \A d \in Driver : nfy[d] = Null
      BY <2>1 DEF Init
    <2>4. QED BY <2>2, <2>3 DEF MissInv, RegInv, NotifyInv
  <1>2. MissInv /\ [Next]_vars => MissInv'
    <2>1. SUFFICES ASSUME MissInv, [Next]_vars PROVE MissInv'
      OBVIOUS
    <2>2. SlotInv'
      BY <2>1, SlotNext, DiddAssumption DEF MissInv
    <2>3. CASE AdapterNext \/ MaintNext \/ NotifyNext
      BY <2>1, <2>2, <2>3, MissDriver, DiddAssumption DEF MissInv
    <2>4. CASE ClientNext
      BY <2>1, <2>2, <2>4, MissClient, DiddAssumption DEF MissInv
    <2>5. CASE UNCHANGED vars
      BY <2>1, <2>2, <2>5 DEF MissInv, RegInv, NotifyInv, Covered, vars, tableVars,
         driverVars, clientVars
    <2>6. QED BY <2>1, <2>3, <2>4, <2>5 DEF Next
  <1>3. MissInv => NoAdapterMissed
    <2>1. SUFFICES ASSUME MissInv, NEW c \in Client, NEW a \in Adapter,
                          step[c] = 5, handle[c] # 0, pc[a] = "in"
                   PROVE  cards[c][a] > 0
      BY DEF NoAdapterMissed, Connected
    <2>2. Covered(c, a)
      BY <2>1 DEF MissInv
    <2>3. QED BY <2>1, <2>2 DEF Covered
  <1>4. QED BY <1>1, <1>2, <1>3, PTL DEF Spec
=============================================================================
