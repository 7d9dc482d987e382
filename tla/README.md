# Models and proofs for the divas4linux kernel drivers

divas4linux drives Dialogic (formerly Eicon) Diva ISDN and media cards.  Its
own logic is in `src/kernel`: the XDI driver that talks to the cards, the DIDD
that introduces adapters to their users, and the users themselves (CAPI 2.0,
user mode IDI, trace driver, TTY).  This directory holds TLA+ models of that
logic, TLC configurations that check them on small instances, and TLAPS proofs
that hold for every instance.

`PROJECT.json` names, for every definition that models code, the lines it
stands for; it also lists the runs, one mutant of the code for every property
(a plausible bug the property finds), the hazards of the code with the
properties that cover them, and the findings.

## 1. Inventory

Paths are relative to `src/kernel` unless they say otherwise.

| Part | Source | State | Operations | Modules |
|---|---|---|---|---|
| XDI request path | `io.c`, `di.c` | entity table `e_tbl` with its links, request queue, assign list, `IdTable`, flow control tables, the `More` byte of each entity, request buffers of the shared memory | `request`, `DIDpcRoutine`, `pr_out`, `pr_ready`, `pr_dpc`, `isdn_rc` | `XdiReq` |
| XDI indications | `di.c` | `RNRId`, receive buffers of the shared memory, `RNR`, `RNum`, `RCurrent` of the entity | second half of `pr_dpc`, `isdn_ind` | `XdiInd` |
| VIDI transport | `vidi_di.c` | two message rings with their credits, queues of acknowledges, free and used RNR queues, RNR timer, out of band queue, page fragments | `vidi_host_pr_out`, `vidi_host_pr_dpc`, `vidi_dispatch_ind`, `diva_process_rnr_ind` | `Vidi` |
| Trace polling | `vidi_di.c`, `io.c` | `request_flags`, `pcm_data`, `pcm_state` | `vidi_pcm_req`, stop of the card | `VidiXlog` |
| DIDD | `dadapter.c`, `diddfunc.c` | `HandleTable`, `NotificationTable`, `Adapters`, `MAdapter` | add, remove, read, register, unregister, notify | `Didd` |
| DMA map, fragments | `diva_dma.c`, `diva_dma_fragment.c` | busy flags of descriptors; free and available queues of pages with bit masks | alloc, free, reset | `DmaFrag` |
| Lists | `dlist.c` | doubly linked lists | add, insert, remove, find | `DList` |
| Data queues | `dqueue.c`, `debug.c` | ring of messages of variable length | alloc, complete, peek, free | `MsgQueue` |
| Trace driver | `debug.c`, `mntfunc.c`, `maintidi.c` | message ring, buffer for interrupts, client table, trace entities | register, log, read, acknowledge, set masks | `MaintRing` |
| User mode IDI | `um_idi.c`, `divasi.c` | entities with message queues, status bits and counts, list of late cleanups | open, read, write, close, callbacks, watchdog, adapter removal | `UmIdi` |
| CAPI: calls | `message.c` | PLCIs with their states, free list, `listen_active`, `c_ind_mask_table`, requests in `RBuffer` | CONNECT, DISCONNECT and LISTEN messages, `sig_ind`, `control_rc`, `CapiRelease`, `plci_remove` | `CapiCall` |
| CAPI: command queue | `message.c` | `msg_in_queue` of a PLCI | `api_put`, its end in `callback`, `plci_free_msg_in_queue` | `PlciQueue` |
| CAPI: NCCIs | `message.c` | `ncci_ch`, `ncci_plci`, `ncci_next`, `ch_ncci`, `ncci_ring_list` | `get_ncci`, `ncci_remove`, protocol change | `CapiNcci` |
| CAPI: data out | `message.c` | transmit buffers, `DBuffer`, `DataAck`, `nl_req`, `send_disc`, flow control table | DATA_B3_REQ, DISCONNECT_B3_REQ, RESET_B3_REQ, `send_data`, `data_rc`, `data_ack` | `CapiData` |
| CAPI: data in | `message.c`, `capifunc.c` | pool of receive buffers, `ch_flow_control`, flow control ring | `nl_ind`, DATA_B3_RESP, DISCONNECT_B3_RESP, `channel_*` | `CapiFlow` |
| CAPI: the rest | `message.c`, `capifunc.c`, `capidtmf.c` | internal commands, supplementary services, codecs, mixer, fax | some hundred functions | |
| Configuration library | `cfglib.c` | parsed configuration, notification list | set, read, notify | |
| Driver framework | `divasmain.c`, `divasfunc.c`, `os_*.c`, `s_*.c` | soft ISR, adapter list, registers | probe, start, stop, reset, interrupt | |
| Other users | `i4l_idi.c`, `divahsi.c`, `src/tty_module` | one state machine each | as CAPI | |
| Tools | `src/divactrl`, `src/divastrace`, `src/dialog`, `src/scripts` | files, user mode processes | load, trace, configure | |

**How they interact.**  A client finds the adapters through the DIDD and calls
`request()` of the descriptor.  `request()` queues the client's ENTITY and
schedules the soft ISR of the adapter.  The soft ISR copies requests to the
card (`pr_out`) and calls the client's callback with return codes and
indications (`pr_dpc`); the callback may call `request()` again, since only a
short lock (`data_spin_lock`) is taken.  Cards with a message interface use
the same `request()` and soft ISR, but `vidi_di.c` for both directions: a ring
of requests and a ring of indications in host memory.  The DIDD tells clients
of adapters that come and go by callbacks, outside of its lock.  The user mode
IDI queues what its callbacks get in two rings of `dqueue.c`, the trace driver
has such a ring for everyone's messages, VIDI takes the pages of its requests
from the DMA maps.  The CAPI driver has two entities of the XDI for each PLCI,
one for signalling and one for the network layer, sends one request at a time
on each, and works off what the applications ask for meanwhile later, under one
lock (`api_lock`).

**What is hard here, and what makes each part correct.**

* *Request path.*  `request()` runs at any moment against a soft ISR that runs
  once for many wakeups.  The busy flag, a counter in four bits of a byte, the
  queue links and the assign list all share the entity and its slot.  Return
  codes of several kinds (answers, start and end of flow control, answers to a
  REMOVE) are told apart by tables that are filled at different moments.  Byte
  counters wrap around.  Correct means: an entity is queued once, slots and
  Ids are neither lost nor shared, a request is reported complete when nothing
  of it is on its way and not before, no buffer is filled twice, no wakeup is
  lost.
* *Indications of `di.c`.*  A packet comes in a chain of indications that may
  be refused (RNR) at its first one, and what is refused comes again with the
  rest behind it.  Correct means: every packet arrives once, in order, whole.
* *VIDI.*  Six kinds of messages share a ring, each counted at a place of its
  own; an indication the client cannot take is copied, or keeps its receive
  buffer, and is offered again by a timer of the card, which is switched by a
  variable that the last event overwrites.  Correct means: credits, buffers,
  acknowledges and fragments are each in one place, nothing kept for an Id is
  given to its next owner, and whatever is kept is offered again.
* *Trace polling.*  Two flags are changed without a common lock, and answers
  come when the reader has left.  Correct means: a reader gets whole messages,
  nobody writes to memory that is gone.
* *DIDD.*  Tables are scanned entry by entry, each under the lock by itself;
  callbacks run without it.  Correct means: an adapter owns one entry, and a
  client knows the adapters there are, no more and no less.
* *Lists, rings, maps.*  Links, wraps and bit masks that are right in every
  order of calls.  Correct means: they behave as sequences, queues, and a pool.
* *Trace driver.*  Messages are dropped for newer ones, and an interrupt that
  cannot wait for the lock leaves its own in between.  Correct means: the
  reader can account for every sequence number.
* *User mode IDI.*  Processes come and go while the card owes an answer, or
  never gives it.  Correct means: memory outlives the request that uses it, a
  process that waits is woken, a release ends.
* *CAPI.*  One request outstanding on an entity, one confirmation for each
  request, tables that name one connection by three numbers, a pool of buffers
  for many connections, a call that several applications are offered, and
  ends of connections that cross each other.  Correct means: each of these
  tables agrees with the others, each message is answered once, each buffer
  has one owner, and what was stopped goes on.

## 2. Modules

| Module | EXTENDS / INSTANCE | Models |
|---|---|---|
| `XdiReq` | `INSTANCE ReqFifo` | the request path and the contract of a client of it |
| `ReqFifo` | | what the request path promises: first come first served, complete after service |
| `XdiReqProofs` | `XdiReq` | type correctness, request buffers and slots; histories of the queues; `isdn_rc` |
| `XdiReqSteps` | `XdiReqProofs` | the steps of `request()`, `pr_out` and the DPC keep the histories |
| `XdiReqAnswers` | `XdiReqSteps` | the card; answers, queue, the refinement of `ReqFifo` |
| `XdiInd` | | indications of an adapter with shared memory |
| `Didd` | | the DIDD, its drivers and its clients |
| `DiddProofs` | `Didd` | type correctness, table, no adapter missed |
| `Vidi` | | the VIDI transport, from `request()` to the card's two rings |
| `VidiProofs` | `Vidi` | credits of the two rings, fragments, the card's timer |
| `VidiAcks` | `VidiProofs` | receive buffers, acknowledges and the owners of indications |
| `VidiXlog` | | reading the trace of a VIDI card, and its stop |
| `DList` | `INSTANCE ListSpec` | doubly linked lists with their pointers |
| `ListSpec` | | lists as sequences |
| `MsgQueue` | `INSTANCE MsgFifo` | the ring of messages of `dqueue.c` and `debug.c` |
| `MsgFifo` | | the ring as a queue of messages |
| `MaintRing` | `MsgQueue` | the buffer of the trace driver: the ring with its lock, writers, interrupts and reader |
| `DmaFrag` | `INSTANCE BufferPool` | pages for DMA and their fragments |
| `BufferPool` | | the maps as a pool of buffers |
| `BufferProofs` | `MsgQueue`, `DmaFrag` | of the ring: no overlap, headers, emptiness; of the pages: queues, owners, and that `DmaFrag` implements `BufferPool` |
| `UmIdi` | | user mode IDI against processes, card, watchdog and adapter removal |
| `UmIdiProofs` | `UmIdi` | when memory is freed that is in use, requests agree, no trap |
| `PlciQueue` | `INSTANCE CmdFifo` | the command queue of a PLCI |
| `CmdFifo` | | the command queue as a queue |
| `CapiCall` | | calls: PLCIs, applications, signalling |
| `CapiNcci` | | tables of NCCIs and channels |
| `CapiData` | | data from an application to the card |
| `CapiFlow` | | data from the card to an application |
| `MCXdiReq`, `MCXdiInd`, `MCDidd`, `MCVidi`, `MCUmIdi` | the module of the name | instances, model values and symmetry for TLC |
| `MCBuffers` | `MsgQueue`, `MaintRing`, `DmaFrag`, `DList`, `VidiXlog` | the memory that is shared, one part at a time |
| `MCCapi` | `CapiCall`, `CapiData`, `CapiFlow`, `CapiNcci`, `PlciQueue` | the parts of the CAPI driver, in eleven scenarios |
| `MCCapiLive` | `CapiCall`, `CapiData`, `CapiFlow`, `MaintRing` | small instances of the same, with fairness |

In the last three a behaviour belongs to one part: the variable `part` is
chosen in the initial state and never changes, the variables of the other parts
have no value, and a property of a run is the conjunction of the properties
of the parts, each for the behaviours of its part.

### 2.1 `XdiReq`

*State.*  `ent` are the ENTITY structures (`Id`, `No`, `Req`, `ReqCh`, the
`More` byte split into `XMOREC`, `XMOREP`, `XMOREF`, `XBUSY`, and `XNum`, the
fragments of 270 bytes that are left).  `tbl`, `next`, `ref` are the columns of
`e_tbl`; `head`, `tail`, `assign` its lists; `IdTable`, `fcId`, `fcSkip`,
`rmPending`, `noCancel`, `RcExt` the tables of the adapter.  `wait`, `fcPend`,
`clFc` and `clSkip` are the client's: the CAPI driver waits for each return
code before its next request and keeps flow control tables of its own.
`inbox`, `rcBuf`, `ReqInput`, `ReqOutput`, `irq` are the shared memory.

*Atomicity.*  `request()` runs under `data_spin_lock` and is one action
(`Request`).  The soft ISR takes a step for every iteration of its loops, so
that requests come between any two: `OutLook` (`pr_ready`), `OutFragment`,
`OutFinal`, `OutAssign` (one turn of `pr_out`), `OutEnd` (its tail: the batch is
given to the card, the unanswered UREMOVE leaves the tables), and one action for
every way through `isdn_rc`.  A refused ASSIGN takes two steps (`RcAssign`,
`RcAssignPost`), for the slot is freed after the callback, in which the client
may ASSIGN again.  The client's part of a callback belongs to the same step
(`ClientRc`); its next request is a step of its own.

*The card* is external: it takes the request buffers in order and answers each
of them once (an UREMOVE never), assigns Ids, refuses ASSIGNs, puts channels
under flow control and ends it at any moment, and sends the READY_INT it was
asked for.  It posts its return codes together when the host has taken the
previous ones and cleared the interrupt.  It marks the end of flow
control and the answer to a REMOVE (`Labelled`) or, as older cards, does not.

### 2.2 `Didd`

Every iteration of every loop over a table is a step (`AddSlot`, `NotifyCopy`,
`Register`), since the lock is held for one entry only; a callback is a step
after the one that copied the entry (`NotifyCall`); removal looks up without
the lock (`RemoveStart`) and clears by index after all callbacks
(`RemoveDone`).  Clients follow `connect_didd` of the CAPI and the user mode
IDI drivers, step by step, in the order given by `RegisterFirst`: FALSE is the
order of the drivers, TRUE the one that a comment of `dadapter.c` supposes.
No client of the repository registers first; the runs and the theorem for TRUE
show what the DIDD does for a client that keeps to its protocol.

### 2.3 `Vidi` and `VidiXlog`

*State.*  `reqRing` are the entries of the request ring that the card has not
read, of which the last `staged` ones are filled but not announced yet; `done`
counts entries read and not acknowledged; `pend` is
`dma_nr_pending_requests`, `nrInd` `dma_nr_pending_ind`.  `rnrq`, `hdrFree`
and `bufFree` are the used and free RNR queues, `timer` the wish for the timer
(0 none, 1 start, 2 stop), `bufAck` and `idAck` the acknowledges to be sent.

*Actions.*  The soft ISR drains the out of band queue (`Oob`), counts new
indications (`Count`), dispatches one message a step (`Sys...`, `Rc...`,
`Ind...`), then `vidi_host_pr_out` sends system messages and batches of
acknowledges (`OutSystem`), one request a step (`OutRequest`), and announces
them (`OutSync`).  A client may refuse an indication, and as often as it likes.
A `malloc` that fails is the choice to keep the receive buffer itself.

*Abstractions.*  The channel of an indication is left out: acknowledges carry
the Id only, and the card has one indication outstanding for an Id.  Data is
a fragment ("BIG") or fits into the entry ("DATA", "CTRL").

`VidiXlog` is the part of the same file that reads the trace: the reader sets
a flag in `request_flags` and waits, the soft ISR turns flags into messages,
the card's answer of one or two ring entries is copied to the buffer of the
reader that waits then.  A change of `request_flags` is a load and a store,
and with `Shared` those of several processors interleave.

### 2.4 `XdiInd`

One interrupt is a sequence of indications (`Post`); `pr_dpc` looks at one a
step (`Indicate`), with its local `RNRId`.  The client's answer to the first
indication of a chain (refuse, discard, buffers of some sizes, take it itself)
is a choice, the copy loop of `isdn_ind` with `RNum`, `RCurrent` and
`complete` fills the buffers unit by unit.  Ids of `Streamed` get their data by
DMA in one piece.  The card offers again what was marked RNR, with what comes
behind it.  `MaxRefuse` is `NCCIDataFlowCtrlTimer` of the CAPI driver, after
which the client discards.  `Grouped` says that the card keeps indications of
an Id together in an interrupt.

### 2.5 `DList`, `MsgQueue`, `MaintRing`, `DmaFrag`

These are sequential data structures, modelled with the pointers, offsets and
bit masks of the code, and shown to implement sequences, queues and a pool.

* `DList`: every operation of `dlist.c` at every legal place.
* `MsgQueue`: offsets instead of pointers, `mem` has the headers; a message is
  allocated, completed and freed by different callers, in any order allowed.
* `MaintRing` EXTENDS `MsgQueue` and calls its operations under `dbg_q_lock`:
  the holder works off a `job` list (drop until there is room, write, write
  what interrupts have left, look again at its length, reset it), a step each,
  while interrupts store their information in two steps.
* `DmaFrag`: requests of both kinds (a page, a fragment), streams that must
  leave `MinFree` pages, and the reset of the card (`Reset`).  Numbers of 16
  bits stand for buffers as in the code.  The map is shared with streams under
  `data_spin_lock`, so each operation is one step.

### 2.6 `UmIdi`

A process is a program counter through open, write (ASSIGN, data), read and
release; `remove_entity` of `divasi.c` takes a step for each turn of its two
loops.  The XDI below is reduced to what it keeps of an entity (`ref`): it
answers when it likes or not at all.  The watchdog has two parts, the flag
(`TimerExpires`) and the notification under the lock (`TimerNotifies`); nothing
holds a process back that leaves between the two.
`MaxTimeouts` is `DIVA_UM_IDI_MAX_TIMEOUTS`.

The adapter goes in the three steps of `os_pri.c:557-589`, with everything else
in between.  `RemoveAdapter` is the removal from the DIDD: entities are cleaned
up, late ones freed, who waits is woken, and the XDI goes on; a request that was
still in its queue finds its `Id` cleared, and is sent as an ASSIGN.
`ClearIds` clears `IdTable`, after which only an ASSIGN finds its entity.
`StopXdi` stops interrupts and soft ISRs; `CreateAdapter` follows.  A
return code for an entity whose memory is free changes nothing in the model:
the next owner of the memory is not followed (`Open` takes an entity of which
the XDI has nothing).

### 2.7 The CAPI driver

All of `message.c` runs under `api_lock`: a message of an application or a
callback of the XDI is one action, with everything it calls.  In `CapiData`,
`CapiFlow` and `CapiCall` the driver is a record, and the functions of the code
are operators from record to record, in the order of the code.

* `PlciQueue`: the ring of commands.  `Busy` stands for "a request or an
  internal command is outstanding", what commands do is left to the others.
* `CapiNcci`: `get_ncci` with its three searches (channel, free NCCI, last
  resort), rings through `ncci_next`, `ncci_remove` with and without
  preservation, protocol changes (`Adjusts`) in which the NCCI stays while the
  card gives its channel away.
* `CapiData`: DATA_B3_REQ with and without delivery confirmation, its transmit
  buffer, the queue of the PLCI, `send_data` around the ring of NCCIs, flow
  control (OK_FC and its end), DISCONNECT_B3_REQ at once or behind the data
  (`send_disc`), RESET_B3, N_DISC from either side.  `waiting` is what the
  application has not been confirmed.  The card answers one request at a time,
  ends flow control, acknowledges data in order, and may disconnect.
* `CapiFlow`: DATA_B3_IND and the pool `Bufs` (MaxBuffer), refusal with
  RNR, `NCCIDataFlowCtrlTimer`, XOFF marks and N_XON in its three forms
  (`channel_request_xon`, `channel_xmit_xon`, `channel_xmit_extended_xon`),
  N_DATA_ACK, connections that begin and end.  `held` is what the card keeps
  back.  The timer saturates at `DiscardAt`; in the code it counts on.  A
  channel is taken again as soon as its last connection is gone, whether or not
  DISCONNECT_B3_IND has been answered, as `get_ncci` does.  Messages of a
  connection that ended have no PLCI and change nothing (`NoPlci`), those that
  meet an unanswered request wait in `msg_in_queue` (`Waits`), and the others
  pass them (`AppOvertakes`).  `late` marks data that was given a buffer while
  an answer to the connection before was due, for the properties.
* `CapiCall`: the entities of a PLCI with the requests in `RBuffer` that are
  passed on one by one, `c_ind_mask_table`, `listen_check`, the return codes of
  CONNECT_REQ, CONNECT_RESP and DISCONNECT_REQ, HANGUP in all states,
  `plci_remove` and `plci_remove_check`, release of an application.  `told` and
  `asked` are what the applications know and wait for, `card` the call of each
  PLCI.  The card delivers the return code of a request before what the
  request causes, and answers every HANGUP with one of its own; it hangs up
  whenever it likes, whatever the applications have answered.

## 3. Runs

No run uses a state constraint; every bound is a CONSTANT in a guard.  TLC looks
for deadlocks in every run but `vidi_safe`, where the card may be stopped for an
error and everything really ends.  Where the number of messages of an instance is bounded,
the MC module has a step that changes nothing for the state in which
all of them are used up (`RingEnd`, `XlogEnd`, `MaintEnd`).

| Run | Shows |
|---|---|
| `xdi_table` | Two entities ASSIGN, REMOVE and UREMOVE against soft ISR and card.  The slot table, the queue, the assign list (which is never unlinked), `IdTable` and the request buffers stay consistent; every return code finds the entity it is meant for (`AnswersFound`: `IdTableSound`, `AssignFound`); the last UREMOVE of a run of `pr_out` is forgotten at once |
| `xdi_flow` | One entity with data in two fragments on two channels under flow control by a card that marks its end; the client sends control requests and REMOVE meanwhile, cancels return codes, and may be refused its ASSIGN.  `QueueSound`: the queue is well formed, the card is never trapped by a request to a busy entity, the counter in the `More` byte is exactly the number of return codes outstanding.  `AnswersHonest`: no request completes early, an Id is forgotten only with the answer to its REMOVE |
| `xdi_live` | Two entities with fragmented data and a single request buffer.  They take turns in the queue as `ReqFifo` says, and every request is answered: no wakeup is lost between `request()`, the soft ISR, the interrupt and the READY_INT handshake |
| `xdi_ind` | Two Ids, one with DMA, two packets each in chains of up to three indications that are refused, discarded, copied or taken, with REMOVE and ASSIGN in between.  Every packet arrives once, in order and whole; a client refuses data only so often, so all packets are done in the end |
| `didd_register` | Two adapters and DIMAINT against two clients.  `EntriesSound`: entries belong to their drivers and the counter is the number of entries; no adapter is missed by clients that register first |
| `didd_missed` | The order of the drivers of the repository, which read first: a finding, see section 5 |
| `vidi_safe` | Data, flow control and REMOVE against a card that sends indications, refuses ASSIGNs and may be stopped.  `Credits`: both rings hold what both sides count, and never more than fits.  `MemoryKept`: receive buffers and fragments are owned once and come back.  `IndicationsOwned`: kept and acknowledged indications.  `TimerRuns`: the card's timer runs while something is kept |
| `vidi_live` | A signalling entity, whose refused indications are offered every n-th tick only.  Every request is answered although other messages go first in the same ring, and every indication is acknowledged in the end |
| `um_idi` | Two processes that assign, send, read and leave in every state, a card that answers late or not at all, an adapter that goes while the XDI still works, and comes.  While the adapter is there no memory is freed that the XDI uses, but by a release that gets between the parts of the watchdog (`NoDangling`, see section 5); no request meets a busy entity, requests are counted exactly, who waits for a return code gets one (`RequestsAgree`); the release of a file ends though neither the card nor anyone else has to do anything |
| `buffers` | Five parts.  *ring*: messages of five sizes are written, completed and freed in every order.  *maint*: a driver, a thread, an interrupt and the reader of the trace share a ring.  *dma*: pages and fragments taken by requests of both kinds, streams and resets until nothing is left.  *list*: four elements move between two lists by every operation at every place.  *xlog*: two readers of a card's trace one after the other, late answers in pieces, one or several processors that change `request_flags`.  `RingSafe`: messages never overlap, headers survive, an empty ring is empty, the bytes in it are counted.  `NumbersAccounted`: the reader of the trace can account for every sequence number.  `MemoryOwned`: no page or fragment has two owners, none leaks, a request is refused only when there is none.  `TraceKept`: a reader gets whole messages in order and its buffer is left alone when it has gone.  Ring, allocator and lists implement `MsgFifo`, `BufferPool` and `ListSpec` |
| `capi` | Eleven parts.  *call*, *pair*: calls from and to two applications, or of two PLCIs on a card that may be out of entities.  *data*, *reset*: two connections that send with flow control and end, a transparent one that is reset.  *flow*, *wide*, *poll*: two connections that receive, one with more buffers, a card without N_XON; in *flow* and *wide* a channel is used again at once.  *ncci*, *adjust*: more channels than NCCIs, changes of the B protocol.  *queue*, *shared*: the commands of one and of two applications.  One property for each of the five modules: `CallsKnown`, `DataOwned`, `ReceiveOwned`, `ConnectionsMapped`, `CommandsInOrder`.  `CallsKnown` says that who gets to know of a call stays within reach of its end, and is told once, and that the PLCI waits for those who did not get it; `ReceiveOwned` that the buffer of data that was indicated is left alone until it is answered, that host and card agree which channels are stopped, and that data is refused only at the limit.  Each excepts what section 5 names |
| `capi_live` | Six small parts, *call*, *data*, *trans*, *flow*, *wide* and *maint*, with fairness.  What an application sends does not stay with the driver for ever, and a channel whose data was refused goes on, unless data of other connections fills all receive buffers and nothing is left that would start it (`DataMoves`; `Starved`, which the part *flow* reaches); what is to end ends (`EndReached`), buffers, entries and the lock of the trace ring are given back (`GivenBack`) |

### Bounds, and why they are enough

* `XdiReq`.  In `xdi_table` and `xdi_live` two entities compete for queue,
  slots and buffers; `xdi_flow` has one entity, whose two channels show that
  one channel does not end the other's flow control.  `EMax` is
  larger than the number of entities: with as many slots
  the code refuses the request and the client is not told, so nothing would
  follow.  `NReq` of 1 (`xdi_live`) or 2 with `ByteMod` of `NReq + 1` lets the
  byte counters wrap within few requests; the theorems cover 256.  `XMOREC` is
  3 instead of 15, for at most `MaxFrag` (2) fragments are outstanding.
  References of ASSIGNs are the smallest free ones (`FreshRef`).
* `XdiInd`.  Two Ids, since a chain can be interrupted by the other Id only;
  packets of up to three units with a `Chunk` of two are a whole indication, a
  first and a last one, in one interrupt of three indications or over several.
* `Didd`.  Two slots with two adapters make them compete; two notifications
  for two clients; `MaxAdds` of 2 lets an adapter leave and come back.
* `Vidi`.  `ReqMax` 2 in `vidi_safe` keeps the ring full most of the time;
  acknowledges of two handles a message make the batches and the last entry
  (which takes one handle only) differ; `IndMax` is at least 3, since one entry
  is kept and more than one must be free before it is acknowledged.  One Id
  shows its reuse by the next ASSIGN.  `OobMax` 1 fills the queue.  The
  out of band queue takes an Id once (`Xon`), the card ticks once until the
  host has looked (`CardTick`) and warns of an error only with an empty ring
  (`CardWarn`): these keep the card from flooding the ring.
* In `vidi_live` `ReqMax` is 6.  With 3 to 5 entries TLC finds that system
  messages (acknowledge, timer, Ids; those staged and those that the card has
  not acknowledged yet) can fill the ring for ever and starve requests.  With
  the 128 entries of the code this needs more messages than entities and
  receive buffers can cause in a round, so the smallest ring without the effect is the
  faithful one.
* `VidiXlog`.  Two readers (the second one is who gets a late answer), answers
  of two pieces (the wrap of `pcm_state`), three answers in all.
* `DList`.  Four elements give a head, a tail and two in the middle; two lists
  let an element move.
* `MsgQueue`.  34 bytes are not a multiple of four plus a header, the sizes
  leave every remainder of four and the largest fills the ring; five messages
  are more than two rounds.  `MaintRing` has 34 bytes, which one message of a
  driver and one of the system fill.
* `DmaFrag`.  Five pages of which three are split in two: a page that becomes
  full, one that becomes empty and one that stays, besides a fixed page and
  the two that streams must leave.
* `UmIdi`.  Two entities for two slots of the XDI, one
  message each way, and one entity the card did not answer for.  The adapter
  may go and come any number of times.
* `PlciQueue`.  34 bytes with messages of at most 7: as with `MAX_MSG_SIZE`
  and `MSG_IN_QUEUE_SIZE`, three of the longest fit beside each other.
* `CapiNcci`.  More channels than NCCIs, so that channel and NCCI differ,
  and two PLCIs for two rings; the part with protocol changes has one of each more.
* `CapiData`.  Two NCCIs for the ring of NCCIs, three transmit buffers for
  them, two of them for one.
  `CapiFlow`.  Two connections; one receive buffer is the limit itself, two
  have one state between stopped and empty, three (`MaxNCCIData`) restart the channel
  in between.  `MaxCall` and `MaxApp` bound what the application has not answered
  when a call or data comes; `MaxApp` leaves room for the end of a
  connection and the data of the next one.  `DiscardAt` is 3 in `capi`, so that
  the limit of refusals is met with and without a stop, and in `capi_live` it
  is 40, the smaller value of the code (`message.c:10111`), so that what goes on
  goes on by N_XON.
* `CapiCall`.  One PLCI and two applications in the part `call`, one that gets
  the call and one that does not, with up to two messages unanswered when the
  next call comes (`MaxBox`): the end of the last call and an offer; two PLCIs
  in `pair`.  Three applications with `MaxBox` 1 were explored to more than
  four million states without an error, not to the end.
* `capi_live`.  One transmit buffer shared by two connections can starve one of
  them; two are for the transparent connection, which keeps one for the data
  before the end.  One receive buffer for two connections is where a stopped channel
  depends on the other one; three of one connection fill, and restart the channel
  before they are empty.  In `flow` the application makes no connections, as
  requests of messages could be kept back there (`message.c:12300` in section 5).
* Instances of `Vidi` with CTRL requests too, with two entities on one Id, and
  with a network and a signalling entity (one to eight million states) were
  explored with the same invariants while the module was developed, and hold.
* *Symmetry.*  Ids, entities of one kind, channels, adapters and clients are
  interchangeable, and the runs that check safety use it where it pays; no
  liveness run does.

### Fairness

* `XdiReq` and `Vidi`: weak fairness of the soft ISR (`DpcNext`), which the
  kernel runs once it is scheduled.  The card works off its request buffers,
  posts its return codes, ends flow control it began, and sends the READY_INT
  it was asked for (weak fairness of each).  The rings of `Vidi` are worked off
  and acknowledged likewise.
* `Vidi` has strong fairness of three things that others can interrupt for
  ever: the timer ticks although it is switched off and on (`CardTick`), the
  card answers each entity although the ring of indications is full now and
  then (`CardAnswers`), and a client that is offered an indication again and
  again takes it at last (`TakenAtLast`).
* `XdiInd`: weak fairness of the card's posts, of the interrupt, of `pr_dpc`
  and of the client's answer.  The client may refuse `MaxRefuse` times.
* `MaintRing`: weak fairness of whoever holds the lock, and of the reader.
* `UmIdi`: weak fairness of the process that releases and of the kernel's
  timer, of nothing else.
* `capi_live` states one condition for an action of each of its parts (`Fair(k)`),
  since a behaviour belongs to one part; the actions are these:
* `CapiData`: weak fairness of the card's return codes, of the end of flow
  control it began, of its acknowledges and of its answers to N_DISC and N_RESET.
* `CapiFlow`: weak fairness of the card's return codes, of pending
  connections and their ends; strong fairness of the application's answers, since it
  can be given something else in between.
* `CapiCall`: weak fairness of return codes, of the card's answer to HANGUP
  and of the applications' answers to what must be answered (CONNECT_IND,
  DISCONNECT_IND).
* Clients owe nothing: no run assumes that a request is ever made.
* The other modules state no liveness property: nothing waits there.

## 4. Proofs

Every theorem holds for all values of the constants that satisfy the named
assumption of its module (`XdiAssumption`, `DiddAssumption`,
`MsgQueueAssumption`, `DmaFragAssumption`, `UmIdiAssumption`,
`VidiAssumption`: finite sets, distinct null values, `NReq < ByteMod`,
`MaxFrag <= XMOREC`, sizes below 2^15, at most 256 pages, the fragments of a
page within a byte, a ring of indications of at least three entries), and says
`Spec => []P`, except `IsPool`, `IsFifo` and `RingIsFifo`, which are refinements.  Further hypotheses are
named below where a theorem has them.  `EntriesSafe`, `RingSafety`
and both theorems named `MemorySafe` put theorems about single invariants
together to the properties that the runs check.

* `XdiReqProofs!TypeCorrect`: `TypeOK` is inductive by itself.  The two parts
  that are not obvious are the counter (`XMOREC` stays within its mask because
  a data request is cut into at most `MaxFrag` fragments and counts from 0) and
  the list walks, whose results stay slots or 0.  One lemma for each action,
  over lemmas on the entity operations, the table operations and `%`.
* `XdiReqProofs!BuffersSafe`: `BuffersAccounted`.  Inductive invariant `BufInv`
  = `TypeOK`, `BuffersAccounted`, and "the batch is empty outside of `pr_out`".
  The last part is needed for the step in which `pr_ready()` is called: what it
  returns is only the room if nothing is filled already.  The arithmetic is
  that a difference modulo `ByteMod` is the number of full buffers as long as
  that is less than `ByteMod`.
* `XdiReqProofs!SlotsSafe`: `SlotsCounted`, when no client uses UREMOVE.
  Inductive invariant `SlotInv` = `TypeOK`, `SlotsCounted`, no entity has an
  UREMOVE, and "the slot that is given back after the callback of a refused
  ASSIGN is in use".  With UREMOVE the invariant needs that the Id of an
  entity names its own slot while a new one is in the table already;
  `xdi_table` checks the case.
* `XdiReqAnswers!AnswersSafe` (`AnswersFound`), `QueueSafe` (`QueueSound`),
  `AnswersHonestly` (`AnswersHonest`) and `IsFifo` (`ImplementsFifo`: `XdiReq`
  implements `ReqFifo`), on top of `Histories`.  What is to be shown speaks of
  walks through `next[]`, one array that carries the request queue and the
  assign list at once, whose links are never cleared, and of counts of
  messages.  Neither can be followed from step to step by itself.  So there is
  a *history* `g`: the slots ever queued and how many
  left, the slots ever put on the assign list and how many the card and
  `isdn_rc` are done with, every request and return code ever sent and how many
  were taken, and the stage of each entity's request.  The
  inductive invariant is `IInv` = there is a `g` with `Whole(g)`: `TypeOK`,
  `IdTableSound`, `NoTrap`, the control state of the DPC (`Ctl`), and
  - the live part of the queue is linked from `head` to `tail`, once each
    (`Queue`); the live part of the assign list is linked backwards from
    `assign`, and the card holds the ASSIGNs in the order in which they went
    out (`Assigns`, `Refs`), which is why a walk over stale links meets the
    one that is answered before it meets anything stale;
  - an Id on its way names one entity and one stage, from the ASSIGN's answer
    to the last answer to its REMOVE (`IdAt`, `Pending`);
  - `XMOREC` is the number of the live messages about the entity, and only the
    last of them may end the request (`Msgs`);
  - each channel is in one of the states of flow control, in which at most one
    return code for it is left and host and card agree whether it counts
    (`Flow`, `Flows`, `HoldAt`).

  `XdiReqProofs` defines the history and has a lemma for each kind of return
  code in `isdn_rc`, `XdiReqSteps` for the links of both lists, the steps of
  the DPC, both halves of the answer to an ASSIGN and each outcome of
  `request()` and `pr_out`, `XdiReqAnswers` for the card.
  The refinement maps the abstract queue to the walk from `head`, which the
  history turns into a sequence (`LineIs`), so that linking is an Append.
  `IInv` was checked by TLC first, with `g` as history variables, over the
  constants of the runs `xdi_flow`, `xdi_live` and `xdi_table` (without UREMOVE)
  and for two entities of which one has a channel.
  Hypotheses: `NoUremove`, for after an UREMOVE answers to the old entity meet
  the new one in its slot, and `Marked`, without which `QueueSound` is false
  (`di.c:671` in section 5).
* `DiddProofs!TypeCorrect`: no loop leaves its table.
* `DiddProofs!TableSound` and `CountSound`: `SlotOwned` and `AdaptersCounted`.
  Inductive invariant `SlotInv` = `TypeOK` and both.  The lookup without the
  lock is sound because nobody but the driver of an adapter enters or clears it.
* `DiddProofs!NoneMissed`: `NoAdapterMissed` under `RegisterFirst`.  Inductive
  invariant `MissInv` = `SlotInv`, `RegInv` (a handle names the client's own
  entry), `NotifyInv` (a copy is held only by a driver that notifies), and `Covered`: for a
  registered client and an adapter in the table, the client has a card, or has
  read it and not yet made the card, or will still read, or the driver's loop
  has not passed the client's entry or holds a copy of it.  This is the
  argument of the comment in `dadapter.c`, which fails for the other order.
* `BufferProofs`, the ring of messages: `NoOverlap` (`Disjoint`), `HeadersSafe` (`HeadersKept`),
  `EmptyRight` (`EmptyIsEmpty`), `RingType` (`TypeOK`), all for a ring of any
  size.  Inductive invariant `RingInv` = `TypeOK`, `Layout` and `HeadersKept`, where
  `Layout` says that the messages lie behind each other from `head` to the
  wrap and from 0 to `tail` (`Chain`), on multiples of four (`Aligned`) inside
  the buffer (`Bounds`), with the wrapped ones behind the others (`Placed`) and
  below `head` (`Ordered`).  `Disjoint` alone is not inductive: that a new
  message does not overlap the oldest follows from its place in the chain.
  `CountSafe` (`CountExact`): `queueCount` is the sum of the sizes, over which
  the module proves what a message appended, taken from the front or marked
  done does to it.  `RingIsFifo`: the ring implements `MsgFifo`.  By `Chain`,
  `Placed` and `Ordered` the messages lie without a gap behind `head`
  (`Offsets`), so that what `Contents` reads there, header by header, is the
  sequence `msgs` (`ContentsNow`).  That its recursive function exists, and
  what it is at each message, is shown with the least place (the last message)
  where it would fail, as an induction theorem is out of the provers' reach.
* `BufferProofs`, the DMA map: `QueuesSafe`, `NoLeak`, `NoSharing`, `HeadIsEnough` for the
  `DmaFrag` that the run `buffers` checks, and `IsPool`: `DmaFrag` implements `BufferPool`.
  Inductive invariant `MapInv`: `DmaTypeOK`, `QueuesExact`, the full pages are behind
  the others in the queue (`FullLast`), an entry of the map stands for one page
  (`OnePart`) and nobody else holds it (`HeldApart`), the requests hold numbers of
  fragments in use (`Known`), and the busy pages are exactly those that are
  held.  Only the head of the queue of pages in use is looked at by the code,
  so `FullLast` is what makes a refusal honest.
* `UmIdiProofs!NoDanglingSafe` (`NoDangling`), `NoTrapSafe` (`NoTrap`) and
  `RequestsAgreeSafe` (`RequestsAgree`).  Inductive invariant `IInv`: types,
  the counter of late cleanups is their number (`DelayedCounted`), and for each
  entity that its file, memory and timer go together (`Owned`), that the pointer
  to the adapter and what the XDI has go with the phases of its removal
  (`OfAdapter`), that the entity knows of what the XDI has (`Known`), and what holds between the calls of its
  process (`Calling`) and on the last steps of its release (`Leaving`).
  `NoDangling`, of steps, needs all of it: memory is freed at once or later depending on
  `REMOVED` and `TIMEOUT`, which the return code, the watchdog and the release
  set.  `RequestsAgree` adds `Agrees` for each entity.  Nothing is assumed of the
  timer function or of the removal of the adapter; what `NoDangling` excepts
  are the two cases in which the code frees too early (`divasi.c:621` and
  `os_pri.c:565` in section 5).  `RequestsAgree` has the hypothesis that there
  are no more entities than `Slots`, for an
  ASSIGN without a slot is dropped without a return code (`um_idi.c:2692`).
* `VidiProofs!CreditsSafe` (`Credits`), `FragmentsSafe` (`FragmentsKept`, the
  second half of `MemoryKept`) and `TimerSafe` (`TimerRuns`).  `Credits` by
  itself is not inductive: the queue of free fragments is part of its types,
  and a return code gives back the fragment of whatever entity its Id names.
  So one has to know that this is the entity that was meant, and that it has a
  request.  The invariant `IInv` says it with two ideas.
  - *Stages.*  There is a stage for each entity (no request, in the queue, in
    the ring, with the card, answered), and what is in the queue, the ring, the
    card and the ring of indications agrees with it (`Stages`), once
    (`Single`); a fragment belongs to one entity or is free (`Fragments`); only
    a channel is held by flow control (`Channels`).
  - *Two views of an Id.*  Host and card differ about the owner of an Id while
    the answer that ends it or assigns it is in the ring.  `IdAt` states, by
    positions of that ring, who a message about the Id is meant for, and that
    the host will know it when it comes to the message.

  The rest are the counts of both rings (`Locals`, `RequestCredits`,
  `IndicationCredits`: sums over a ring, for which the module proves what
  Append, Tail and SubSeq do to them) and the receive buffers of indications
  with much data.  `TimerRuns` is inductive on top of `IInv`.
* `VidiAcks!MemorySafe` (`MemoryKept`) and `IndicationsSafe`
  (`IndicationsOwned`), on top of `IInv`.  Both count: a receive buffer, or the
  indication an Id has to have acknowledged, is in one of several sequences,
  and an acknowledge names up to a message's worth of them at once.  So the
  module starts with how often something occurs in a sequence (`Cnt`) or is
  named by a sequence of messages (`Times`), what Append, Tail and
  concatenation do to it, and what happens when a queue is packed into
  messages (`Batched`).
  - `Bufs`: every receive buffer is with the card, in the ring of indications,
    kept for later, queued for its acknowledge, or named by an acknowledge in
    the ring of requests; the counts of these add up to 1.
  - `AckInv`, of each Id (`AckAt`): acknowledges never outnumber what the card
    waits for (`Acked(d) <= Due(d)`), even after the Id has lost its owner;
    while it has one, acknowledges, indications for this owner in the ring and
    entries kept for later are together exactly `Due(d)`.  The inequality
    survives a REMOVE only since every acknowledge of the Id is written before
    its REMOVE (`Last`), and this holds since `vidi_host_pr_out` writes the
    acknowledges before it looks at the request queue, and goes on to the
    requests only if none was left (`NothingLeft`).  What is kept for later
    belongs to the entity in `IdTable`, and no REMOVE of this entity is with the
    card (`RnrAt`).

  `AckInv` and `Bufs` were checked by TLC first, over the constants of
  `vidi_safe` and for two entities that get the same Id one after the other.
  This showed that an earlier form of `IndicationsOwned` was too strong: it
  counted every indication in the ring, but one that was meant for a former
  owner of the Id is dropped without an acknowledge (`vidi_di.c:896`), which is
  right, since the card has forgotten it with the REMOVE.

Only model-checked are:

* everything about `VidiXlog`, `XdiInd`, `MaintRing`, `DList`, `PlciQueue` and the CAPI modules;
* of `XdiReq` `UremoveForgotten`, and the other properties with UREMOVE;
* the refinements of `ListSpec` and `CmdFifo`;
* liveness under fairness and ENABLED, which are out of the prover's reach
  (`EveryRequestAnswered`, `EveryIndicationAcked`, `AllIndicated`,
  `ReleaseEnds`, `DataMoves`, `EndReached`, `GivenBack`);
* what folds an operator over a sequence of any length (`PacketsWhole` and
  `ChainsKept` of `XdiInd`), or walks through a linked list (`DList`): the facts
  about these operators need an induction theorem with an operator as a
  parameter.

## 5. Findings

`didd_missed` ends with a violation of what the code says of itself
(`capifunc.c:1636`).  The clients read the table first and register last; an
adapter added in between is in neither, although a comment of `dadapter.c`
supposes that a client which registers is told of every adapter.

Observations.  Each of the following can be reproduced with the modules, by
the constant or property that is named; the runs check the system without it.

* `di.c:671` (`XdiReq` with `Labelled` FALSE, `QueueSound`).  A card without
  marks: the first return code on a flow controlled channel ends flow control and
  clears `XBUSY`, also when the entity was queued meanwhile.  The next
  `request()` finds it not busy and links the slot a second time.  The
  counterpart, a request that meets a busy entity, is "ignored" according to the
  comment; it also traps the adapter (`io.c:551-559`).
* `di.c:591` (`XdiReq` with `Labelled` FALSE, `RemoveAnswered` without its
  exception).  While a REMOVE is pending any OK counts as its answer until a
  marked one was seen; the OK that ends flow control forgets the Id before the
  card has seen the REMOVE.
* `di.c:317` (`XdiInd` with `Grouped` FALSE, `PacketsWhole`).  `pr_dpc` keeps one
  `RNRId`; if the card mixes indications of two Ids in an interrupt, one that
  follows a refused one is delivered before it.
* `dadapter.c:156` (`Didd`, `NoStaleCard`).  Clients are told of a removal
  before the entry is cleared; who registers and reads in between keeps the adapter.
* `debug.c:1155` (`MaintRing` with sizes that fill the ring exactly).  The zero behind the
  data of a driver's message is one byte behind what was allocated; if the ring is
  exactly full this is in the header of the oldest message.
* `debug.c:1173` (`MaintRing`, `InfoKept`).  Information that an interrupt
  leaves between the check and the reset of the length is dropped.
* `um_idi.c:2692` (`UmIdi` with `Slots` 1, `RcWillCome`).  With no entity left in the
  XDI an ASSIGN is dropped without a return code; the test for it looks at a
  value nobody sets.
* `divasi.c:621` (`UmIdi`, `NoDangling` without `running[f]`).  The watchdog sets
  `aborted` before it marks the entity: a process that leaves in between frees
  the entity while the XDI has its request.  The timer function may also come to
  the lock when the file it belongs to is free.
* `os_pri.c:565` (`UmIdi`, `NoDangling` without `xdi' # "up"`).  An adapter leaves
  the DIDD before its interrupts and soft ISRs are stopped.  Late entities are
  freed (`um_idi.c:1107-1143`) while the XDI has them in its table, and processes free the
  others, which have lost their adapter, as soon as they like; the callback
  (`um_idi.c:1743`) then runs on memory that is free.  On memory that is not,
  `process_idi_rc` looks through the pointer to the adapter that
  `cleanup_entity` has cleared, for its trace message (`um_idi.c:2721-2724`).  A
  request that waited in the queue of the XDI goes to the card with the Id 0,
  which makes it an ASSIGN.
* `message.c:1276` (`CapiNcci` with `Adjusts`, `Found`).  An NCCI that was kept over a change of
  the protocol clears, at its end, the entry of its former channel, which may be
  another connection's by then.
* `message.c:1128` (`CapiNcci` with as many busy channels as NCCIs and more).
  With all NCCIs in use the channel's number is
  taken for one, in use or behind the tables.
* `message.c:4096` (`CapiData`, `ConfRight`).  DISCONNECT_B3_REQ that waits for data
  that is left keeps its number in `plci->number` only, which the next message
  overwrites.
* `message.c:5676` (`CapiData`).  The end of another channel's flow control is
  taken for the return code of N_DISC.
* `message.c:1172` (`CapiFlow`, `HeldKept` without `late`).  DISCONNECT_B3_RESP frees the receive
  buffers of the NCCI that has the number by now: data of the new connection is
  lost or overwritten, also while the card still copies it, and two messages
  may name one buffer.
* `message.c:10107` (`CapiFlow` with more connections than registered,
  `RejectsAtLimit`).  Nothing limits the connections to the
  registered number, so that data is refused below the limit of its NCCI.
* `message.c:6035` (`CapiCall`, `asked`).  DISCONNECT_REQ that meets a HANGUP of
  the card is not confirmed.
* `message.c:2326` (`CapiCall`, `StaysReachable` without `Stale`).  The PLCI does not wait for
  the DISCONNECT_RESP of an application that rejected the call, nor after HANGUP
  for those of the ones that did not get it (`message.c:8565-8572`).  It may
  serve another call when the answer comes: it takes the application out of
  `c_ind_mask_table` of this call, of whose end it is never told.  A late
  CONNECT_RESP or DISCONNECT_REQ is likewise taken for the present call.
* `message.c:12300` (`CapiFlow` with `Outgoing` and two channels that share one
  receive buffer, `Forgotten`).  `send_req` sends N_XON before any other request.
  As long as the channels stop each other in turn, other requests of the PLCI,
  N_DISC among them, stay where they are.
* Nothing unlinks a slot from the "list of pending ASSIGNs" (`io.h:266`), and
  its links are overwritten when the slot is queued with its next request
  (`io.c:932`).  It works because new slots go to the front and the card
  answers ASSIGNs in the order in which it got them: whatever is still pending is in front
  of the stale links (`AssignFound`).  A card that answered out of order could cut
  a pending ASSIGN off.
* `request()` hands out slots 1 to `e_max` (`io.c:524`, `534`) of a table of
  `e_max` entries (`os_4bri.c:399`): the last slot is one past its end.
* `pr_out` removes the UREMOVE of the last request of its loop only
  (`di.c:224`); several of them in one run leave slots behind (`UremoveForgotten`
  is about the last one).  UREMOVE does
  not reset `RNR` either (`di.c:217-230`).
* The read of the table reports a loss also for a buffer that fits exactly
  (`dadapter.c:202`), and registering without a free entry returns the handle 0
  as a success (`dadapter.c:222`).
* The last free ring entry takes one acknowledge only, whatever its size
  (`vidi_di.c:234-288`); this costs entries and loses nothing.
* With `request_flags` changed by two processors at once the wish to stop the
  card can be lost (`vidi_di.c:1209`; `StopKept` fails with `Shared`), and a
  second reader takes over the unused buffer of the first (`vidi_di.c:1223`).
* A comment says that the `Ind` field is cleared "for all indications we
  process"; the code does so for refused ones only (`di.c`, `pr_dpc`).
* `diva_data_q_init` has room for `max_length * max_segments` bytes with
  headers and all, so that many full messages do not fit.
* A trace entry (`mntfunc.c`) and a message of `um_idi.c` are acknowledged
  before they are copied to the process: a copy that fails loses them.
* A dequeued command passes the check for room again and is lost without a
  confirmation when the ring has wrapped and it ends in the bytes held back
  (`message.c:614-634`; `LostOnlyWrapped` says when).
* The search of `get_ncci` for a free place does not advance (`message.c:1108`):
  it would not end if two NCCIs shared channel 1.
* `send_disc` is one byte for all NCCIs of a PLCI, which is right for protocols
  with one NCCI only.
* A channel that is refused because other connections exhausted the pool is
  restarted by a response of its own connection only (`message.c:4298`), and has
  none to wait for if it has no buffer: `DataMoves` fails without `Starved`.
  The discard after 40 or 2000 refusals (`message.c:10111`) does not help, as a
  stopped channel is not offered again.
* A listening PLCI whose ASSIGN fails is not replaced before the next
  `listen_check`; a DISCONNECT_REQ of an application that did not get the call
  hangs it up for the one that did.

## 6. What is not modelled, and why

* Data: the bytes of requests and indications, and the copy macros for I/O
  mapped cards.
* `scom_*` (cards without shared memory descriptors) repeats the protocol of
  `pr_*` with one request at a time.
* Of CAPI: the internal commands (`add_b1`, `add_b23`, `adjust_b` and the
  facilities built of them) whose steps are a sequence of requests each, parameters of the
  protocols, supplementary services, codecs, DTMF tone detection, mixer, fax.
  In `CapiCall`: LOCAL_CONNECT, ALERT, SELECT_B, LISTEN_REQ besides that of
  `CapiRegister`, B channel connections that hold HANGUP back, group
  optimization, resource reservation, removal of the adapter.
* Of the user mode IDI: entities that share one of the XDI, combined
  indications, adapters in user mode.  Memory that was freed too early is not
  followed to its next owner, and `write` tests `aborted` and sends in one
  step.
* The TTY's modem emulation, the ISDN4Linux and HiSax bindings: programs of
  their own on top of `request()`.  `XdiReq` has the contract that CAPI keeps.
* Download, register access, FPGA, PCI: hardware I/O without state of
  interest.  The state after a reset is the `Init` of `XdiReq` and `Vidi`.
* Formatting and parsing (`manage.c`, `cfglib.c`, trace decoders), user mode
  tools, vendored dialog program, scripts.  These, and the tables of
  parameters in `message.c`, are the larger part of the lines: they have hardly
  any state.

## 7. Plan

Done: `XdiReq`, `XdiInd`, `Didd`, `Vidi`, `VidiXlog`, `DList`, `MsgQueue`,
`MaintRing`, `DmaFrag`, `UmIdi`, and of CAPI calls, commands, NCCIs and data.
Open, in this order:

1. Proofs: the histories of `XdiReq` with UREMOVE, and with them
   `SlotsCounted` and `AnswersFound` without `NoUremove`; `PacketsWhole` of
   `XdiInd`; `MapsAgree` of `CapiNcci`; `Undamaged` of `PlciQueue`.
2. The internal commands of a PLCI and the change of its B protocol, over
   `CapiNcci` and `CapiCall`.
3. The table of clients of `debug.c` and the trace entities of `maintidi.c`.
4. Entities of the user mode IDI that share one of the XDI.
5. Adapter reset and card removal while requests are queued.

