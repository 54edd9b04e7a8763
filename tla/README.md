# Verification of the SmartHome ZigBee firmware

TLA+ models of the firmware in `src/`, TLC runs that check them on small
instances, and TLAPS proofs of the properties that matter most. The firmware is
a SmartHome application on TI's Z-Stack for the CC2530: an 8051 with 8 KB of
RAM, one background loop (the OSAL scheduler), interrupts, and flash for what
must survive a reset.

## 1. The system

| Component | Source | State it keeps | Operations | Modelled in |
|---|---|---|---|---|
| OSAL kernel | `Components/osal/common/OSAL.c` | event word of every task, one message queue, buffer headers | main loop, set event, allocate / send / receive / deallocate | `Osal` |
| OSAL heap | `OSAL_Memory.c` | block headers, `ff1`, `ff2` | init, kick, alloc, free | `OsalMem` |
| OSAL timers | `OSAL_Timers.c` | linked list of timers | start, start reloading, stop, update | `OsalTimers` |
| OSAL clock | `OSAL_Clock.c` | rest of a millisecond, milliseconds, seconds | `osalTimeUpdate`, `osalClockUpdate` | `OsalClock` |
| OSAL NV | `osal/mcu/cc2530/OSAL_Nv.c` | flash pages and items; in RAM the reserve page and two counts for each page | item init, read, write, compaction, `initNV` | `OsalNv` |
| OSAL power manager | `OSAL_PwrMgr.c` | votes of the tasks | vote, sleep | no (POWER_SAVING builds only) |
| HAL UART | `_hal_uart_dma.c` | receive ring and its head, tail and age; two transmit buffers, which of them is sent, the age of the data register | write, read, poll, interrupt at the end of a DMA | `HalUart` |
| HAL keys, LEDs, flash, ADC, sleep | `Components/hal` | registers | | no; the key interrupt appears in `Osal`, `OsalTimers` and `SmartHome` |
| MAC low level | `mac_tx.c`, `mac_rx.c`, `mac_rx_onoff.c`, `mac_radio.c`, `mac_sleep.c`, `mac_csp_tx.c`, `mac_mcu.c` | transmit and receive state, reasons to keep the receiver on, requested channel and power, the radio's FIFO and command processor | transmit, retransmit, RF interrupts, receiver on and off, sleep, channel, scan filter, reset | `MacLow` |
| AF | `stack/af/AF.c` | endpoint list | data request, dispatch | no; `SmartHome` has what a broadcast does to the application |
| ZDO, device application | `ZDApp.c`, `ZDObject.c` | `devState`, mode, retry and discovery counters, `nwkStatus`, timers, events, messages; NV items of the network and of the leave | start, form, discover, join, resume, rejoin, leave, save, reset | `ZDApp` |
| ZDO, security and network managers | `ZDSecMgr.c`, `ZDNwkMgr.c` | keys; channel and PAN id change | | no (not in the builds, or closed libraries) |
| MT | `Components/mt` | serial receive state | `MT_UartProcessZToolData`, as the application uses it | `HalUart`, `SmartHome` |
| SmartHome application | `Samples/SmartHome/Source/App.c` | network state, port P0 | serial command, broadcast command, state reports, keys | `SmartHome` |
| ZCL, key establishment, SAPI | `stack/zcl`, `stack/sapi` | | | not built into SmartHome |
| NWK, APS, MAC, security libraries | binary | | | no source |

### How the parts interact

* The main loop (`osal_start_system`) calls `osalTimeUpdate`, which drives the
  clock and the timers, then `Hal_ProcessPoll`, then the processor of the
  highest-priority task with an event.
* A processor receives messages until `NULL`, serves one flag, and returns the
  flags it did not serve, which the loop puts back.
* Timers, the MAC, the keys and the UART set events, some of them from
  interrupts. A critical section switches interrupts off, so background code and
  interrupts interleave between critical sections and nowhere else. Tasks never
  preempt each other.
* The serial port is polled by the main loop; its call-back makes the received
  bytes a message of the application, which broadcasts commands, obeys those it
  receives and writes reports back to the port.
* The network layer (a library without source) asks the low-level MAC to transmit,
  and answers the requests of ZDApp later, by call-backs that put messages into
  ZDApp's queue or set its variables directly.
* Message buffers, timers and MAC frames all live in the one heap.
* ZDO and the network layer keep the network's state in NV items. `ZMain` calls
  `osal_nv_init` before anything uses them.

### What is hard

Interrupts between any two critical sections (kernel, timers, UART, MAC); state
of the list walks kept across a critical section (timers); lazily joined free
blocks whose walk must stay on headers (heap); 16-bit arithmetic (clock); resets
between any two flash words, also during the recovery from the last one (NV);
a radio that goes on by itself while handlers read and turn it off (MAC); buffers
swapped under a writer (UART); late answers, retries by timer, power failures and
three NV items written one after the other (ZDApp); messages lost, doubled and
reordered by the radio (SmartHome). `PROJECT.json` lists each hazard at its line,
with the properties that would catch it or the reason there is none yet.

## 2. Modules

| Module | What it is |
|---|---|
| `Osal` | the kernel: state, actions, properties, inductive invariant |
| `OsalPromise` | what the kernel promises: a FIFO mailbox per task, emptied only by the runs of that task, and flags that wait for a run |
| `OsalMem`, `HeapPromise` | the heap, and what its callers may rely on: what a call that asked for so much is granted, and what a call that returns a stretch takes back |
| `OsalTimers`, `TimerPromise` | the timers, and when an event may and must be raised |
| `OsalClock` | tick conversion, in the arithmetic of the code |
| `OsalNv` | NV items in flash, with resets |
| `MacLow` | transmitting, receiving and the radio's receiver, with the radio around them |
| `HalUart` | the serial port with its DMA |
| `SmartHome` | the application on a gateway and its lamps; extends `HalUart`, whose steps are interleaved with its own |
| `ZDApp` | how a device gets into a network, stays there over resets, and leaves |
| `MC*` | instances for TLC; modules whose constants fit in a `.cfg` need none |
| `*Proofs` | theorems and proofs |

A definition whose name ends in `_Xxx` and whose comment says "Mutant of" is not
part of the model: it is the definition after it with a plausible bug, and shows
that the property it is paired with in `PROJECT.json` can fail.

### Osal

Variables `tasksEvents`, `osal_qHead` and `dest_id` are those of `OSAL.c`;
`allocated` is what the heap has handed out; `pc`, `idx`, `events`, `held`,
`unsignalled` are the program counter and locals of the background code, and
`serving` is the flag whose branch of the processor is being executed. One
action is one critical section or a stretch that touches nothing interrupts
touch: `Scan` reads one event word with interrupts on, `Take` and `Return` are
the two critical sections around the processor. `osal_msg_send` is two actions
(`SendEnqueue`, `SendSignal`) because interrupts come between `osal_msg_enqueue`
and `osal_set_event`. The processors are modelled by their common shape
(`Dispatch`): `SYS_EVENT_MSG` first, with a receive loop that ends at `NULL`;
else one flag, the rest being returned; or, for `App_ProcessEvent`, all flags
dropped (`DiscardingTasks`). Inside a handler, and inside the polls before the
scan, any kernel calls are made in any order, up to `MaxOps`. Interrupts only
set flags: no interrupt routine in the sources sends a message.

### OsalMem

A heap is a function `len` from the offsets of the headers to their size fields,
and the set `inUse`. `osal_mem_alloc` is one action per turn of its loop
(`SkipInUse`, `FirstFree`, `Coalesce`), then `Place` or `Fail`. The call is
atomic in the code; the steps are there because the argument is about the walk.
`osal_mem_free` is its entry with the pointer of some owner (`FreeBegin`) and the
rest, so that `asked` and `ptr` say what the call under way was passed.
Metrics and profiling (off in all builds) are left out, and the alignment of
sizes, which is the identity for `halDataAlign_t` of one byte.

### OsalTimers

A record is in the list `timers`, or in `freeTimer` between its removal and
`osal_mem_free`. `UpdateBegin` is `osalTimerUpdate` up to its loop, `Visit` one
critical section, `Release` what follows it with interrupts on. `IsrStart` is
enabled everywhere, also between two records. `owed`, `moved` and `byIsr` are
history: they say how far the OSAL clock has still to move for what was asked.
For `TimerPromise` a key is *armed* while a live record has it and *due* while its
expired record is unlinked and its event not yet raised; an interrupt may arm the
key again in that gap, and the old event is owed all the same.

### OsalClock

`osalTimeUpdate` is one action on the ticks since the last pass. Every value of
the code that is a `uint16` is taken modulo 65536. `lostUs` and `lostMSec` are
history: time passed less time accounted for.

### OsalNv

A page is a header of three words and a sequence of items; an item has the words
the code writes: id and length, data, checksum, status. One action writes at most
one flash word, but for the data words of an item, which are one step: until the
last of them the checksum does not match however many are written. The two words
of a copied item's header (`CopyHdr`) are one step too: a reset between them
leaves what a reset behind them leaves, an item whose checksum does not fit.
`Reset` is possible before every write, keeps the flash and loses the RAM. `pgOff`
is the length of the sequence; `pgLost` is kept as the code keeps it, with the
places where it is recomputed (`Rewalked`). `expect` is history: the values a
reader may get.

### MacLow

The record `m` has the variables of the code (`tx` is `macTxState`, `rx`
`macRxActive`, `state` the handler `pFuncRxState`, `on` and `enable` the reasons
to keep the receiver on), the registers of the radio (FIFO, command strobe
processor `csp`, interrupts and masks) and history (`failed`: a `MAC_ASSERT` did
not hold; `cut`: a frame was cut off on the air; `call`: the last transmit). `bg`
says where the background code is inside a function that leaves and enters
critical sections. An RF interrupt handler runs to its end, so it is one action,
written as the composition of the functions it calls on the record.

Assumed, and written as guards: the interrupt of a received header is served
within the time of a frame; no frame begins before an overflow is served;
`macLowLevelReset` is called between transmits, as `macLowLevelInit` does; one
transmit at a time, and a retransmit only after `no_ack` or `no_access`, as the
high-level MAC does. Left out: slotted transmit, promiscuous mode, energy
detect, link quality, pending bits. When the forced end of a transmit flushes the
FIFO under `rxStartIsr`, the code reads on from the empty FIFO and evaluates the
`MAC_ASSERT` at `mac_rx.c:492` before the clean-up undoes it; what the radio hands
out of an empty FIFO is not in the sources, so `rxStartIsr` ends there and
that one assertion is not among those of `NoAssertFails`.

Two comments are at odds with what the model allows. `mac_tx.c:323` says that when
`txGo` runs "any transmitted ACK has long since completed"; but interrupts are on
again by then, and a frame may come in and be acknowledged first, if the
background code is held up for as long as a frame takes. The call-back of that ACK
is then cancelled while the ACK is on the air; the properties hold all the same.
`mac_rx.c:254` names `macTxHaltCleanup`, which no code calls.

### HalUart and SmartHome

`u` is `dmaCfg` with the registers of the DMA and the USART; `wr` the locals of
`HalUARTWriteDMA`, which copies outside its critical section and is therefore two
actions (`WriteBegin`, `WriteCommit`) between which the interrupt may come. `owed`
and `unread` are history: what the port accepted and has not sent, received and
not handed on. Ages replace the shadows of the sleep timer, modulo the 256 of a
`uint8`. What one call of `HalUARTWrite` is given is one item, which the code
takes whole or not at all.

`SmartHome` runs the main loop of the gateway: a poll of the port, the tasks, a
poll. The application takes all its messages in one run, as `App_ProcessEvent`
does. `air` is a bag of broadcasts; each is delivered once at most per node,
possibly never and in any order. The gateway's broadcast does not come back to
itself, and it receives reports only. Left out: the point-to-point cluster `P`,
the display of the network state, the lamps' own serial ports, flow control (off
in the build, so the serial host is assumed to leave room in the ring).

### ZDApp

`d` holds the variables of `ZDApp.c`, its events, timers, messages and what was
`asked` of the network layer; `nv` the items kept over a reset (`net`:
`ZCD_NV_NIB` and its companions, `new`: the start-up option, `leave`: the leave
control); `app` the application's message and knowledge; `air` the network in
reach and the bounded troubles; `hist` history. The power may also fail between the
two items that `ZDApp_SaveNetworkStateEvt` writes (`PowerFails`). `Receive` handles one message, and
`at = "loop"` while the same call of the event loop has more. `Start`,
`StartOnHold` and `Hold` are `ZDOInitDevice`, the second between two writes to NV,
where the power may fail.

The network layer is external: it may refuse, and answers late and in any order.
Timers have no delay, so a timer may expire before or after any answer.
Builds: no security; NV restore on and off. Left out: the security branches, a
network commissioned in `AIB_apsUseExtendedPANID` (`ZDApp.c:686-695`, zero by
default), the keys that bypass the start or the restore,
`ZDApp_StopJoiningCycle`, managed scans, poll rates, device announcements,
endpoint binding.

Noted on the way, where no statement of the sources is contradicted: a retry
timer that is still running restarts a device that has joined meanwhile (`Joins`
shows that it gets back in); `startDelay` is ignored on a restore; the comment at
`ZDO_INITDEV_LEAVE_NOT_STARTED` speaks of rejoin TRUE while the code holds when it
is FALSE; `ZDO_ProcessMgmtLeaveReq` leaves two fields of its request
uninitialised (`ZDObject.c:1646`); the application is not told when a device loses
its network.

## 3. Runs

| Run | Shows | Instance |
|---|---|---|
| `Osal` | no lost wake-up, no leaked or doubly owned buffer, strict priority; implements `OsalPromise`; the top task is served, messages are delivered unless their task is starved | 3 tasks (one signalled by interrupts, one that discards), 2 messages, 2 flags, 2 calls in a handler; 113 812 states |
| `OsalMem` | blocks tile the heap, bucket apart, failure only when full; implements `HeapPromise`; calls return | 19 bytes, header of 1, bucket of 8, requests of 1, 3 and 5; 194 822 states |
| `OsalTimers` | one timer per key, none late, those of tasks never early; implements `TimerPromise`; every timer ends | 2 keys, one of them of an interrupt, timeouts up to 3, updates of 1 and 2, 2 records; 187 836 states |
| `OsalTimers_early` | **violated**: a timer that an interrupt starts during the update is early | 3 records |
| `OsalClock` | no time lost | the numbers of the code, gaps around every boundary up to 16 376 ticks; 3 129 states |
| `OsalClock_late` | **violated**: a gap of 24 564 ticks can lose 2.6 s | also gaps of 24 564 and 65 535 |
| `OsalNv` | after one reset the last completed write is read, after two nothing torn or stale; every call and start ends | 3 pages of 4 items, 2 items, 2 values, 2 resets; 1 067 635 states |
| `OsalNv_erase` | **violated**: all pages erased with no compaction under way | as above |
| `MacLow` | no assertion fails; the handler that waits fits the FIFO; nothing put off is forgotten; the status of a transmit is true; no frame is cut; every transmit is answered | 1 flag, 1 back-off, 1 frame in the FIFO; 584 861 states |
| `SmartHome` | the port loses, doubles and reorders nothing; no command turns a motor twice; messages and broadcasts come to rest, and so do the ring and the line under the conditions that `Settles` names | gateway and 1 lamp, 2 bytes of 3 kinds, 1 key, buffers and ring of 2; 389 000 states |
| `ZDApp` | a network left for good is not restored; the application learns the state; the device gets in | 3 types, 2 networks, 2 messages, 1 power failure, 1 trouble; 84 006 states |
| `ZDApp_rejoin` | **violated**: failed rejoins fall back to a join | a device, no troubles; 868 states |

Why the bounds are enough. *Osal*: two messages are the least that can be
reordered, and the least for which `osal_msg_receive` sees "more than one";
three tasks put one above and one below the running one; two flags let one be
served while the other is returned. *OsalMem*: the small header makes all of
exact fit, split and too small a remainder occur, and the sizes make runs of
three free blocks, on both sides of the bucket's end. *OsalTimers*: a timeout
longer than an update by one and by two, equal to it and shorter; with two
records one is removed before, at and after the other. *OsalNv*: a page has room
for both items and a torn copy per reset, so that every rewrite soon needs a
compaction and every compaction can be interrupted, and its resumption again.
*MacLow*: every order of transmit, receive and receiver changes needs one frame of
each kind; a FIFO of one frame is full at once, and its overflow is the case of
interest. *SmartHome*: buffers of two items and a ring of two bytes are full after
two; one lamp is enough for lost and doubled commands, since lamps do not talk to
each other. (Two lamps have 3.9 million states, too many to check `Settles`.)
*ZDApp*: two networks distinguish "its" network from another; a counter that wraps
at 4 instead of 256 wraps; three retries are one more than the two after which a
reset could hide the count.

### Fairness

* `Osal`: weak fairness of the background code as a whole. The processor executes
  it whenever no interrupt is served, and a handler makes finitely many calls.
  Nothing is assumed of interrupts.
* `OsalMem`: weak fairness of the walk; nothing preempts a critical section.
* `OsalTimers`: weak fairness of `Update`; the main loop calls `osalTimeUpdate`
  on every pass, and the MAC timer never stands still. No fairness of the tasks.
* `OsalNv`: weak fairness of the steps of a call; resets are bounded.
* `MacLow`: weak fairness of the radio's transmitter and bytes; interrupts pause
  again and again (a medium that never stops interrupting starves any background
  code), and then background code goes on.
* `SmartHome`: the main loop runs, the DMA, the USART and the timer do their work,
  the application's task is reached and the radio delivers or drops. Nothing is
  assumed of how passes of the loop fall against characters. `Settles` promises the
  rest of messages and broadcasts without condition; that the ring empties, if
  polls recur that see the idle timer run (`LineSeen`); and that the line takes all
  that was accepted, if polls recur that come a character after the transmitter's
  last interrupt (`CharacterPassed`). Neither condition can be dropped: TLC then has
  a run in which it never comes about. For the second this is a weakness of the code.
  With every pass of the loop shorter than a character, the wait before a
  transmission starts anew each time (`_hal_uart_dma.c:678`), and the port never
  sends; it is listed as a hazard that no property covers.
* `ZDApp`: weak fairness of the task, its timers and the answers (`Running`); and
  `Luck`: strong fairness of a request accepted, a message allocated, a beacon
  heard and a join granted, without which no device can get in. `Joins` excludes a
  device on hold, a dormant coordinator, no network in reach, and a dropped
  call-back, after which the code waits for ever.

`ZDApp` is checked without deadlock checking: a device on hold, or one whose
confirmation was dropped for want of heap, has no step left until the power fails.

### Findings

1. **Timers, early.** `osalTimerUpdate` deducts the whole `updateTime` from every
   record it visits, also from one an interrupt starts during the walk
   (`OSAL_Timers.c:428`). The key interrupt starts its debounce timer that way
   (`CC2530EB/hal_key.c:387-409`).
2. **Clock, late pass.** `MAXCALCTICKS` was chosen for a rest of 24 at most, but
   every turn of the loop adds 4 to it. With two turns, a full last part and a
   rest of 24, `tmp` wraps (`OSAL_Clock.c:149`). A pass is that late when a
   processor keeps the loop for 7.86 s: `App_ProcessEvent` handles all its queued
   messages in one run, and runs the motor for each curtain command among them.
3. **NV, reserve page.** The second walk of `initNV` does not reset `pgRes`
   (`OSAL_Nv.c:281-286`), so it marks the reserve page as in use, and the next
   start finds no reserve page and erases all items.

4. **ZDApp, rejoin.** The first failure of a resume changes the mode to
   `MODE_REJOIN`, and later failures leave the retry counter alone because the
   mode is no longer `MODE_RESUME` (`ZDApp.c:1427`). The "normal join ... after
   certain times of rejoin retries" never comes; `FallbackIsDead` proves it for
   every limit.

TLC also shows, with larger or tighter bounds than those of the runs, weaknesses
of NV that contradict no statement of the sources: a reset after the reserve page
was taken and before the page to compact was marked loses all items
(`OSAL_Nv.c:317-318` says so); a second reset while the pages are being erased
leaves some items and loses others; after three resets there can be two old
copies of an item, and the older may be read (`PageItems = 5`, `MaxResets = 3`);
a torn copy can leave too little room for a resumed compaction when the pages
are full (`PageItems = 2`). They are listed as hazards. `LastWritten` counts an
item as absent, and not as lost, once `initNV` has erased all pages; that this
happens only for a compaction is what `ErasesOnlyForCompaction` states.

## 4. Proofs

All proofs are about `Spec` (`HomeSpec` for the gateway with its port) and use no
fairness, also where the specification states some; they hold for all values of the
constants that satisfy the named assumptions (`ASSUME` of the modules). The theorems
on NV with resets have a hypothesis more, on the room in a page (`RoomForAll` for one
reset, `RoomForTwo` for two).

* **Kernel** (`OsalProofs`). `IInv` is `TypeOK`, `NoLostWakeup`,
  `BufferConservation`, `StrictPriority` and `Signalling`. `NoLostWakeup` is not
  inductive alone: `ReceiveNull` clears `SYS_EVENT_MSG`, which is right only
  because nobody is between `osal_msg_enqueue` and `osal_set_event` outside a
  handler (`Signalling`), and a received message leaves the obligation behind
  because queued positions are distinct buffers (`QueuedOnce`). One lemma per
  action, then one theorem per property. `KernelImplementsPromise` maps the one
  list of the code to a set of messages per task and the order `Older` between
  them, so that the head of a mailbox is the message none is older than. In
  `OsalPromise` only the run of a task takes messages, and only its own; a run is
  given all the flags that wait, serves one at most, and what it did not serve waits
  again when it ends. So a kernel that drops a flag or the head of a mailbox, or hands
  either to another task, does not implement it. The proof needs that the loop's copy
  of an event word is empty while it looks for the next task, and that no branch of a
  processor runs before `Dispatch` has chosen it (`BetweenRuns`).
* **Heap** (`OsalMemProofs`). `IInv` adds to `Tiling` and `BucketApart` what an
  allocation knows of its walk: no free run between its start and `hdr` has
  room (`NoRoom`), `prev` heads the free run that ends at `hdr`, or `hdr`
  follows a block in use. From it follow `FailsOnlyWhenFull` and the refinement
  `HeapImplementsPromise`: `Place` grants a stretch that overlaps no other and is as
  long as the call under way asked for, `osal_mem_free` releases the stretch of the
  pointer it was passed and no other, and every other step leaves the granted
  stretches alone, joining included, since it touches free blocks only.
* **Clock** (`OsalClockProofs`). `ClockIsExact`: if all gaps are at most 16 376
  ticks (two parts of `MAXCALCTICKS`) nothing wraps and no time is lost, with
  `W = 65536` and `MAXCALCTICKS = 8188` as in the code. `OsalClock_late` shows
  that a gap of three parts is too much.

  `ClockTypes` needs no bound on the gaps.
* **Timers** (`OsalTimersProofs`). `NeverLate` and `TaskTimersNeverEarly` look at
  one moment each; between them a record is either *in step* with the OSAL clock
  (its timeout is at most what is still owed, the same if no interrupt started
  it) or, while the walk has still to reach it, *behind* by exactly the time of
  the update. `Steps` says which records are which by their position against
  `srchTimer`. The work is in what moves positions: a record unlinked under the
  walk brings its successor to `srchTimer`, and one that an interrupt appends lies
  ahead. With it go the theorems on both bounds, on one timer per key, and
  `TimersImplementPromise`: the key that has expired and left the list stays due
  until its event is raised, whatever interrupts arm meanwhile, and the update
  neither goes on nor ends before.
* **NV** (`OsalNvProofs`). `Safe` says where a call, a compaction or the walk of
  `initNV` is and how much it has written (`Calling`, `Writing`, `Compacting`,
  `Walk`); that there is one copy of an item at most, but for the one being written
  (`Settled`); that what can be read is what may be expected (`Readable`), also if
  the power fails now; what the reserve page has room for (`Room`); and what `initNV`
  relies on after the first reset (`Headers`, `Unmarked`, `FirstStart`). `LastWritten`
  is about the moments between calls; that a reset in the middle of one leaves the old
  copy or the new, and never both as new, is what the other parts are for.
  `ResetKeeps` shows that what the walk needs holds at every step of the first run;
  the lemmas on the walk show that it zeroes torn items and the old one of two.

  A compaction must fit in the reserve page. There are two arguments. With a place
  to spare for all items (`RoomForAll`: the ids are finite and fewer than the places
  of a page) each item has one copy and a reset has torn one at most, so there is
  room whatever the counts say (`RoomToCopy`). Without a reset nothing is needed:
  `pgLost` never counts more than the zeroed items of a page (`Tally`), a page is
  compacted for a call only if that leaves a place for the call's item, and every
  copy takes a place in the reserve and zeroes one in the page (`Balance`). The
  theorems are accordingly: up to the second reset under `RoomForAll`
  (`ReadersGetTheLastWritten`, `TypesUpToTheSecondReset`), and for pages and items of
  any number until the first reset (`WithoutResetNothingIsLost`). `RoomForAll` cannot
  be dropped from the former: with as many items as places TLC has a run in which the
  torn copy takes the last item's place.

  The second reset is another matter, because the state after it is not `Safe`: when
  it comes during the walk that follows the first, or during the compaction that walk
  resumes, there can be two old copies of an item and one more torn one. `Sound` is
  what is left: where each operation is (`Placed`, also the basis of `Tally`, so that
  the counts need no more); no two new copies of an item (`OneNew`); all other copies
  of an item that is being replaced or moved are old (`Replacing`, `Copying`); and
  whatever reader or walk comes next, all copies of an item that it could take hold
  one value, which is expected (`Known`), but for the item under way (`Fitting`).
  `ResetSound` shows that any reset in a `Safe` state leaves a `Sound` one; it needs to
  know which pages `initNV` may find unused (`PagesKept`) and that pages are erased in
  a clean state (`Erasing`). For the room, each reset costs a place: `Spare` says that
  but for as many places as there were resets, and the one being written, the items
  have one copy each, and the page that a compaction fills, or that `initNV` may choose
  for one, holds no other bad ones. When a call or the walk zeroes the lost copy and
  keeps its twin, the twin's place is the lost one from then on (`Swapped`).
  `RoomToCopyTwice` counts with it. So `NeverStale` and `TypeOK` are proved up to the
  third reset under `RoomForTwo` (the places of a page are two more than the ids, or
  more still). Neither can be had for less: with one place fewer TLC has a run with
  two resets in which a compaction writes past the end of the reserve page, and with
  three resets `NeverStale` fails (section 3). The run `OsalNv` satisfies both
  hypotheses, with no place to spare.
* **MAC low level** (`MacLowProofs`). `IInv` is about the record `m` and the place `bg`
  of the background code. `Radio`: the receiver is on exactly if the code says so,
  only the last frame in the FIFO is incomplete, the command processor never hangs.
  `Sending`: the state of the transmit decides what the command processor, its
  interrupt mask and `bg` can be, and how often the frame has gone out. `Kept`: what
  was put off, and who remembers it. `Told`: what the high-level MAC was told.
  `Receiving`: the handler that waits, against the pieces that were taken and the head
  of the FIFO. `Drowsy`: while a wake-up is about to turn the receiver on and the
  radio is asleep again, nobody has a reason to keep it on. None of the safety
  properties is inductive alone: that no assertion fails needs `Sending`, `StatusTrue`
  needs what was heard since the frame went out, and `FrameNotCut` needs that nobody
  turns the receiver off while the command processor is about to send. Interrupt
  handlers are compositions of functions on the record, so the lemmas about the
  functions speak of the parts of `IInv` that hold in the middle of a handler (`Sane`,
  `Still`, `Mid`, `Good`, `Received`) and of what a function leaves alone (`Same`);
  then there is one lemma for each action.
* **Serial port and application** (`SmartHomeProofs`). `PortLosesNothing`, for buffers
  and rings of every size, with the application above. Transmit (`TxOK`): the DMA owns
  the other buffer exactly as long as that holds something, a new start is asked for
  only while it is empty, and whenever the DMA is at rest a byte in the data register
  is younger than the shadow says (`Line`). That the shadow, a byte of the sleep timer,
  cannot turn a whole round meanwhile is `TxTick + 1 < Wrap`. Receive (`RxOK`): the
  DMA stands at the slot after what is unread, counted round the ring (`Slot`).
  `HomeTypes` adds the sizes (`PortSizes`).

  `CurtainsTurnAtMostOnce`, for any number of lamps, is a count (`Counted`): for every
  lamp, the turns of its motor, the curtain commands on the air to it, and the bytes
  in the chunk, the ring and the queued messages add up to no more than the bytes
  received. A queue is counted as the set of its cells, so that appending or taking a
  message changes a cardinality by the message's length; a message with bytes becomes
  one command per lamp at most; a turn takes its command off the air.
* **ZDApp** (`ZDAppProofs`). `LeftForGood`: after a leave without rejoin the
  network is not restored, after any further resets. `Left` names the four places
  the order can be in (the leave item, the start on hold, no network in memory and
  none restorable in NV); that no handler brings the network back needs `Sound`,
  what the handlers rely on: whoever rejoins, is joined or has a successful answer
  waiting knows a network, and it is the one asked for. `Sound` is a predicate of
  the record, so every handler has a lemma of its own.

Only model-checked: liveness (`TopTaskServed`, `DeliveredUnlessStarved`,
`AllocTerminates`, `EveryTimerEnds`, `CallsEnd`, `TxCompletes`, `Settles`, `Joins`,
`AppLearnsState`), which is out of the prover's reach. Every invariant and action
property of a passing run is stated by a theorem. What remains open of NV is what a
third reset leaves: there `NeverStale` is false, and that no page overflows is what
TLC shows of two items in two pages of five, but is not proved.

## 5. Plan

Modelled first: the kernel, because everything runs on it; the heap and the
timers, which it uses; NV, whose hazards are resets; then what interacts with the
outside: MAC, serial port, application, ZDApp. What is left, in order:

1. AF: the endpoint list and the dispatch of incoming messages, under `SmartHome`.
2. NV with refused writes (`failF`) and items of two sizes.
3. Power manager and `osal_next_timeout` for POWER_SAVING builds; calendar
   conversion of the clock as a function against a reference definition.
4. ZDO objects that keep tables of their own (end-device binding, match
   descriptors), and key establishment, which other applications build in.

## 6. Not modelled

Register access, wording of logs and LCD text, the closed libraries, the USB and
ZNP targets, the editor project in `QtEditor`, and what `PROJECT.json` lists as
`not_modelled`, with the reason.
