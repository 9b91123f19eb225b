# TLA+ models of the 330GE router firmware

The repository is the firmware of a Broadcom-based wireless router: a Linux 2.4
kernel with the board's drivers, a user space of many small programs around one
process 1, `rc`, and a boot loader. Most of the 23,000 files are third-party.
What is the router's own logic is the NVRAM store that keeps its settings, `rc`,
which starts and stops everything according to these settings, the libraries
that its programs share, and the Ethernet driver with its DMA rings. This project
models the store, `rc`, the timer library and the Ethernet driver, checks them with
TLC and proves theorems about them with TLAPS.

## 1. Inventory

| Component | Source (under `src/broadcom/src`) | State | Operations | What makes it correct |
|---|---|---|---|---|
| nvram variable store | `shared/nvram/nvram.c` | hash table, dead list, the buffer that user processes map, allocation offset | get, set, unset, pack an image, rebuild from an image | no string in use is overwritten; a name is bound once; an image fits and can be loaded again; it behaves like a map |
| nvram kernel driver | `linux/.../bcm947xx/nvram_linux.c` | `nvram_lock`, `nvram_sem`, the flash partition, scratch buffers | read, write, ioctl, mmap of `/dev/nvram`; `nvram_commit`; boot | power loss and I/O errors never make boot accept half an image; a commit that returned 0 is durable; the semaphore is released |
| rc, process 1 | `router/rc/rc.c`, `init.c`, `services_ex.c` | `state`, `signalled`, which parts are up, `rc_service` | `main_loop`, `rc_signal`, `service_handle`, `reap`, `fatal_signal`, `run_shell` | requests are not lost, parts go up and down in order, rc becomes idle again |
| mtd_erase | `router/rc/mtd.c` | flash | erase for the factory reset, write for upgrades | does not interfere with a commit |
| nvram user library | `router/nvram/nvram_linux.c` | file descriptor and mapping | wrappers | - |
| watchdog | `router/rc/watchdog.c` | timers, buttons, LEDs | alarm handler | intervals, reset button |
| httpd | `router/httpd/` | - | pages; sends signals and requests to rc | - |
| hnddma | `shared/hnddma.c` | transmit and receive ring: indices, descriptors, packet pointers, the count of free descriptors; the engine's own index | post a packet, reclaim, refill, receive, reset, initialize | indices wrap without overrun; the engine never touches memory that was freed; every packet is freed once |
| et | `et/sys/et_linux.c`, `etc.c`, `etc47xx.c` | transmit queue, events, the reschedule flag, mask and status registers and their copies, `ET_LOCK` | `et_start`, `et_isr`, `et_dpc`, open, close, re-initialize, error recovery | packets leave in order; interrupt and tasklet hand over to each other; nothing is stuck in a queue; a closed interface is quiet |
| timers of the user library | `router/shared/linux_timer.c` | timer queue shared with a signal handler | create, set, delete, expiry | queue and free list stay disjoint lists; a waiting timer is always waited for; nothing expires before its time |
| udhcpd | `router/udhcpd/` | lease table | offer, acknowledge, release | one address per client |
| CFE, wireless driver, busybox, pppd, iptables, kernel | - | - | - | third-party or binary-only |

How they interact. Every process reads and writes variables through `/dev/nvram`
(a read resolves a name to an offset into a buffer it has mapped; a write sets or
unsets; an ioctl commits). `httpd` changes variables, commits, and signals
process 1; lease requests are passed in the variable `rc_service`, followed by
SIGUSR1. `rc` runs the start and stop functions for what was signalled. The
watchdog's reset button runs a program that erases the partition. The network
stack calls `et`, which keeps a queue of its own in front of the rings of `hnddma`;
the chip works on the rings and interrupts.

What is hard: interrupts and several processes around `nvram_commit`; a loss of
power between any two flash operations; failures of flash operations and of
atomic allocations; buffers at their limits; pointers that outlive the store they
point into; signals that arrive anywhere in `main_loop`; two-step requests; a DMA
engine that reads the rings while the driver changes them, an interrupt handler
that takes no lock, and resets in the middle of both. The
full list, at source lines, is "hazards" in `PROJECT.json`.

## 2. Modules

| Module | Models | Checked by |
|---|---|---|
| `NvramStore` | `nvram.c` and the allocator and entry points of `nvram_linux.c` | `MCNvramStore`, three runs |
| `NvramMap` | abstract specification: the map that the callers rely on (`bcmnvram.h` leaves values undefined after a commit) | refined by `NvramStore` |
| `NvramStoreProofs` | theorems about `NvramStore` | tlapm |
| `NvramMapProofs` | theorems: when `NvramStore` implements `NvramMap` | tlapm |
| `NvramFlash` | `nvram_commit`, boot, power loss, `mtd_erase` | `MCNvramFlash`, two runs |
| `NvramFlashProofs` | theorems about `NvramFlash` | tlapm |
| `Rc` | `main_loop`, `rc_signal`, `service_handle` and their clients | three runs, on `Rc` itself |
| `RcProofs` | theorems about `Rc` | tlapm |
| `TimerQueue` | `linux_timer.c`: the queue, the free list, `alarm_handler` and the interval timer | two runs, on `TimerQueue` itself |
| `TimerQueueProofs` | lemmas on lists without repetition and on sums, and theorems about `TimerQueue` | tlapm |
| `HndDma` | `hnddma.c`: the rings and, external, the engine | through `Et` |
| `Et` | the driver `et`, composed with the rings of `HndDma` | `MCEt`, two runs |
| `LossyFifo` | abstract specification: a device may lose packets but does not reorder them | refined by `Et` |
| `EtProofs` | theorems about `Et` and `HndDma` | tlapm |
| `EtOrderProofs` | theorems about the order of packets and frames in `Et` | tlapm |
| `Selection` | what remains of a sequence when only some of its positions are kept; used by `LossyFifo` and `Et` | through `Et` |
| `SelectionProofs` | induction for a set, and lemmas about `Selection` | tlapm |

Operators whose names carry a suffix after the name of the code function and are
commented "Mutant" are wrong versions of the definition that follows. They are
not part of any specification: each records a plausible bug, and the property
that TLC finds violated when it is substituted.

### NvramStore

`nvram_hash` is the table of chains, newest tuple first; `nvram_dead` the value
pointers of unset tuples, which the code keeps because a user process may still
read through them; `nvram_buf` the bytes, one cell per byte; `nvram_offset` the
bump allocator of `_nvram_realloc`. Since all the entry points run under a spin
lock with interrupts off, an entry point is one action, except that packing an
image (`PackTuple`, `PackNextBucket`) and rebuilding from it (`StartRehash`,
`RehashEntry`, `RehashDone`, `RetrySet`) are loops, and a step each here. `job`
says for whom the lock is held. `nvram_set` that finds the buffer full (or cannot
allocate a tuple) consolidates and retries once; `CfeSet` is the branch for names
with the boot loader's prefix; nothing is concluded from its result, because the
code returns a variable it has not initialised. A value is abstracted to its identity and length, a
name to its length and bucket; the sdram words in the header, which pass through
`strtoul` and `sprintf`, are `Reformat`. The code leaves old bytes above
`nvram_offset` after a rebuild; the model replaces them with NULL, so that
reliance on them is visible. Not modelled: the CRC (nothing in memory depends on
it), `_nvram_getall` (reads only), what `cfe_update` writes to the boot loader.

### NvramFlash

What memory holds is a version number (`mem`), and each set makes a new one. The
partition is a sequence of chunks over erase blocks, with the NOR rule that
programming a chunk that is not erased yields `Garbage`. Chunk 0 stands for data
in front of the image in the same erase block (`HasPre`). The magic word is apart,
because the protocol writes it apart. `nvram_commit` is one action per lock or
flash operation: `Call`, `Down`, `Backup`, `ClearMagic`, `Regenerate`,
`PrepareErase`, `Erase`, `Schedule`, `WriteBody` (a chunk at a time), `WriteMagic`,
`Reread`, `Done`. `CutOff` is what an operation may leave behind when it fails
(`Fail`) or power goes (`Crash`); boot then loads what `_nvram_read` accepts:
whatever has the right magic word, without a CRC check. Between the erase of the first
block and the end of its first write the data in front of the image is nowhere but in
the scratch buffer (`OnlyInBuffer`); the history variable `risked` records that a
commit was cut off there. `ResetErase` is the reset
button's erase, which takes no lock; only `ResetSpec` has it.

### Rc

`state` and `signalled` are the two globals, `pc` the place in `main_loop`, `up`
the parts that are up. A signal is delivered between any two steps of the loop,
and its handler is one action with its sending. The line `state = signalled` is two
steps, since both are plain memory: `TestSignalled` or `LoadSignalled` puts the value
into a register, `loaded` (the compiler may keep the value that the test of the loop
read, or read it again), and `TakeState` stores it. The start and stop functions are
abstracted to the part they bring up or take down, in the order of the calls.
`SetService` and `NotifyRc` are the two halves of httpd's lease request.
`fatal_signal` kills everything; `Boot` starts over. `owed` and `goal` are history
variables: the request recorded last and not begun, and the parts that the begun
requests ask for; `missed` says that the former was recorded between the load and the
store. The WAN client does what `service_handle` tells it (`Serve`).

### TimerQueue

`event_queue` and `event_freelist` are the two linked lists, as sequences; the
next pointers appear apart only where the main program can be interrupted between
reading one and writing it (`Pop`, `FreeNext`, `FreeLink`). `it_value` is relative
to the timer before on the queue, as in the code, and `Link` is the march down the
list. A call of the main program is one action per stretch that a signal can or
cannot interrupt, and, within the stretches that block SIGALRM, per look at the
clock, because time passes there too: the alarm is then pending (`alarm`) and
`Deliver` starts the handler later. The handler is one action per turn of its loop
(`Expire`), with the callback in it, then `HandlerReissue`. A callback deletes its
own timer or does not touch the library. `Segv` is the handler that finds an empty
queue. Time is counted in units of `g_granularity`, so that rounding up means that
0 becomes 1, and the handler's `small_interval` means 0.

The clients decide which calls are possible. They are `bcmgpio` (`bcmgpio_strobe`,
whose callback stops the strobe after the last one; the flag `strobing` keeps
callback and main program from deleting the same timer) and `upnp` (periodic
timers, and `delayed_call_helper`, which deletes its own). No client sets a timer
that is on the queue. `owned` and `due` are history variables: the timers a client
holds, and the time left until a timer should expire.

### HndDma and Et

`HndDma` declares the rings and has one action per routine of `hnddma.c`; `Et`
extends it and says who calls the routines when. Of a packet the ring only sees how
many descriptors its buffers take (`Descs`, at least one: `dma32_txfast` has no
provision for a packet without data, and the stack hands over none) and whether the
first or the last buffer is empty (`HeadEmpty`, `TailEmpty`), which moves the frame flags.
`et` hands over single buffers (`skb_dequeue` clears the link);
chains are what `hnddma.c` offers to any driver, and with them it can run out of
descriptors in the middle of a packet. A descriptor says which buffer of which
packet it points to and whether it begins and ends a frame (`sof`, `eof`). A chain that
runs out of descriptors leaves those it has written (`HalfWritten`), and only `txptr`,
which is not moved, keeps the engine from them. A receive buffer says which part
of which frame it holds. The loops of `dma32_getnexttxp` and of `_dma_rxfill` are
one action each, since they run under the lock and the engine's index is read once;
the loops that call them are a step per turn. The engine is external: it fetches
from `txcurr` up to `txptr`, and stores frames from `rxcurr` up to `rxptr`, a frame
at a time, which the driver relies on, as it reads the length from the first buffer.
`live` is the set of packets that the driver has to free.

`ET_LOCK` is `spin_lock_bh` on one processor: while it is held the tasklet does not
run, but the interrupt handler does. `pc` is the place of the holder of the lock and
`ret` where a nested call (`et_init`, `et_sendnext`) returns to; the chip and
`et_isr` act between any two of its steps. `et_isr` is one action. Turning interrupts on
is two writes, the copy of the mask and then the register. `et_dpc` makes them without
`INT_LOCK`, so they are two steps (`DpcEnd`, `DpcIntrsOn`), and an interrupt that another
device raises on the shared line may come between them; the value then written to the
register is the one computed before or the copy read again. In `et_intrson` interrupts
are disabled and the two are one step (`ChipInitDone`). `chipintrsoff` writes the register
first: an `et_isr` before its second write leaves what one before both would. `chstatus` and
`chmask` are the driver's copies of the status and mask registers, `intstatus` and
`intmask` the registers; the core reset clears the registers and not the copies.
The status bits are those that the driver treats differently: `XI`, `RI`, `RU`, and
`RO` for the errors that lead to a reset. `Reinit` stands for the multicast list and
for the ioctls that re-initialize; `reinit` is a history variable that records on
what kind of interface that has happened. `killing` is `et_down` in `tasklet_kill`,
where it does not hold the lock.

## 3. Runs

| Run | Shows |
|---|---|
| `store_integrity` | All sequences of sets, unsets, commits and consolidations of three variables, two of which share a bucket and one of which is a boot loader variable, with allocation failures: strings in use are intact (`TuplesIntact`), names are bound once and on the right chain (`ChainsSound`), images fit (`ImageInSpace`) and can be loaded again (`RehashHasRoom`), a set that returned 0 is visible, also after consolidation (`SetTakesEffect`), tuples are bounded by the buffer (`TuplesBounded`). |
| `store_refines` | Two variables that fit one image together: `NvramStore` implements `NvramMap` (`ImplementsMap`), and a pointer handed to a process stays good until the next rebuild (`ReaderIntact`). |
| `store_overflow` | Violation: variables that fit the buffer need not fit an image. |
| `flash_crash` | Two committers, sets, I/O errors and a power loss: `ValidImage`, `BootSound`, `Durable`, `CommitCoversCaller`, `SemaphoreBalanced`, the data that was in front of the image at first is in flash or in the buffer of the commit that will write it back, unless an earlier commit was cut off while it had the only copy (`PreAreaKept`), and every `nvram_commit` returns (`CommitReturns`, under fairness). |
| `flash_reset` | Violation: the unlocked erase of the reset button makes a commit validate an erased image. |
| `rc_requests` | A request that was recorded stays recorded until `main_loop` begins it or a later one replaces it, except one recorded inside `state = signalled` (`RecordedKept`); parts go up and down in order (`LayersSound`); a waiting `main_loop` has up what was asked for (`SettledAsAsked`); and `main_loop` becomes idle again (`ReturnsToIdle`, under fairness). |
| `rc_wakeup` | Violation: a signal between the test and the sleep is slept through. |
| `rc_lease` | Violation: overlapping lease requests take process 1 down. |
| `timer_races` | Queue and free list stay disjoint lists without loops (`QueueSound`), no time becomes negative (`TypeOK`), a waiting timer is waited for (`AlarmSet`) and gets its callback (`Expires`, under fairness). |
| `timer_remainder` | Violation: cancelling the first timer makes the second one early. |
| `et_tx` | Packets through queue and ring while the ring wraps, fills, is reset and closed: no packet pointer is overwritten or cut off (`TxRingSound`), the engine fetches from live packets only (`FetchesLive`), every packet is in one place and freed once (`PacketsOwned`), the free count is right or will be corrected (`TxavailSound`), waiting packets have somebody who will send them (`BacklogHasWaker`), a closed interface is quiet (`DownIsQuiet`), packets wait in the order they came (`TransmitsInOrder`, the refinement of `LossyFifo`) and each goes out whole, begun and ended by its own flags, and in its turn (`WireGetsOldest`). |
| `et_rx` | Frames, short and too long, and packets, with memory running out and errors: the receive ring (`RxRingSound`), the hand-over between `et_isr` and `et_dpc` wherever interrupts come (`HandOver`), frames reach the stack in order and unmixed (`StackGetsOldest`), and under fairness frames are taken (`FramesTaken`) and packets freed (`PacketsFreed`). |

### Bounds

- Store: a buffer of eight bytes holds at most four to eight strings of length 0
  and 1, so that the buffer and the image run full at different times (a header of
  one byte, a name of one byte and `=` for each entry), all consolidation paths
  occur, and chains of two tuples are updated at both places. `NVRAM_SPACE` is 12
  in `store_refines`: two variables with values of length one then always fit an
  image, which is the precondition of that refinement; the buffer still fills up
  and is consolidated.
- Flash: two committers suffice for every pair of critical sections to contend;
  images of one and two chunks in two erase blocks make the last block of the erase
  loop depend on the image; `MaxCommits` = 3 with `MaxCrashes` = 1 lets a commit
  recover from the remains of a torn one. (The theorems have no bound on crashes.)
- Rc: three signals and three lease requests let each pair of requests meet in each
  step of the loop, with a third that supersedes one of them.
- Timers: with two structures one callback can free its own while the main program
  takes or returns the other, which is the race on the free list, and the free list
  can run empty. Times 0 to 2 give disarming, equal times and unequal ones; seven
  calls create, set and delete both timers and start over with one.
  `timer_remainder` has three timers and times up to 3.
- Et: in `et_tx` the transmit ring has four descriptors, so at most three are used,
  and packets take 1 (behind an empty buffer), 1 (before an empty buffer), 2 and 3 of
  them: the ring fills exactly, overflows in the middle of a packet with descriptors
  written, and wraps at every place of a packet; three requests open, re-initialize or
  close, and open again. (From the third request on, the constraint `LateLoad` leaves at
  most `MaxLate` = 2 packets at a time: what four can do to the ring is seen before, and a
  second opening starts from an empty one.) `DATAHIWAT` = 2 makes the
  stack stop and wake. Receiving is shut off there. In `et_rx` packets are single buffers, as `et` sends them, two of them for a
  ring that holds one, so that one waits in `txq`. Four receive descriptors with three
  posted wrap and run empty and hold a giant, which takes two, before or behind a good
  frame, or three good frames of two kinds, so that their order shows; `RXBND` = 1
  reschedules `et_dpc` for every frame. The state constraint `LightLoad` bounds the
  packets not yet freed plus the receive buffers not yet taken by `MaxLoad` = 3, a full
  receive ring. Only the arrival of a packet or of a frame adds to that, and neither is
  assumed to happen, so the constraint cuts nothing that the fairness promises. One error
  and one request (the open) are enough for a reset to meet every state of both rings.

The store runs check deadlock. The flash runs do not, because there a bounded number of
commits ends in a state without successors; `CommitReturns` checks that nobody is
stuck. Nor do the timer runs, where the calls are bounded and a process may die, nor
the Et runs, where an interface may be closed for good.

### Fairness

- `NvramFlash!FairSpec`: weak fairness of each committer's step. A process inside a
  system call is scheduled as long as it can run. Weak fairness does not by itself
  serve a process that waits for the semaphore; here it does since the number of
  commits is bounded and the semaphore is free for good in the end.
- `Rc!FairSpec`: weak fairness of `main_loop` (process 1 is scheduled and its calls
  return) and of `Boot` (a reboot comes up again). There is none for clients,
  signals, the console or `reap`.
- `TimerQueue!FairSpec`: weak fairness of `Library` (a process inside the library is
  scheduled), of `alarm_handler` (a pending signal is delivered once it is not
  blocked, and the handler runs on) and of `Tick` (time passes). There is none for
  the calls of the clients.
- `Et!FairSpec`: weak fairness of `Step` (whoever holds a spin lock goes on), of
  `ChipTx` (the engine transmits) and of `et_isr` while the chip's mask is on (the
  line is level-triggered, so an unserved interrupt keeps asking), and of `tasklet_kill`,
  during which nobody but `et_dpc` takes the lock. Strong fairness of `et_dpc`: the lock
  may be taken again and again in between, but the kernel runs a scheduled tasklet when
  it is released. There is none for
  packets, frames, errors or requests.

## 4. Theorems

All hold for every value of the constants allowed by `ConstantsAssumption` (of
`NvramStore`), `FlashAssumption`, `RcAssumption`, `TimerAssumption`,
`RingAssumption`, `PacketAssumption` and `EtAssumption`: any names, values, hash
function and buffer, any number of committers, chunks and erase blocks, any monotone
layout, any number of versions, commits, crashes, signals, lease requests, timers,
calls, packets, frames and requests, any ring size and any length of chain that fits
the ring.

`ConstantsAssumption` says of the images found at boot that their entries fit in
`NVRAM_SPACE` (`FitsImage`): `nvram_rehash` puts two zero bytes at the end of that space
before it parses, so that no entry it finds extends beyond.

- `NvramStoreProofs!TypeCorrect`, `TuplesKept`, `ReadersKept`, `ChainsKept`,
  `ImageBounded`, `RehashFits`, `SetsTakeEffect`, `TuplesAreBounded`: the types and
  `TuplesIntact`, `ReaderIntact`, `ChainsSound`, `ImageInSpace`, `RehashHasRoom`,
  `SetTakesEffect`, `TuplesBounded`, from one invariant, `IInv`. Its parts are the
  store (`StoreInv`: the chains, and that no two tuples, live or dead, share a
  string, without which `TuplesBounded` does not follow from `TuplesIntact`), the
  readers' pointers, the variables of the lock holder (`Control`), the image
  (`Images`) and the latest set (`Latest`). `RehashHasRoom` is about the sum of the
  lengths of all entries still to apply; the invariant has no sum, but says that
  there is a layout, a nondecreasing sequence of positions, for what was packed
  (`FitsImage`) and for what is still to be applied (`Room`). An entry with its name
  takes more than its value alone, so the first layout gives the second. The
  proofs look at the table through `Live`, the set of its tuples: the lemmas before
  `IInv` say what prepending, replacing and removing on a chain do to that set.
- `NvramMapProofs!StoreImplementsMap`: `Spec /\ []AllFits => ImplementsMap`, for boot
  images that bind no name twice (`DistinctImages`) and `KmallocOutcome = {TRUE}`.
  `store_overflow` shows why `AllFits` is needed: a commit that leaves a tuple out
  forgets a variable, which no map does. Without memory for tuples a rehash does too.
  The invariant `RInv` adds to `IInv` which tuples have been packed: all those of the
  buckets before, and those of this bucket that are not in `rest`, each once and with
  its value; and that the entries to be applied have distinct names and come before
  the sdram parameters. `FittingIsPacked` is the first half as a property,
  `CommitPacksAll`.
- `NvramMapProofs!SmallStoreFits`, `SmallStoreImplementsMap`: `AllFits`, and so the
  refinement, from a condition on sizes, `RoomForAll(L)`: no entry is longer than L, L
  bytes for every name fit the image, and the buffer has room for one more. `Grown(L)`
  counts: the image and the rebuilt buffer have at most L bytes for each name met so
  far. `store_refines` meets the condition exactly, with L = 4.
- `NvramFlashProofs!TypeCorrect`: `Spec => []TypeOK`. Not inductive by itself: that
  the chunk index of the body write stays in the partition depends on where the
  committer is in the loop.
- `CrashSafe`, `BootsSound`, `CommitDurable`: `[]ValidImage`, `[]BootSound`,
  `[]Durable`. `ValidImage` ("a valid magic word stands in front of a complete
  image") is not inductive: writing the magic word keeps it only because the whole
  body is written, and that because the blocks up to the end of the image were
  erased, which holds as the committer is the only one in its critical section. The
  invariant `IInv` says for each phase of the protocol which chunks are erased and
  which written, that the magic word is not the valid one from clearing to writing
  it, and that at most one committer holds the semaphore. The theorems are about
  `Spec`, which has no `ResetErase`: `flash_reset` shows `ValidImage` violated with it.
- `SemaphoreKept`: `[]SemaphoreBalanced`, from the same invariant.
- `CallerCovered`: `[]CommitCoversCaller`. What a committer packed is at least what
  memory held when it called (`CoverInv`), because versions only grow (`BoundInv`) and
  it packs after it got the semaphore.
- `PreAreaSafe`: `[]PreAreaKept`. While no commit has been cut off with the only copy, the
  committer in its critical section has the original data in its buffer (`PreInv`), and
  chunk 0 holds it too unless that committer has erased it and not yet written it back
  (`PreHome`). What is excepted is what the code loses.
- `RcProofs!TypeCorrect`, `RequestsKept`, `LayersKept`: `[]TypeOK`, `[]RecordedKept` and
  `[]LayersSound`. `RecordedKept` needs to know that from the store to the clearing of
  `signalled` the handler records nothing, because `state` is not IDLE, and that what was
  loaded is what was recorded unless the record is younger than the load (`missed`).
  `LayersSound` needs to know that parts are stopped and started in order
  (`StopInv`, `StartInv`), which states go with which places of the loop (`LoopInv`),
  and that a lease request can only be pending while the services are up or were
  when it was made (`LeaseInv`).
- `RcProofs!SettledKept`: `[]SettledAsAsked`. `AskedInv` says at each place of the
  loop how the parts that are up and those asked for differ: by what is still to be
  stopped, started, or told to the WAN client.
- `TimerQueueProofs!QueueKept`: `[]QueueSound`. Not inductive: that a structure put
  on the queue or on the free list is not on the other depends on what the main
  program holds while a callback may run. `InHand` says so for each place of the
  program (what it takes from the free list is still there; what it sets, cancels
  or deletes still belongs to it, and is off the queue or cancelled where that
  matters), `FreeUnowned` that no free structure belongs to a client, and
  `NextFree` that this holds of the old free list too that `timer_delete` is about
  to link to. The lemmas before it say what linking, unlinking and cutting do to a
  list without repetition.
- `TimerQueueProofs!TimesTyped`, `AlarmKept`: `[]TypeOK` and `[]AlarmSet`. The times on
  the queue are differences, so when a timer expires is a sum (`Expiry`), and linking a
  timer subtracts sums from times: that no time becomes negative needs to know that
  sums grow along the queue. Induction for a given set is a lemma (`SetInduction`
  of `SelectionProofs`, from the theorem that a finite set has no injection into a
  proper part of itself),
  which gives the recursive function its values (`ExpiryFacts`). `TInv` adds to `IInv`
  where the interval timer may be wrong: between the change of the queue and
  `setitimer`, where the handler is kept out or on its way to correct it.
- `EtProofs!TypeCorrect`, `TxRingKept`, `TxavailKept`, `PacketsKept`, `FetchesSafe`,
  `RxRingKept`: the types and `TxRingSound`, `TxavailSound`, `PacketsOwned`,
  `FetchesLive`, `RxRingSound`. They rest on one invariant, `IInv`, of three parts.
  `TxInv`: the transmit properties together with where the engine is, namely between
  `txin` and `txout` while it is on, at the start of what has been posted and not
  fetched. None of them is inductive alone: reclaiming up to the engine's index keeps
  packets whole because the descriptor before that index ends a packet or lies in one
  that ends later, and it frees nothing that is still fetched because pointers are
  kept at last descriptors only. `RxInv`: the receive ring. `Control`: the engines are
  off wherever a ring is reclaimed as a whole, and the rings are empty when they are
  initialized. The arithmetic of a ring is in four lemmas about distances (`DistType`,
  `DistInjective`, `DistShift`, `DistPlus`), after which no proof looks at indices.
- `EtProofs!HandsOver`: `[]HandOver`. `HandInv` follows the status bits: whenever the
  lock is free, either the driver's copy of the mask is on, and then the register is too
  and nothing is left to do, or it is off and the tasklet is due with an event for every
  bit that was taken from the chip (or will look at the chip again). Only the copy decides
  whether `et_isr` acts: the register may be on with `et_dpc` due, after an interrupt
  between the two writes. There are two more cases, the place between the writes, and
  the time before the chip first runs. Along `et_dpc` each bit is gone after the step
  that deals with it, except `RI` when the loop stopped at its bound.
- `EtProofs!DownQuiet`: `[]DownIsQuiet`. `DownInv` follows a close through the reset to
  the flush of `txq`: nobody takes the lock in between.
- `EtProofs!BacklogWoken`: `[]BacklogHasWaker`. `BackInv` says where `txq` may hold
  packets without a waker (while `et_sendnext` or a reset runs), and needs `TxavailKept`:
  when `et_sendnext` stops for lack of descriptors the ring is not empty.
- `EtOrderProofs!OrderKept`: `Spec => TransmitsInOrder`, the refinement of `LossyFifo`.
  The abstract queue is what remains of the ring from the engine on, when the empty
  places are left out, followed by `txq`. `SelectionProofs` says what such a selection
  does with a concatenation (by `SetInduction`, since it is a recursive function), so
  that a step is a matter of cutting the ring into windows (`WindowConcat`,
  `WindowSame`): the engine takes at most the head (`FetchRing`), `dma32_txfast` adds the
  packet at the end of the ring (`PostRing`) and reclaiming changes nothing from the engine
  on (`TakeRing`); a packet that `et_sendnext` cannot post is one lost from the middle
  (`LosesMiddle`), and a reset or `et_down` loses from the front or everything. There is
  one lemma per action (`FifoStep`). It needs `IInv` of `EtProofs`.
- `EtOrderProofs!WireOrder`: `Spec => WireGetsOldest`. `WireInv`: the descriptors of a
  packet follow one another on the ring and the last, which ends the frame, carries the
  packet pointer (`Descriptors`); the flags are at its first and last (`Whole`); the engine
  is between two frames or at the continuation of the one it has begun (`Fetching`). What
  a chain that ran out of descriptors has written lies beyond `txout`, where the engine
  does not get before it is written again (`HalfWrittenBehind`, `WireBehind`).
- `EtOrderProofs!StackOrder`: `Spec => StackGetsOldest`. `RxData`: the parts of a giant
  frame follow one another on the receive ring, and `_dma_rx` is at the part that its
  `skiplen` says. `RxLoop`: in the middle of a giant frame nothing but `_dma_rx` moves
  on, because the event that makes `et_dpc` receive stays set.

Only model-checked: liveness (`CommitReturns`, `ReturnsToIdle`, `Expires`, `FramesTaken`,
`PacketsFreed`), which the prover does not support. Every invariant and every other
action property of a passing run is stated by a theorem.

## 5. What the models found

1. `nvram.c:284`: a store that fits the buffer need not fit the image; the packing
   loop drops variables, the rebuild forgets them in memory too, and the commit
   returns 0 (`store_overflow`).
2. `nvram_linux.c:674` with `mtd.c:109`: the factory reset and a commit are not
   mutually exclusive (`flash_reset`).
3. `rc.c:943`: the test of `signalled` and `sigsuspend` are not atomic (`rc_wakeup`).
4. `services_ex.c:3295`: `service_handle` reads through a null pointer when two
   lease requests overlap (`rc_lease`).
5. `linux_timer.c:639`: cancelling the first timer adds the time passed, not the
   time left, to the next one (`timer_remainder`).

Also met while modelling, and part of the models as what the code does: the CFE
branch of `nvram_set` returns an uninitialised result (`nvram_linux.c:491`); a
race on the timers' free list loses structures (`linux_timer.c:245`); an alarm
pending while the queue is emptied makes `alarm_handler` read through a null
pointer (`linux_timer.c:487`). A request that the handler records between the load and
the store of `state = signalled` is erased by the next line (`rc.c:945`): `RecordedKept`
excepts it. The data in front of the image is lost when power goes, or an MTD call
fails, between the erase of its block and the write (`nvram_linux.c:663`): `PreAreaKept`
excepts what follows. A chain of buffers that begins with an empty one is sent without
a start-of-frame flag, since only the very first buffer can get it (`hnddma.c:1221`), and
a packet without any data would leave its pointer at a descriptor that is not its own
(line 1239): `et` sends neither. An interrupt
between the two writes of `chipintrson` leaves the chip's mask on while `et_dpc` is due
(`etc47xx.c:781-782`); the copy of the mask keeps `et_isr` from acting, so that it only
costs interrupts that nobody serves until `et_dpc` has run.
In the Ethernet driver, an administrator's
re-initialization turns interrupts on although `et_dpc` may be due, so that `et_isr`
can interrupt it and find `events` set, against the assertion at `et_linux.c:910`, or
have its events wiped (`et_linux.c:981`); it frees the ring without running `txq`,
whose packets then wait for the next interrupt; and the ioctls of `etc.c:414-439`
initialize an interface that is down. `HandOver`, `BacklogHasWaker`, `PacketsFreed`,
`FramesTaken` and `DownIsQuiet` except behaviours with such a request, and say so;
the other properties of `Et` hold with them.

## 6. Not modelled, and the plan

Not modelled: the copy of the factory settings in the boot loader (`cfe_*`), the
CRC, the user library's wrappers, firmware upgrade, page generation, what the
start and stop functions do inside, third-party code. Of `hnddma.c`, attach and
detach, suspend, the ring rotation and the 64-bit engine; of `et`, attach, the PHY,
the link watchdog (`etc_watchdog` polls the link and updates registers that the
model does not have), statistics and the PIO variant. The modelled files are a small
part of the repository: almost all of its six million lines are the Linux kernel,
the boot loader and other third-party programs, which are not this router's logic.

Plan, in this order:

1. The watchdog's timers and buttons; `eval` against `reap` (`init.c:247`); the
   start and stop functions of `services_ex.c`, which `Rc` abstracts.
2. `NvramStore` and `NvramFlash` composed: what is durable is the map.
