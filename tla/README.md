# Specifications and proofs for BluespecPCIe

BluespecPCIe connects a C++ program on a Linux host to user logic on a Xilinx
FPGA: memory-mapped words in both directions, DMA between FPGA and a page
buffer of the host, and DRAM behind it. This directory holds TLA+ modules of
its control logic, TLC configurations that check them on small instances, and
TLAPS proofs for every value of the constants.

    tlc -config dma_read.cfg MCDmaRead
    tlapm DmaReadProofs.tla

## 1. The system

Paths are relative to the repository.

| Component | Source | State it keeps | Operations | Module |
|---|---|---|---|---|
| Host MMIO and credit | `cpp/bdbmpcie.cpp`, MMIO part of `src/PcieCtrl.bsv` | counts and budgets of reads and writes, two locks; TLP queues, user queues, emit counters | `writeWord`, `readWord`, `Init_Pcie`; rules from `filterStatReadTLP` to `procIOWrite`; `dataReceive`, `dataReq`, `dataSend` | `PcieMmio` |
| DMA read engine | `src/PcieCtrl.bsv` 159-386, 469-489, 721-825 | tags, page lookups, `tagMap`, `doneMap`, order and done bit maps, reorder and output buffers | `dmaReadReq`, `dmaReadWord`, about sixteen rules | `DmaRead` |
| DMA write engine, link sender | `src/PcieCtrl.bsv` 721-996 | requests being split, write tags, shared page port, word counters, `sendTLPQ` | `dmaWriteReq`, `dmaWriteData`, eleven rules | `DmaSend` |
| `recvTLP` | `src/PcieCtrl.bsv` 390-445 | half a beat and its byte enables | rejoins packets that start in mid-beat | `RecvTlp` |
| Merge and scatter trees | `src/MergeN.bsv`, `src/ScatterN.bsv` | two FIFOs and a priority bit per node | `enq`, `deq`, bursts | `MergeN` (merges) |
| HW-to-SW messages | `src/DMAWideCtrl.bsv`, `cpp/dmasplitter.cpp` | 128 slots in host memory, an index on each side, what the host has received | `enq`, `deq`; `recvWord`, `scanReceive`, `sendWord` | `MsgQueue` |
| DRAM host DMA | `dram/src/DRAMHostDMA.bsv`, `cpp/DRAMHostDMA.cpp` | command under way, words left, tags, done counts | `CopyToFPGA`, `CopyFromFPGA`, about twenty-five rules | `HostDma` |
| DRAM controllers | `dram/src/DRAMController.bsv`, `DRAMBurstController.bsv` | row in progress, cached row, credits, owner of the burst port | `readReq`, `writeReq`, `read`, `write` | `DramBurst` |
| Linux driver | `distribute/driver/bdbmpcie.c` | the device's resources, DMA pages, their table, a device file | load, probe, remove, unload, open, mmap | `Driver` |
| Tools | `distribute/bsrescan/main.cpp`, `distribute/manager_deprecated/main.cpp` | where the tool is, stdio buffers, backup and flag files | `bsrescan`; the manager's backup, reboot, restore | `AdminTools` |
| Bluesim transport | `cpp/ShmFifo.cpp`, `cpp/PcieBdpi.cpp`, `src/PcieCtrl_bsim.bsv` | a ring of words in shared memory per direction | constructor, `push`, `pop`, `full`, `empty`, `tail` | `ShmFifo` |
| Circular queue, helpers | `src/DMACircularQueue.bsv`, `DMAReadHelper.bsv`, `DMAWriteHelper.bsv` | byte counts, tags, buffered words | | not modelled |
| Shifters, examples, wrappers | `src/Shifter.bsv`, `examples/`, `src/PcieImport.bsv`, ... | | | not modelled |

How they interact. The host stores and loads words of BAR 0; each becomes a
TLP. `recvTLP` feeds all of them, and the completions of DMA reads, into one
`tlpQ`; `filterStatReadTLP` answers counter loads at once, sends completions to
the read engine and passes the rest on to `procTLP`, `procIOWrite` and
`completeIORead`, which fill the user's queues and the page table in
`configBuffer`. In the other direction MMIO replies, read requests and write
bursts are merged into `sendTLPQ`. User logic calls the methods of
`PcieUserIfc`; `DMAWideCtrl` and `DRAMHostDMA` are such users, and the burst
splitter shares the DRAM between the latter and other clients. The driver
allocates the pages of the DMA buffer, writes their addresses to `configBuffer`
and maps them, and BAR 0, into the program. The tools bring the device back after
the FPGA has been programmed, behind the driver's back. Sharing one queue in each
direction is what makes the system hard: anything that waits for the user in
front of a counter load stalls the host CPU, and the user may be waiting for the
host.

The hard behaviours, each listed at its line in `PROJECT.json` under `hazards`:
counters that wrap at 32, 16, 10 and 8 bits and are compared by differences; a
counter value that is old when it is used; replies in pieces and in any order
joined by tags that are reused; done bits that are toggled and never cleared;
rules that stop half-way through a burst; two requesters of one BRAM port; two
halves of a buffer in use by host and FPGA at once; a process that is killed and
started again while words are under way; two processes that share memory without
locks; a probe that fails half-way, a device that goes while processes have it
mapped; a reboot before files are written.

What makes each component correct:

- MMIO: the user queues take every write the host may send; loads are always
  answered; calls return; the count of a new process is its own.
- DMA read: words come out in the order of asking, once each, and the engine
  never blocks the link.
- DMA write and sender: beats of one packet are contiguous and complete; every
  word is written to the address it was given for.
- `recvTLP`: packets are whole again. Merges: nothing is lost, the order of a
  source is kept, no source starves.
- Messages: a slot is never overwritten before it is read, and each message
  arrives once, whole and in order.
- DRAM: a copy is a copy, and reported done when it is done; a reader gets what was
  last written.
- Driver and tools: the FPGA's page table is the driver's; a mapping shows what its
  offset stands for; pages and resources are given back once; what the tools report
  as done is done.
- Shared ring: a FIFO.

## 2. Modelled: module by module

A rule of Bluespec is atomic and runs in some order with the others, so a rule
is one action: its guards are the explicit condition and the implicit ones
(queue not empty, queue not full) of all methods it may call. The library is
built with `-aggressive-conditions` (`buildtools/Makefile.base`), so a method in
one branch of an `if` blocks only that branch. Host code is cut at every access
another thread or the device can observe. Operators and variables have the
names of the source. Widths and depths are constants.

### PcieMmio

One action per rule of the MMIO path; for the host one action per piece of
`writeWord` and `readWord` between two accesses to the device (`pc` is the
piece a thread is in). A load is a TLP that carries the thread that waits; its
answer is a member of `cpl`. `userWrite1Q`, `userWriteQ` and `userWrite2Q` are
lengths, since their entries do not influence anything. The address ranges that
behave alike are one kind each: user space, configuration buffer, fixed values.
`Restart` kills the process at any point and runs `Init_Pcie` again; loads under
way get answers nobody waits for.

- `mmio_host` - two threads writing and reading configuration space, user logic
  that may never take a word. `CreditsCover` and `UserWritesFit`: a queue of 3,
  so that a refill (at half a queue) can happen with writes outstanding and with a
  counter value that is old, and a counter of width 5 that wraps again and again.
  `LoadsAnswered`: no load waits for user logic.
- `mmio_fair` - `TypeOK`, and `CallsReturn` with user logic that keeps serving.
- `mmio_restart` - one thread, all kinds of address, one restart at any point.
  `RestartBacklog`: what is queued is at most one allowance per start.
  `ReadCreditsCover`: the count that `readWord` keeps in 16 bits and widens by
  hand never grants more than the queue, although it charges reads of fixed
  addresses too. One thread is enough here: the locks order the calls, and their
  interleaving is what the other runs explore.
- `mmio_leak`, `mmio_restart_hang` - two findings, section 5.

Bounds: two threads are enough for all races of two locks; a queue of 2 or 3 and
a width just above it make every counter wrap many times. The counters need no
bound because they wrap.

Fairness: every rule that stays able to fire fires (the compiler's schedule
starves no rule without a conflict, and none of these rules conflict for ever);
a thread in a call gets its access through again and again (SF: the PCIe fabric
arbitrates between cores when the link fills and empties). Calling is never
fair. `FairSpec` adds that user logic takes words and answers.

### DmaRead, OrderedRead

All rules of the read engine. The unit is the 16-byte word; a word's value is
its bus address, so that a property can tell any two words apart. A completion
arrives as beats, the first with its tag and number of words; `RootComplex`
picks any outstanding burst and any length for the next piece, as PCIe allows.
FIFO chains that only relay are one queue. `doneTagMap` and `orderTagMap` are
toggled as in the code. Two environment assumptions are visible in the model:
the host answers reads of whole words with whole words, and it does not answer a
reused tag before the words of its previous use have left `readReorder` (at
most eight cycles against a round trip of hundreds).

`OrderedRead` is the specification: a memory that answers in order at once.
`ReadsInOrder` is `OrderedRead!ReadSpec` under the refinement
`pending <- SubSeq(asked, Len(delivered) + 1, Len(asked))`.

- `dma_read` - `TypeOK`, `OutputFits`, `DoneTagsWait`, `ReadsInOrder`: two
  requests, one of them over a page whose successor is elsewhere on the bus, two
  tags (so every tag is reused), bursts of two words, all orders and pieces.
  `LinkDrains`: completions leave the link whether or not the user takes words.
  `WordsDelivered`: a user who does take words (`UserTakes`) gets all of them.
  Queues have one or two entries; `burstUpdReqQ` has two, without which the
  scoreboard would have nothing to do.

Fairness: weak for every rule; strong for the completion of each tag, since the
root complex may be kept from sending by a full link.

### DmaSend

The other half of the link: writes are cut into bursts, look up their page
through a BRAM port they share with reads, wait until their words are there and
are sent as a header and beats; replies and read requests slip in between. A word
is its number, and a beat carries the two parts it is made of. `relayTLP` is the
link: it takes everything after a write header for data until the header's
length is used up.

`splitDmaWriteReq2` is more urgent than `splitDmaReadReq2`
(`descending_urgency`), so the latter has the negated guard of the former. Tags
of reads come back at any time (`readTagReturns`); `DmaRead` says when. The merge
tree in front of `sendTLPQ` is a queue per source, none of which is forgotten; `MergeN`
says why that is so.

- `dma_send` - `TypeOK`, `BurstHasData`, `Framed`, `InPlace`: writes of four words over a page and of one word, a read over a page
  end, bursts of two; word counters wrap at 6 with 3 buffered words.
  `RepliesLeave`: MMIO replies leave even if the user gives no data for its
  writes. `EverythingLeaves`: all writes and reads do once it gives the data
  (`UserGives`).

What the model also shows and no property states: if a user asks to write and
withholds the data until a read asked for later has come back, it waits for
ever, because the page of the read is queued behind the pages of the writes
(`PcieCtrl.bsv` 727).

### HostDma, AtomicCopy

`DRAMHostDMA.cpp` and `DRAMHostDMA.bsv` together: threads take `m_mutex`, cut a
copy into chunks of half the DMA buffer, fill or empty the halves in turn, store
the three words of a command and poll a count of finished commands; the FPGA takes
one command at a time and moves its data by requests of 128 bytes, the unit of data
here. Of the host, the pieces between accesses that matter are actions (`Enter` to
`Return`); of the FPGA, every rule that moves data, tags and counts. `PcieCtrl` is
seen as `OrderedRead` has it. Offsets are not aligned, so that `FirstPage` rounds.

`AtomicCopy` is the specification: a call copies its cells in one step, and a
process that dies leaves what it was writing in any state. `CopiesAtomic` is its
`CopySpec`, where a write counts from its return on: the memory of the
specification is that of before while a write holds the mutex.

- `host_dma` - `CopiesAtomic`; `Settled`: when nobody holds the mutex, nothing is
  under way and the host's totals are the FPGA's counts; `CallsReturn`: who has the
  mutex gives it back; `TypeOK`. Two threads, two calls of one to three halves, a
  buffer of two halves of two cells, two tags (each is reused within a call) and one
  restart between commands.

Fairness: a thread in a call goes on; loads are answered and writes land; of the
rules that can move data some does. `m_mutex` is not fair, so nothing is said of
threads that wait for it. Restarts while commands are under way
(`RestartUnderWay = TRUE`) make `Settled` and `CopiesAtomic` false: the counts of
the old commands come in while the new process counts. Two assumptions: the answer
to a load stays behind the writes posted before it (`DmaSend` shows that `PcieCtrl`
itself lets answers overtake the writes, and the count is raised when the last word
is handed over, `DRAMHostDMA.bsv` 299), and DRAM accesses of one client are in order
(`DramBurst`).

### MsgQueue

`DMAWideCtrl.bsv` and `dmasplitter.cpp`, both directions. A message is its serial
number, kept in every word, so that a mixture of two shows. The program's
constructor, `recvWord`, `scanReceive` and the `sendWord`s are cut at each access
to the shared page or the device; a slot is loaded in the order of the source,
number first, and its two 16-byte words land in order. Message numbers wrap.

- `msg_queue` - `InOrder`: what `recvWord` returns is what was sent since the
  program started, in order; `NotOverwritten`: no part of a slot is written while
  its message has not been copied; `WordsArrive`: user logic gets the program's
  messages unmixed, although short ones leave registers as they were and a killed
  program leaves some written; `CatchUp`: everything arrives; `TypeOK`. Two slots,
  numbers modulo 3, three messages to the host (so each slot is reused), two to the
  FPGA, one restart at any point at which no message to the host is under way.

User logic sends only when the constructor has finished (`EarlyMessages = FALSE`).
With messages in the constructor `InOrder` and `NotOverwritten` fail, since it
resets the two sides one after the other. One thread receives and one sends:
`recvList` is used without its lock (`dmasplitter.cpp` 121-132). Fairness: the
program goes on calling `recvWord` and finishes a `sendWord` it has begun; rules
go on firing. With what is sent bounded, `CatchUp` says that both sides are
caught up again and again.

### Driver, AdminTools

A machine: the FPGA as the PCI bus sees it (whether it is programmed, BAR,
command register, page table), what Linux keeps for it, the driver's variables,
processes with the device file open, and one of the two tools. The steps of
`pcie_probe` and `create_dma_buffer` that may fail, of `pcie_remove`, of loading and
unloading are actions (`step` is the next one); so are `open`, `mmap` and the end of
a process. `Mapping` is `bdbm_mmap`'s arithmetic, with unsigned numbers that wrap.
`AdminTools` adds `bsrescan` and the deprecated manager, line by line where the
machine can change in between, with the bytes stdio holds back until the program
returns and what a reboot makes of files; and the administrator, who programs,
reboots, loads, unloads and runs the tool, one thing at a time.

- `machine` - `TableAgrees`: a bound driver's table is complete and is the FPGA's;
  `MappedRight`: what a process sees at an offset is what the offset stands for;
  `RefsAccount`: pages have as many references as users, and all are given back if
  nothing failed; `NothingHeld`: an unloaded module holds nothing of the device,
  whatever failed; `Rescanned`: after `bsrescan` has reported success the device
  answers where the kernel looks for it; `RestoresCurrent`: what the manager
  restores is of this boot. Three pages, two processes, two addresses, one fault, two
  each of programming, reboot and load; pages and processes are symmetric. There is
  no liveness: it is the administrator who acts.

Each machine uses one tool. `FilesSynced` and `RunFirst` say that files survive a
reboot and that the manager is run before the FPGA is programmed; without either
`RestoresCurrent` is violated. With two faults `TableAgrees` and
`MappedRight` are: a removal
under a process, and an allocation that fails in the next probe, leave the count of
the first table with the pages of the second. Where `bsrescan` writes to a file it has closed
(`main.cpp` 105) the outcome is a choice: the write works, or the program dies.

### RecvTlp, MergeN, DramBurst, MCParts

Three small parts, checked in one run (`parts`) with the ring: a behaviour of
`PartsSpec` is one of one part.

`RecvTlp`: the unit is half a beat. The core may start a packet in either half;
packets have an even number of halves, as all do that a host sends to this device
(12 bytes of header alone, with 4 bytes, or with a multiple of 16). `PacketsWhole`:
the beats behind `tlpQ` are the packets', each half once and in order, and none is
held back between packets. A packet of an odd number of halves before one that starts
in mid-beat would lose its end.

`MergeN`: a tree of `mkMerge2` as a heap of nodes, four sources without a bound on
what they send; the items of one source are numbered modulo 2. `KeepsOrder`: those
inside the tree are the ones not yet out, in order. `NobodyStarves`: each comes out
although the others send without end. The rule `merge` also fires, and turns, when
both inputs are empty. Fairness: each node's `merge` and `ma1`, and `deq`.

`DramBurst`: two readers and two writers of the burst splitter, the burst
controller, and the controller's rows. A word at an odd address covers two rows;
bursts start at both and reach over two regions of the address permutation.
`ReadsFresh`: a reader gets its own words, in order, and each is what had been given
last for its address when it asked. The write bursts of the run (2 words) are longer
than `writerdQ` (1 entry). Those that are not (up to 8 words in the code) may be
overtaken: `curCnt` is 0 as soon as the words are in `writerdQ`, and the property is
violated. `DRAMHostDMA` writes multiples of 64 words, so what `HostDma` assumes is
right. Left out by the choice of bursts: words over the end of a 256 KB region, whose
second half goes to the row after it in the permuted order.

### ShmFifo, BoundedQueue

One access to shared memory per action, for a source and a drain. `BoundedQueue`
is the specification of a FIFO. `RingIsQueue` shows the ring implements it as
long as the source keeps at most `Size - 1` words under way, as `readWord`
does, and `RingGoesOn` that the sides never wait for each other (run `parts`).
`shm_lost` is what goes wrong without that restraint. Size 3 or 4 is enough to
wrap several times with at most 12 words. The side that creates the segment is
taken to finish its constructor before the other one maps it; nothing in the code
enforces that (the test and the store of the magic number are separate accesses).

## 3. Runs

12 runs: 9 pass, 3 reproduce a finding. Every property of a passing run has a
mutant: a definition and a plausible wrong version of it, both in the modules,
with which TLC finds the property violated. With two workers:

| Run | Distinct states | Minutes | Shows |
|---|---|---|---|
| `mmio_host` | 197,594 | 2 | the user queues and the credit that protects them; loads are answered |
| `mmio_fair` | 295,160 | 3 | calls return when user logic serves |
| `mmio_restart` | 5,394,810 | 3 | what a restarted process may find queued; the count of reads |
| `dma_read` | 151,808 | 2 | reads are an in-order memory, the link drains |
| `dma_send` | 270,306 | 3 | packets are framed, words go where they belong, everything leaves |
| `host_dma` | 397,583 | 3 | copies are atomic, also over a restart |
| `msg_queue` | 858,357 | 3 | messages in both directions arrive once, in order, whole |
| `machine` | 1,236,118 | 3 | driver, tools, reboots and one fault |
| `parts` | 148,852 | 2 | `RecvTlp`, `MergeN`, `DramBurst` and the ring |
| `mmio_leak` | 4,992 | 1 | violation of `CallsReturn`, finding 1 |
| `mmio_restart_hang` | 12,327 | 1 | violation of `CallsReturn`, finding 2 |
| `shm_lost` | 192 | 1 | violation of `NothingLost`, finding 3 |

Minutes are rounded up. Deadlock is checked in the MMIO runs, whose counters wrap so
that they never have to end. The others say `CHECK_DEADLOCK FALSE`: they end when what
their bounds allow has been done. That nothing blocks before is what their liveness
properties say; `machine`, where the administrator may stop at any time, has none.

## 4. Proofs

TLAPS proves, for every value of the constants that satisfies the `ASSUME`s:

| Theorem | Module | Says |
|---|---|---|
| `TypeCorrect` | `PcieMmioProofs` | `Spec => []TypeOK` |
| `CreditsAlwaysCover` | `PcieMmioProofs` | without restarts, `Spec => []CreditsCover` |
| `UserWritesAlwaysFit` | `PcieMmioProofs` | without restarts and with FIFOs of at least one entry, `Spec => []UserWritesFit` |
| `ReadCreditsAlwaysCover` | `PcieMmioProofs` | `Spec => []ReadCreditsCover` |
| `BacklogBounded` | `PcieMmioProofs` | if what all the starts may write fits the counters, `Spec => []RestartBacklog` |
| `ReadTypeCorrect` | `DmaReadProofs` | `Spec => []TypeOK` |
| `OutputAlwaysFits` | `DmaReadProofs` | `Spec => []OutputFits` |
| `DoneTagsAlwaysWait` | `DmaReadWords` | `Spec => []DoneTagsWait` |
| `ReadComesInOrder` | `DmaReadWords` | `Spec => ReadsInOrder`: the read engine refines `OrderedRead` |
| `SendTypeCorrect` | `DmaSendProofs` | `Spec => []TypeOK` |
| `BurstsHaveData` | `DmaSendProofs` | `Spec => []BurstHasData` |
| `AlwaysFramed` | `DmaSendProofs` | `Spec => []Framed` |
| `AlwaysInPlace` | `DmaSendProofs` | `Spec => []InPlace` |
| `TypesHold` | `HostDmaProofs` | `Spec => []TypeOK`, also with commands left under way |
| `SettledHolds` | `HostDmaProofs` | with restarts between commands only, `Spec => []Settled` |
| `CopiesAreAtomic` | `HostDmaProofs` | with restarts between commands only, `Spec => CopiesAtomic`: the copies refine `AtomicCopy` |
| `RecvWhole` | `PartsProofs` | `RecvSpec => []PacketsWhole` |
| `OrderKept` | `PartsProofs` | `MergeSpec => []KeepsOrder` |
| `FreshReads` | `PartsProofs` | with `BurstsFit` and `WritesFill`, `DramSpec => []ReadsFresh` |
| `MessagesArrive` | `MsgQueueProofs` | `Spec => []WordsArrive`, with or without early messages |
| `RingTypes` | `MsgQueueProofs` | without early messages, `Spec => []TypeOK` |
| `MessagesInOrder` | `MsgQueueProofs` | without early messages, `Spec => []InOrder` |
| `UntakenStays` | `MsgQueueProofs` | without early messages, `Spec => NotOverwritten` |
| `RingTypeCorrect` | `PartsProofs` | within the window, `Spec => []TypeOK` |
| `RingImplements` | `PartsProofs` | within the window, `Spec => RingIsQueue`: the ring refines `BoundedQueue` |
| `RefsAccounted` | `AdminToolsProofs` | `Spec => []RefsAccount`, with any number of faults |
| `TableHolds` | `AdminToolsProofs` | with at most one fault, `Spec => []TableAgrees` |
| `MappedHolds` | `AdminToolsProofs` | with at most one fault, `Spec => []MappedRight` |
| `HeldHolds` | `AdminToolsProofs` | `Spec => []NothingHeld` |
| `RescanHolds` | `AdminToolsProofs` | `Spec => []Rescanned` |
| `RestoreHolds` | `AdminToolsProofs` | with `FilesSynced` and `RunFirst`, `Spec => RestoresCurrent` |

*MMIO types.* `TypeOK` is not inductive: a counter value that comes back must be
within its width to be subtracted. `TypeInv` adds this for answers and locals.

*Write credit.* `CreditsCover` says that what is in flight and the budget
together are at most the modular difference of the two counters. The refill
sets the budget from a value read earlier, so the invariant `CreditInv` says of
every such value, wherever it is, that it is old in the harmless direction
(`Stale`): with it the host sees at least as much outstanding as there is. That
is preserved because the counter on the FPGA only moves towards `io_wreq`, never
past it, and because nobody else sends while the value is on its way: the loader
holds `write_lock` and its budget is used up (`Locked`), and its load exists
once (`OneAsk`, `AnsweredOnce`). Without the last two a second value could be
answered after the first had been used. The theorems assume `MaxRestarts = 0`:
after a restart the statement is false (`mmio_restart_hang`).

*Read credit.* `read_lock` is held until a load has returned, so at most one load of
`readWord`, of a word or of its counter, is under way: `ReadOne` says in which queue
it is. While the counter is being loaded no read is, so the counter stands still and what
comes back is exact (`LoadedExact`), unlike the write counter. `ReadCounted` is then that
the budget and the reads charged but not counted by the FPGA are at most the queue.

*Restarts.* Until the store that resets the counters takes effect, the words in front of
it are left from earlier processes (`Old`) and those behind it are of this one (`New`).
`BacklogInv` bounds their sum by one allowance per start. The FPGA's counter may overtake
the host's (finding 2), after which the registers no longer show the difference of the two;
the invariant has it as an integer, `lead`, that is below the modulus and differs from the
registers' by a multiple of it. `BacklogBounded` assumes
`(MaxRestarts + 2) * (IO_QUEUE_SIZE + 1) < WordMod`: with 2^32 and 513 words, about eight
million starts of the program without programming the FPGA. The run `mmio_restart` has
`WordMod = 5`, which does not satisfy it: TLC checks there what is not proved.

*Read engine.* `ReadInv` strengthens `TypeOK` with what keeps indices in
range: a piece of a completion ends within its burst (`Joined`), a flush reads
words of its own burst (`Flushing`), and the difference of the 8-bit counters is
exactly the number of words in the output queue (`Counted`), from which
`OutputFits` follows through the guard of `flushReadTag`.

*Words read.* What the user is given depends on everything since the request was made:
how it was cut, which bursts had the tag before, in which pieces the answer came. A
state does not hold that any more, so `WordsInv` says that there is a record `g` of
sequences that only grow, of which the state is an image (`Told`): `asks` and the
`bursts` they were cut into, and the `pieces` and `words` of the root complex in the
order of the link. The parts of `Told` go along the path of a word:

- `Cut`: the bursts tile the requests, and are on one page of the bus each.
- `InOrder`, `Paged`: the queues of bursts and of page lookups are consecutive
  entries of `bursts`, so one number per queue tells where it stands.
- `Owned`, `Staged`: which burst has a tag now, and how far it has come: asked, all
  words there, its done bits toggled, its turn. The two toggled bit maps differ at a tag
  exactly when its burst is complete and not yet compared; this is where
  `DoneTagsWait` comes from.
- `Answered`, `Linked`, `Joining`: what is in `tlpQ` and behind it are the pieces and
  words that follow those written; the words of one tag come in the order of their
  places, with no gap; `tagMap` and the scoreboard give the place of the next piece,
  also when two pieces of one burst follow each other.
- `Kept`, `Flushed`: the words that have come are in `readReorder` until they are
  copied out, in the order of the bursts.

`g` is not part of the model: each step's lemma gives the record after the step.
TLC checked `Told` first, with `g` as a variable, on the instance of `dma_read`
(660,230 states). `ReadsInOrder` follows: what leaves `dmaReadOutQ` is the next entry of
`asked`, and `asked` and `delivered` change in `dmaReadReq` and `dmaReadWord` alone.

*Write engine.* `SendInv` is a conjunction of six parts: requests being split
(`ReqInv`), page lookups (`PageInv`), tags (`TagInv`: the busy ones are the bursts
that wait and the one being sent), words (`WordInv`: the difference of the two
10-bit counters is the words present less those owed to the burst being sent),
beats (`BeatInv`) and framing (`FrameInv`). `Framed` speaks of the head of
`sendTLPQ` only and is not inductive; `FrameInv` says that there is a function that
gives, for every place in the queue, how many data beats are still to come after
it, which starts at what the link waits for and ends at what the burst being sent
still owes. The counters may only be wider than the words they count
(`SendAssumption`). `PlaceInv`, for `InPlace`, follows
the number of the next word from queue to queue: every queue is a path, each entry a
step that moves this number on by its words and stands for exactly the bus addresses asked
for at that place. For writes the path goes from the link over the beats in `sendTLPQ`, the
burst being sent and the bursts that wait for their words (`Tiled`) to the requests that
are not cut yet (`Requested`); for reads likewise. `bufidxQ` holds the pages of both
directions; on the path of one the entries of the other do not move it.

*Messages to the FPGA.* `WordInv` says that every queue on the way is a path: the words in
`userWriteQ` and then those in `down` turn what the registers of `userWriteReq` hold, and
the number of messages complete so far, into what the programs have offered. It holds for
words of a killed program too, so `MessagesArrive` needs no assumption.

*Messages to the host.* `Inv(b)` counts: of the messages of this start the FPGA has given
`Started` a slot, and of their words it has queued `Queued`, sent `Gone`, and host memory
has `Landed`. Everything else follows from these counts.

- The `k`-th message is in slot `b + k`; `b`, which the program
  has to find, is where `enqOffset` was when the program started (`SomeInv` is that there is
  such a `b`).
- `UpInv`, `WriteInv`, `QueueInv`: what is under way, in each queue, is the next words.
- `SlotsInv`: a slot holds what landed in it last, or what the constructor has left, also
  when one word of a message has landed and the other has not.
- `ScanInv`: a scan that finds the next number stands at the next message, both words of
  which have landed; this needs more numbers than slots (`MsgAssumption`; 2^32 and 128).
- `TakenInv`: at most `Slots` messages are started and not taken, hence `NotOverwritten`.
- `CreditInv`: the FPGA has a number `R` that was reported, the reports in `down` lead
  from `R` to the last one, and `Started <= R + Slots`: credit that is late is too small.
- `ResetInv`: no message is under way while the two counters are reset, and the resets are
  behind everything that the killed program has reported.

`ResetInv` is why user logic has to wait for the constructor (`~EarlyMessages`), as in
the run `msg_queue`. Nothing in the source makes it wait.

*DRAM copies.* `TypeInv` says where a thread is in its loop (`Loops`: offset, pages left and
bytes done are functions of the number of the chunk), that only the holder of the mutex is
in it (`Alone`) with at most one load under way (`OneAnswer`), and that every command and burst
stays in the DRAM (`CommandsFit`, `BurstsFit`). That is enough for `TypeOK`, whatever
restarts leave behind. For the rest, `Inv` has two parts: `QuietInv`, that nothing is under
way when nobody has the mutex, from which `Settled` follows; and `BusyInv`, how far the copy of
the holder has come, counted in cells of the copy as a whole rather than of a chunk.

- `CountInv`: commands are issued in the order of the chunks, at most one of them is not
  yet reported when a half is used again, and a count the host has loaded is old in the
  harmless direction.
- `CommandInv`: the words in `down`, taken from the words the FPGA holds, are a path
  through the three words of each command: no word of one command ends in another.
- `ToInv`, to the FPGA: three numbers, of the cells `Asked` of host memory, `Arrived` and
  `Written` to DRAM, each at most the one before. Tags, `reads`, answers and bursts are what
  lies between them; the halves filled last hold their chunks (`ToBuffer`), the chunk before
  them having been written by `CountInv`; and the DRAM holds the cells written and, elsewhere,
  what it held before (`ToMemory`).
- `FromInv`, from the FPGA: the cells `Wanted`, `Fetched` from DRAM, `Handed` to PcieCtrl
  and landed; the writes in `up` are a path from the last cell landed to the last handed over, on which a
  count stands behind the cells it counts (`FromLink`). So a half that the host empties
  has landed as a whole (`FromLanded`), and the chunk that will land in it next has not been
  asked for.

A copy has any number of chunks, so the arithmetic of chunks, pages and halves (`Edges`,
`Places`, `Halves`) is about any position in it. `SettledHolds` and `CopiesAreAtomic` assume
`~RestartUnderWay`, as the run `host_dma` does; the statements are false without it.
TLC checked `Inv` on four instances before it was proved. `CallsAssumption` is that callers
stay in the DRAM; the code does not test it.

*Ring.* `RingInv` adds to the types in which order the constructor runs (`SetUp`),
whose turn it is (`Turns`), that `headidx` is `tailidx` plus the words under way,
modulo the size (`Room`), and that those words are in their places (`Stored`).
`tailidx == size` is never read as a place because the source stops at a window
below the size: the theorems assume `Window <= Size - 1`, without which `shm_lost`
is what happens.

*Realignment.* `RecvInv`: either the core is at a boundary of the beats behind
`tlpQ`, nothing waits and an even number of halves is left of the packet; or it is one
half past it, that half is in `partBuffer`, and the number is odd.

*Merges.* Halving the number of a source again and again gives the nodes its items pass
(`Way`). The input queues and output queues on that way are a path from `got`, at the root, to
`put`, at the source: each item of the source carries the number reached and adds one, each
other item leaves it (`Counts`), and off the way there is no item of the source
(`Elsewhere`). Every rule takes from the head of one queue on the way and gives to the tail of the
one before it, or stays off the way. `KeepsOrder` is that path read off `Along`, a
recursive function over the tree; it is a function on a finite set, which exists by
the least number at which it would not (`AlongExists`), so no induction theorem is needed.

*DRAM bursts.* `BurstInv` says where the words of a burst are. `Behind`: what the memory will be
(`fin`) when the rows in `reqs` and the commands in `cmdQ` are done, of which one may
be half done; writes come before reads there, because a read is started only when the
burst controller has passed on every word of the write before. `Phase`: nothing is to be read, and the words a writer has given
or owes lead, one by one, from the memory as clients see it, `Logical(fin)`, to `latest`
(`WriteSide`); or a read waits in front of the burst controller; or one is under way
(`Reading`), cut by nine counters into what has passed the splitter, passed the burst
controller, been shifted, used, synchronised, read, asked for in rows, asked for in
words, and what is left. Then every word given has passed it too, so that
`latest = Logical(fin)`, and a row read from the memory holds what is expected
(`FreshWords`, `EvenRow`, `OddRows`). `NewRowOne` and `NewRowNext` are the facts of the address
permutation this needs: it takes no two rows to one, and keeps neighbours of a region
together. Two hypotheses, which TLC evaluates for the bursts of the run (`MCBursts`):
`BurstsFit`, that bursts lie in the memory and no word at an odd address begins at the
last row of a region, and `WritesFill`, that a write burst is longer than `writerdQ`. Without
the second the property is false (section 3). `DRAMHostDMA` keeps to both with the
bursts of its own: they are of whole pages of 64 words.

*Driver and tools.* `HeldInv` says what is held at every step of probe and removal,
so that whichever fails gives back what it has taken. `Places` says which steps
of which tool can be under way, `RescanInv` and `ManagerInv` what the machine and the
files are at each of them; `DeviceKept` is the lemma that the driver's own steps
leave the device's address alone. `DeviceInv` says when
the device's address is the one the driver has mapped; `EntriesInv`, that the table is empty
behind the page under way; `CopyInv`, that the FPGA's copy agrees with it up to there;
`ViewsInv`, that a mapping that is not stale is the one `bdbm_mmap` would make now. `RefsInv`
counts for each page the table's reference and those of the processes: at least so many
are held, and exactly so many until a step has failed. `TableInv` is where faults matter:
`dma_pages_count` is not reset by a removal, so that a probe that fails meets the count of the
one before. With one fault the removal that left it was the fault (`NoMore`); with
`MaxFaults = 2` TLC finds `TableAgrees` and `MappedRight` violated. `DriverAssumption` has what
`TableAgrees` compares: the program maps more than the table, from its start (4 MB are 1024
pages, the table has at most 256; `cpp/bdbmpcie.h` 11, `cpp/bdbmpcie.cpp` 107).

Only model-checked: all liveness, which is out of the prover's reach.

## 5. Findings

1. `mmio_leak`. `userReadEmit` is "required for flow control" but counts reads of
   user space only, while the host charges every read. After a queue of reads of
   other addresses `readWord` waits for ever.
2. `mmio_restart_hang`. The store that "resets the remit,wemit registers" leaves
   the words of the previous process queued. One that user logic takes after the
   reset is counted; `io_wreq - io_wemit` is then 2^32 - 1 and the new process never
   leaves the loop of its first `writeWord`.
3. `shm_lost`. `pop` stores an index past the end before it wraps it; at that
   moment `full` misses a full ring and the source overwrites it.

## 6. Not modelled

- `DMACircularQueue.bsv` and the DMA helpers: written against an interface with
  user-visible tags that `PcieCtrl` no longer has. `DMACircularQueue.bsv` uses a name
  it does not define (line 58) and declares `enqSyncQ` twice (47, 91); no behaviour
  of it can be observed.
- `ScatterN.bsv`, the scatters and burst merges of `MergeN.bsv`: nothing in the
  repository instantiates them; `ScatterN.bsv` 3 doubts itself.
- User logic's own DMA through `DMAWideCtrl`: it throws the words of reads away, and
  compares the words given for writes, counted by 32 bytes, with requests counted by
  16 (139, 290, 295).
- The chained port of `DRAMHostDMA` (402-476) and `DRAMController` accesses of less
  than 64 bytes. For these, a read at an offset that fits one row is shifted as
  if it had two (line 200), and a write of 0 bytes is a read to the memory.
- The driver's interrupts, which are never registered, so that `poll` never
  reports; the DMA unmapping of pages, to which removal gives a byte of a register
  (`bdbmpcie.c` 261-274), before it takes the device's bus mastering away. A `chrdev_init` that fails leaves the driver registered in a module that
  is gone (the state `"orphan"`).
- Changes of user id in the tools, a device found by its ids among others, the
  udev rule itself.
- `DRAMHostDMA::CopyFromFPGA` clears up to half a DMA buffer behind the caller's
  bytes (`DRAMHostDMA.cpp` 182); the memory behind a caller's is not in the model, nor is
  the unsynchronised `GetInstance`.
- The simulated DMA methods and the interrupt FIFO of `PcieCtrl_bsim.bsv`.
- Shifters (combinational), examples (users of the library; the models have any user
  that keeps to the methods), vendor cores and board files.
- Data formats (byte order, TLP fields other than kind, tag, length and address), and
  clock domain crossings other than as queues.

## 7. What could follow

1. `DmaSend` and `HostDma` composed, without the assumption that an answer stays
   behind the writes before it: what the root complex lets the host observe.
2. Restarts with commands under way in `HostDma`, and messages during the
   constructor in `MsgQueue`: which change of the code makes the properties hold.
3. A ring whose two sides construct it at the same time.
