-------------------------------- MODULE Driver --------------------------------
(***************************************************************************)
(* The Linux driver, src/distribute/driver/bdbmpcie.c: it finds the device,*)
(* allocates the pages of the DMA buffer, writes their bus addresses into  *)
(* the FPGA, and maps the registers and the pages into processes.          *)
(*                                                                         *)
(* A page is a model value and stands for its bus address; sizes and       *)
(* offsets of mappings are in pages.  A probe or a removal is one thread of*)
(* steps (the kernel holds the device's lock); processes run beside it.    *)
(* The interrupt handler is never registered, so poll has nothing to say;  *)
(* the DMA mapping of a page (an IOMMU's, if there is one) is not tracked. *)
(***************************************************************************)
EXTENDS Integers, FiniteSets

CONSTANTS
  Pages,      \* pages of memory for DMA
  None,       \* no page, no address, no mapping
  NumPages,   \* pages of the DMA buffer (256)
  BarPages,   \* pages of BAR 0 (256)
  Wrap,       \* an unsigned int holds offsets below this many pages
  Procs,      \* processes
  Maps,       \* mappings a process may ask for, <<offset, size>>
  HostMap,    \* the one BdbmPcie makes of the DMA buffer
  Addrs,      \* addresses the device may be given
  MaxFaults   \* bound: steps that fail, removals under a process

\* what a process may see at an offset: a page, a place in BAR 0
Views == Pages \cup {None} \cup ((Addrs \cup {None}) \X Nat)
Vmas(m) == [off : {m[1]}, stale : BOOLEAN, at : [0 .. m[2] - 1 -> Views]]

(* BdbmPcie maps more than the buffer (DMA_BUFFER_SIZE), from its start.   *)
ASSUME DriverAssumption ==
  /\ NumPages \in Nat \ {0} /\ BarPages \in Nat \ {0} /\ MaxFaults \in Nat
  /\ IsFiniteSet(Procs) /\ Wrap \in Nat
  /\ Maps \subseteq Nat \X Nat /\ \A m \in Maps : m[1] + m[2] < Wrap
  /\ HostMap \in Maps /\ HostMap[1] = BarPages /\ HostMap[2] > NumPages
  /\ None \notin Pages \cup Addrs /\ \A m \in Maps : None \notin Vmas(m)

VARIABLES
  \* the FPGA: configured, its BAR and command registers, its page table
  up, bar, command, configBuffer,
  \* the kernel: the device is known, its address, what the driver holds of it
  listed, res, enabled, regions, refs,
  \* the module
  module, bound, bar0_addr, bar0_ptr, table, dma_pages, dma_pages_count, chrdev,
  step, bufidx, after,
  \* processes with the device file open, and what they have mapped
  open, vmas,
  faults

fpgaVars   == <<up, bar, command, configBuffer>>
kernelVars == <<listed, res, enabled, regions, refs>>
moduleVars == <<module, bound, bar0_addr, bar0_ptr, table, dma_pages, dma_pages_count, chrdev>>
stepVars   == <<step, bufidx, after>>
procVars   == <<open, vmas>>
driverVars == <<fpgaVars, kernelVars, moduleVars, stepVars, procVars, faults>>

Idx == 0 .. NumPages - 1
Empty == [i \in Idx |-> None]

(* The device answers at the address the kernel has for it.                *)
Answers == up /\ bar = res /\ "mem" \in command

Fault == faults < MaxFaults /\ faults' = faults + 1

(***************************************************************************)
(* Loading: pcie_init, pcie_probe and create_dma_buffer, chrdev_init.      *)
(***************************************************************************)
(* The module's statics start afresh.  A device that is there is probed.   *)
pcie_init ==
  /\ module = "out" /\ step = "idle"
  /\ module' = "in"
  /\ bar0_addr' = None /\ bar0_ptr' = FALSE
  /\ table' = "null" /\ dma_pages' = Empty /\ dma_pages_count' = 0
  /\ step' = IF listed THEN "enable" ELSE "chrdev"
  /\ after' = "chrdev"
  /\ UNCHANGED <<fpgaVars, kernelVars, bound, chrdev, bufidx, procVars, faults>>

(* A probe that fails disables the device and leaves the driver registered *)
(* without it; what called it goes on as after one that succeeds.          *)
ProbeFails ==
  /\ Fault /\ step' = after
  /\ command' = command \ {"master"}
  /\ UNCHANGED <<up, bar, configBuffer>>

Bind == bound' = TRUE /\ step' = after

pci_enable_device ==
  /\ step = "enable"
  /\ \/ /\ enabled' = TRUE /\ command' = command \cup {"mem"}
        /\ step' = "regions" /\ UNCHANGED <<up, bar, configBuffer, faults>>
     \/ Fault /\ step' = after /\ UNCHANGED <<enabled, fpgaVars>>
  /\ UNCHANGED <<listed, res, regions, refs, moduleVars, bufidx, after, procVars>>

(* The BAR's type is wrong, or its region is taken: the device is disabled.*)
pci_request_regions ==
  /\ step = "regions"
  /\ \/ /\ regions' = TRUE /\ bar0_addr' = res
        /\ step' = "iomap" /\ UNCHANGED <<enabled, fpgaVars, faults>>
     \/ /\ ProbeFails /\ enabled' = FALSE
        /\ bar0_addr' \in {bar0_addr, res} /\ UNCHANGED regions
  /\ UNCHANGED <<listed, res, refs, module, bound, bar0_ptr, table, dma_pages,
                 dma_pages_count, chrdev, bufidx, after, procVars>>

\* mutant of pci_iomap
pci_iomapHolds ==
  /\ step = "iomap"
  /\ \/ /\ bar0_ptr' = TRUE
        /\ step' = "master" /\ UNCHANGED <<regions, enabled, fpgaVars, faults>>
     \/ /\ ProbeFails /\ bar0_ptr' = FALSE
        /\ UNCHANGED regions /\ enabled' = FALSE
  /\ UNCHANGED <<listed, res, refs, module, bound, bar0_addr, table, dma_pages,
                 dma_pages_count, chrdev, bufidx, after, procVars>>

pci_iomap ==
  /\ step = "iomap"
  /\ \/ /\ bar0_ptr' = TRUE
        /\ step' = "master" /\ UNCHANGED <<regions, enabled, fpgaVars, faults>>
     \/ /\ ProbeFails /\ bar0_ptr' = FALSE
        /\ regions' = FALSE /\ enabled' = FALSE
  /\ UNCHANGED <<listed, res, refs, module, bound, bar0_addr, table, dma_pages,
                 dma_pages_count, chrdev, bufidx, after, procVars>>

(* From here on the FPGA may use what its page table holds.                *)
pci_set_master ==
  /\ step = "master" /\ step' = "kmalloc"
  /\ command' = command \cup {"master"}
  /\ UNCHANGED <<up, bar, configBuffer, kernelVars, moduleVars, bufidx, after, procVars, faults>>

\* mutant of kmalloc
kmallocKeeps ==
  /\ step = "kmalloc" /\ bufidx' = 0
  /\ \/ table # "null" /\ Bind /\ UNCHANGED <<table, dma_pages, faults>>
     \/ table = "null" /\ table' = "live" /\ step' = "page" /\ dma_pages' = Empty
        /\ UNCHANGED <<bound, faults>>
  /\ UNCHANGED <<fpgaVars, kernelVars, module, bar0_addr, bar0_ptr, dma_pages_count, chrdev,
                 after, procVars>>

(* create_dma_buffer.  Whatever of it fails, the probe has succeeded.      *)
kmalloc ==
  /\ step = "kmalloc"
  /\ dma_pages' = Empty /\ bufidx' = 0
  /\ \/ table' = "live" /\ step' = "page" /\ UNCHANGED <<bound, faults>>
     \/ table' = "null" /\ Bind /\ Fault
  /\ UNCHANGED <<fpgaVars, kernelVars, module, bar0_addr, bar0_ptr, dma_pages_count, chrdev,
                 after, procVars>>

Tell(entry) == configBuffer' = IF Answers THEN [configBuffer EXCEPT ![bufidx] = entry]
                               ELSE configBuffer

(* One page: allocated, put in the table, mapped for DMA, its address      *)
(* written to the FPGA, and only then is the mapping looked at.            *)
alloc_page ==
  /\ step = "page"
  /\ \/ Fault /\ Bind /\ UNCHANGED <<refs, dma_pages, configBuffer, dma_pages_count, bufidx>>
     \/ \E p \in Pages :
          /\ refs[p] = 0 /\ refs' = [refs EXCEPT ![p] = 1]
          /\ dma_pages' = [dma_pages EXCEPT ![bufidx] = p]
          /\ \/ Tell(None) /\ Fault /\ Bind /\ UNCHANGED <<dma_pages_count, bufidx>>
             \/ /\ Tell(p) /\ UNCHANGED faults
                /\ bufidx' = bufidx + 1
                /\ IF bufidx' < NumPages THEN UNCHANGED <<step, bound, dma_pages_count>>
                   ELSE dma_pages_count' = NumPages /\ Bind
  /\ UNCHANGED <<up, bar, command, listed, res, enabled, regions, module, bar0_addr, bar0_ptr,
                 table, chrdev, after, procVars>>

(* The device file.  When it cannot be made the module goes, and the driver*)
(* stays registered: nothing more can be said of the machine.              *)
chrdev_init ==
  /\ step = "chrdev"
  /\ \/ chrdev' = TRUE /\ step' = "idle" /\ UNCHANGED <<module, faults>>
     \/ Fault /\ module' = "orphan" /\ step' = "dead" /\ UNCHANGED chrdev
  /\ UNCHANGED <<fpgaVars, kernelVars, bound, bar0_addr, bar0_ptr, table, dma_pages,
                 dma_pages_count, bufidx, after, procVars>>

(***************************************************************************)
(* Unloading: pcie_exit, and pcie_remove, which the kernel also calls when *)
(* the device goes.                                                        *)
(***************************************************************************)
pcie_exit ==
  /\ module = "in" /\ open = {} /\ step = "idle"
  /\ step' = IF bound THEN "remove" ELSE "exit"
  /\ after' = "exit"
  /\ UNCHANGED <<fpgaVars, kernelVars, moduleVars, bufidx, procVars, faults>>

Count(p, n) == Cardinality({i \in 0 .. n - 1 : dma_pages[i] = p})

\* mutant of FreePages
FreePagesFewer ==
  /\ step = "remove" /\ step' = "release"
  /\ refs' = [p \in Pages |-> refs[p] - Count(p, dma_pages_count - 1)]
  /\ table' = IF table = "null" THEN "null" ELSE "freed"
  /\ vmas' = [q \in Procs |-> IF vmas[q] = None THEN None ELSE [vmas[q] EXCEPT !.stale = TRUE]]
  /\ UNCHANGED <<fpgaVars, listed, res, enabled, regions, module, bound, bar0_addr, bar0_ptr,
                 dma_pages, dma_pages_count, chrdev, bufidx, after, open, faults>>

(* The pages are given back first: __free_page drops one reference.        *)
FreePages ==
  /\ step = "remove" /\ step' = "release"
  /\ refs' = [p \in Pages |-> refs[p] - Count(p, dma_pages_count)]
  /\ table' = IF table = "null" THEN "null" ELSE "freed"
  /\ vmas' = [q \in Procs |-> IF vmas[q] = None THEN None ELSE [vmas[q] EXCEPT !.stale = TRUE]]
  /\ UNCHANGED <<fpgaVars, listed, res, enabled, regions, module, bound, bar0_addr, bar0_ptr,
                 dma_pages, dma_pages_count, chrdev, bufidx, after, open, faults>>

Release ==
  /\ step = "release" /\ step' = after
  /\ command' = command \ {"master"}
  /\ bar0_ptr' = FALSE /\ regions' = FALSE /\ enabled' = FALSE /\ bound' = FALSE
  /\ UNCHANGED <<up, bar, configBuffer, listed, res, refs, module, bar0_addr, table, dma_pages,
                 dma_pages_count, chrdev, bufidx, after, procVars, faults>>

ExitDone ==
  /\ step = "exit" /\ step' = "idle"
  /\ module' = "out" /\ chrdev' = FALSE
  /\ UNCHANGED <<fpgaVars, kernelVars, bound, bar0_addr, bar0_ptr, table, dma_pages,
                 dma_pages_count, bufidx, after, procVars, faults>>

(***************************************************************************)
(* Processes.                                                              *)
(***************************************************************************)
bdbm_open(q) ==
  /\ chrdev /\ module = "in" /\ after # "exit"
  /\ q \notin open /\ open' = open \cup {q}
  /\ UNCHANGED <<fpgaVars, kernelVars, moduleVars, stepVars, vmas, faults>>

\* mutant of Place
PlaceZero(off, i) == i

(* Page i of the buffer is inserted when its offset lies in the mapping    *)
(* (the last one when there is room behind it); the place is an unsigned   *)
(* int, and vm_insert_page refuses one outside the mapping.                *)
Place(off, i) == ((BarPages - off) % Wrap) + i
Inserted(off, size, i) ==
  /\ off + size > BarPages
  /\ BarPages + i >= off /\ BarPages + i + 1 < off + size
  /\ Place(off, i) < size

Mapping(off, size) ==
  [off |-> off, stale |-> FALSE, at |-> [k \in 0 .. size - 1 |->
     IF off + k < BarPages THEN <<bar0_addr, off + k>>
     ELSE LET here == {i \in 0 .. dma_pages_count - 1 : Inserted(off, size, i) /\ Place(off, i) = k}
          IN  IF here = {} THEN None ELSE dma_pages[CHOOSE i \in here : TRUE]]]

UsedAt(v, p) == IF v = None THEN {} ELSE {k \in DOMAIN v.at : v.at[k] = p}
Uses(v, p) == Cardinality(UsedAt(v, p))

(* A process maps while the driver has the device; a page that is inserted *)
(* has one reference more.                                                 *)
bdbm_mmap(q) ==
  /\ q \in open /\ vmas[q] = None /\ bound /\ step = "idle"
  /\ \E m \in Maps : vmas' = [vmas EXCEPT ![q] = Mapping(m[1], m[2])]
  /\ refs' = [p \in Pages |-> refs[p] + Uses(vmas'[q], p)]
  /\ UNCHANGED <<fpgaVars, listed, res, enabled, regions, moduleVars, stepVars, open, faults>>

(* The process ends, in whatever way.                                      *)
Close(q) ==
  /\ q \in open /\ open' = open \ {q}
  /\ refs' = [p \in Pages |-> refs[p] - Uses(vmas[q], p)]
  /\ vmas' = [vmas EXCEPT ![q] = None]
  /\ UNCHANGED <<fpgaVars, listed, res, enabled, regions, moduleVars, stepVars, faults>>

-----------------------------------------------------------------------------
DriverInit ==
  /\ up \in BOOLEAN /\ listed = up
  /\ res \in IF up THEN Addrs ELSE {None}
  /\ bar = res /\ command = {} /\ configBuffer = Empty
  /\ enabled = FALSE /\ regions = FALSE /\ refs = [p \in Pages |-> 0]
  /\ module = "out" /\ bound = FALSE /\ bar0_addr = None /\ bar0_ptr = FALSE
  /\ table = "null" /\ dma_pages = Empty /\ dma_pages_count = 0 /\ chrdev = FALSE
  /\ step = "idle" /\ bufidx = 0 /\ after = "idle"
  /\ open = {} /\ vmas = [q \in Procs |-> None] /\ faults = 0

(* What goes on once it has been started.                                  *)
DriverStep == \/ pci_enable_device \/ pci_request_regions \/ pci_iomap \/ pci_set_master
              \/ kmalloc \/ alloc_page \/ chrdev_init \/ FreePages \/ Release \/ ExitDone

ProcessStep == \E q \in Procs : bdbm_open(q) \/ bdbm_mmap(q) \/ Close(q)

-----------------------------------------------------------------------------
Complete == bound /\ step = "idle" /\ dma_pages_count = NumPages

(* The FPGA's page table is the driver's, entry by entry, and every page   *)
(* in it is allocated, whatever was loaded, programmed and removed before. *)
TableAgrees ==
  Complete =>
    /\ table = "live" /\ \A i \in Idx : dma_pages[i] # None /\ refs[dma_pages[i]] > 0
    /\ Answers => configBuffer = dma_pages

(* What a process sees at an offset is what the offset stands for: BAR 0 of*)
(* the device, or that page of the buffer; and the mapping BdbmPcie makes  *)
(* shows the whole buffer.                                                 *)
MappedRight ==
  \A q \in open : LET v == vmas[q] IN
    (v # None /\ ~v.stale) =>
      \A k \in DOMAIN v.at : LET o == v.off + k IN
        IF o < BarPages THEN v.at[k] = <<res, o>>
        ELSE /\ v.at[k] # None => v.at[k] = dma_pages[o - BarPages]
             /\ v.off = HostMap[1] /\ o - BarPages < dma_pages_count
                /\ DOMAIN v.at = 0 .. HostMap[2] - 1 => v.at[k] # None

Held(p) == IF bound /\ step # "release" /\ table = "live" THEN Count(p, dma_pages_count) ELSE 0
Seen(p) == Cardinality(UNION {{<<q, k>> : k \in UsedAt(vmas[q], p)} : q \in Procs})

(* An unloaded module holds nothing of the device: no region, no mapping of*)
(* its BAR, no enabled device, no device file.                             *)
NothingHeld ==
  module = "out" =>
    ~enabled /\ ~regions /\ ~bar0_ptr /\ ~bound /\ ~chrdev /\ open = {}

(* A page has a reference for the driver's table and one for each place a  *)
(* process has it: none that is seen or written to is given to another, and*)
(* none is given back twice.  When no step has failed, an unloaded module  *)
(* has given all of them back.                                             *)
RefsAccount ==
  /\ \A p \in Pages : refs[p] >= Held(p) + Seen(p)
  /\ module = "out" /\ faults = 0 => \A p \in Pages : refs[p] = 0
=============================================================================
