--------------------------- MODULE AdminToolsProofs ---------------------------
(***************************************************************************)
(* Proofs about AdminTools, for any number of pages, processes, faults,    *)
(* programmings, loads and reboots:                                        *)
(*   - an unloaded driver holds nothing of the device;                     *)
(*   - after bsrescan has reported success, the device answers where the   *)
(*     kernel looks for it;                                                *)
(*   - what the manager restores is of this boot, provided that files      *)
(*     survive a reboot and that it is run before the FPGA is programmed;  *)
(*   - every page has the references of the places that hold it;           *)
(*   - with at most one step that fails, the FPGA's page table is the      *)
(*     driver's, and processes see what they have mapped.                  *)
(***************************************************************************)
EXTENDS AdminTools, FiniteSetTheorems, TLAPS

-----------------------------------------------------------------------------
(* What the device and the kernel say of each other is not changed by the  *)
(* driver or by a process, and memory accesses stay enabled.               *)
DeviceKept == /\ UNCHANGED <<up, bar, listed, res>>
              /\ "mem" \in command => "mem" \in command'

LEMMA DriverKeeps ==
  ASSUME DriverStep \/ ProcessStep \/ pcie_init \/ pcie_exit
  PROVE  DeviceKept
<1>1. CASE pci_enable_device
  BY <1>1 DEF pci_enable_device, DeviceKept, fpgaVars
<1>2. CASE pci_request_regions
  BY <1>2 DEF pci_request_regions, ProbeFails, DeviceKept, fpgaVars
<1>3. CASE pci_iomap
  BY <1>3 DEF pci_iomap, ProbeFails, DeviceKept, fpgaVars
<1>4. CASE pci_set_master
  BY <1>4 DEF pci_set_master, DeviceKept, kernelVars
<1>5. CASE kmalloc
  BY <1>5 DEF kmalloc, DeviceKept, fpgaVars, kernelVars
<1>6. CASE alloc_page
  BY <1>6 DEF alloc_page, DeviceKept
<1>7. CASE chrdev_init \/ ExitDone \/ pcie_init \/ pcie_exit
  BY <1>7 DEF chrdev_init, ExitDone, pcie_init, pcie_exit, DeviceKept, fpgaVars, kernelVars
<1>8. CASE FreePages \/ Release
  BY <1>8 DEF FreePages, Release, DeviceKept, fpgaVars
<1>9. CASE ProcessStep
  BY <1>9 DEF ProcessStep, bdbm_open, bdbm_mmap, Close, DeviceKept, fpgaVars, kernelVars
<1> QED
  BY <1>1, <1>2, <1>3, <1>4, <1>5, <1>6, <1>7, <1>8, <1>9 DEF DriverStep

(* A buffer with something in it is not an empty one.                      *)
LEMMA KindsDiffer ==
  /\ Nothing.kind = "nothing" /\ NoFile.kind = "no file" /\ NoBytes.kind = "no bytes"
  /\ Command7.kind = "command" /\ TheConfig.kind = "all"
  /\ Command7 # Nothing /\ "mem" \in Command7.command /\ TheConfig.bar = bar
BY DEF Nothing, NoFile, NoBytes, Command7, TheConfig

-----------------------------------------------------------------------------
(* Each tool has its own steps.                                            *)
Places ==
  /\ tool \in {"bsrescan", "manager"}
  /\ tool = "bsrescan" => tpc \in {"idle", "unload", "remove", "unlist", "rescan", "config", "exit"}
  /\ tool = "manager" => tpc \in {"idle", "restore", "reboot", "rebooting", "exit"}

(* bsrescan: once the device has been found again, it stays where it is    *)
(* until the tool has ended, and only a success leaves something to write. *)
RescanInv ==
  tool = "bsrescan" =>
    /\ listed \/ tpc # "idle" => up
    /\ tpc = "rescan" => ~listed
    /\ tpc = "config" /\ listed => bar = res
    /\ tpc = "exit" /\ result = "ok" => listed /\ bar = res /\ toConfig = Command7
    /\ tpc # "exit" \/ result # "ok" => toConfig = Nothing
    /\ tpc = "idle" /\ result = "ok" /\ bar # None => listed /\ bar = res /\ "mem" \in command

(* The manager: what is under way to the device, and what the file holds   *)
(* unless a reboot has been asked for, is of this boot.                    *)
Present(c) == c.kind = "all" => c.bar = res

ManagerInv ==
  tool = "manager" =>
    /\ Present(toConfig) /\ Present(toBackup)
    /\ toConfig = Nothing \/ toConfig.kind = "all"
    /\ toBackup = Nothing \/ toBackup.kind = "all"
    /\ backup \in {NoFile, NoBytes} \/ backup.kind = "all"
    /\ listed /\ ~flag => Present(backup)
    /\ listed /\ flag /\ tpc # "rebooting" => bar = res
    /\ tpc = "restore" /\ flag => ~listed
    /\ tpc = "rebooting" => flag

(* The actions, in the groups the proofs treat alike.                      *)
Outside == DriverOnly \/ Load \/ Unload
Steps == \/ Outside \/ find_pcie_device \/ unload_driver \/ remove \/ unlist \/ rescan \/ config
         \/ backup_config \/ restore_config \/ set_rebooted \/ Flush \/ WriteBack \/ Reboot \/ Program

LEMMA NextIsSteps == Next => Steps
BY DEF Next, Steps, Outside, ToolStep

LEMMA OutsideKeeps ==
  ASSUME Outside
  PROVE  DeviceKept /\ UNCHANGED <<toolVars, fileVars, outVars>>
BY DriverKeeps DEF Outside, DriverOnly, Load, Unload

LEMMA UnloadKeeps ==
  ASSUME unload_driver
  PROVE  DeviceKept
<1>1. CASE pcie_exit  BY <1>1, DriverKeeps
<1>2. CASE UNCHANGED driverVars
  BY <1>2 DEF driverVars, DeviceKept, fpgaVars, kernelVars
<1>3. CASE UNCHANGED <<fpgaVars, kernelVars, moduleVars, stepVars, procVars>>
  BY <1>3 DEF DeviceKept, fpgaVars, kernelVars
<1> QED  BY <1>1, <1>2, <1>3 DEF unload_driver

-----------------------------------------------------------------------------
LEMMA PlacesKept == Spec => []Places
<1>1. Init => Places
  BY DEF Init, Places
<1>2. Places /\ [Next]_vars => Places'
  <2> SUFFICES ASSUME Places, [Next]_vars PROVE Places'
    OBVIOUS
  <2>1. CASE UNCHANGED vars
    BY <2>1 DEF vars, toolVars, Places
  <2>2. CASE Outside
    BY <2>2, OutsideKeeps DEF toolVars, Places
  <2>3. CASE find_pcie_device \/ unload_driver \/ remove \/ unlist \/ rescan \/ config
    BY <2>3 DEF find_pcie_device, unload_driver, remove, unlist, rescan, config, Places
  <2>4. CASE backup_config \/ restore_config \/ set_rebooted \/ Reboot
    BY <2>4 DEF backup_config, restore_config, set_rebooted, Reboot, Places
  <2>5. CASE Flush \/ WriteBack \/ Program
    BY <2>5 DEF Flush, WriteBack, Program, toolVars, Places
  <2> QED
    BY <2>1, <2>2, <2>3, <2>4, <2>5, NextIsSteps DEF Steps
<1> QED
  BY <1>1, <1>2, PTL DEF Spec

-----------------------------------------------------------------------------
LEMMA RescanInvInit == Init => RescanInv
BY DEF Init, DriverInit, RescanInv

LEMMA RescanInvNext ==
  ASSUME Places, RescanInv, [Next]_vars
  PROVE  RescanInv'
<1> USE DEF RescanInv
<1>1. CASE UNCHANGED vars
  BY <1>1 DEF vars, driverVars, fpgaVars, kernelVars, toolVars, outVars
<1>2. CASE Outside
  BY <1>2, OutsideKeeps DEF DeviceKept, toolVars, outVars
<1>3. CASE find_pcie_device
  BY <1>3 DEF find_pcie_device, Quiet, driverVars, fpgaVars, kernelVars, outVars
<1>4. CASE unload_driver
  BY <1>4, UnloadKeeps DEF unload_driver, DeviceKept, outVars
<1>5. CASE remove
  BY <1>5 DEF remove, fpgaVars, kernelVars, outVars
<1>6. CASE unlist
  BY <1>6 DEF unlist, fpgaVars, outVars
<1>7. CASE rescan
  BY <1>7 DEF rescan, outVars
<1>8. CASE config
  BY <1>8 DEF config, driverVars, fpgaVars, kernelVars
<1>9. CASE Flush
  BY <1>9, KindsDiffer DEF Flush, kernelVars
<1>10. CASE Program
  BY <1>10 DEF Program, Quiet, kernelVars, toolVars, outVars
<1>11. CASE WriteBack
  BY <1>11 DEF WriteBack, driverVars, fpgaVars, kernelVars, toolVars, outVars
<1>12. CASE backup_config \/ restore_config \/ set_rebooted \/ Reboot
  BY <1>12 DEF backup_config, restore_config, set_rebooted, Reboot, Places
<1> QED
  BY <1>1, <1>2, <1>3, <1>4, <1>5, <1>6, <1>7, <1>8, <1>9, <1>10, <1>11, <1>12, NextIsSteps
  DEF Steps

(* Once bsrescan has ended with success the device answers at the address  *)
(* the kernel has for it, until it is programmed again: whatever the       *)
(* driver, udev and processes do meanwhile, and whatever of it fails.      *)
THEOREM RescanHolds == Spec => []Rescanned
<1>1. RescanInv => Rescanned
  BY DEF RescanInv, Rescanned, Answers
<1>2. Places /\ RescanInv /\ [Next]_vars => RescanInv'
  BY RescanInvNext
<1> QED
  BY <1>1, <1>2, RescanInvInit, PlacesKept, PTL DEF Spec

-----------------------------------------------------------------------------
LEMMA ManagerInvInit == Init => ManagerInv
BY KindsDiffer DEF Init, DriverInit, ManagerInv, Present

LEMMA ManagerInvNext ==
  ASSUME Places, ManagerInv, [Next]_vars, FilesSynced, RunFirst
  PROVE  ManagerInv'
<1> USE DEF ManagerInv, Present
<1>1. CASE UNCHANGED vars
  BY <1>1 DEF vars, driverVars, fpgaVars, kernelVars, toolVars, fileVars, outVars, NoFile, NoBytes
<1>2. CASE Outside
  BY <1>2, OutsideKeeps DEF DeviceKept, toolVars, fileVars, outVars, NoFile, NoBytes
<1>3. CASE backup_config
  BY <1>3, KindsDiffer DEF backup_config, driverVars, fpgaVars, kernelVars, Quiet, NoFile, NoBytes
<1>4. CASE restore_config
  BY <1>4, KindsDiffer DEF restore_config, Restores, driverVars, fpgaVars, kernelVars, fileVars, NoFile, NoBytes
<1>5. CASE set_rebooted
  BY <1>5 DEF set_rebooted, driverVars, fpgaVars, kernelVars, outVars, NoFile, NoBytes
<1>6. CASE Flush
  BY <1>6, KindsDiffer DEF Flush, kernelVars, NoFile, NoBytes
<1>7. CASE WriteBack
  BY <1>7 DEF WriteBack, driverVars, fpgaVars, kernelVars, toolVars, outVars, NoFile, NoBytes
<1>8. CASE Reboot
  BY <1>8, KindsDiffer DEF Reboot, NoFile, NoBytes
<1>9. CASE Program
  BY <1>9 DEF Program, Quiet, kernelVars, toolVars, fileVars, outVars, NoFile, NoBytes
<1>10. CASE find_pcie_device \/ unload_driver \/ remove \/ unlist \/ rescan \/ config
  BY <1>10 DEF find_pcie_device, unload_driver, remove, unlist, rescan, config, Places
<1> QED
  BY <1>1, <1>2, <1>3, <1>4, <1>5, <1>6, <1>7, <1>8, <1>9, <1>10, NextIsSteps DEF Steps

LEMMA OnlyFlushEnds ==
  ASSUME Places, [Next]_vars, tpc = "exit", tpc' = "idle"
  PROVE  Flush
<1>1. CASE UNCHANGED vars  BY <1>1 DEF vars, toolVars
<1>2. CASE Outside  BY <1>2, OutsideKeeps DEF toolVars
<1>3. CASE find_pcie_device \/ backup_config  BY <1>3 DEF find_pcie_device, backup_config, Quiet
<1>4. CASE unload_driver \/ remove \/ unlist \/ rescan \/ config
  BY <1>4 DEF unload_driver, remove, unlist, rescan, config
<1>5. CASE restore_config \/ set_rebooted \/ Reboot
  BY <1>5 DEF restore_config, set_rebooted, Reboot
<1>6. CASE WriteBack \/ Program
  BY <1>6 DEF WriteBack, Program, toolVars
<1> QED
  BY <1>1, <1>2, <1>3, <1>4, <1>5, <1>6, NextIsSteps DEF Steps

(* What the manager writes to the device puts it where this boot's kernel  *)
(* looks for it, when files survive a reboot and the manager is run before *)
(* the FPGA is programmed.                                                 *)
THEOREM RestoreHolds ==
  ASSUME FilesSynced, RunFirst
  PROVE  Spec => RestoresCurrent
<1>1. Places /\ ManagerInv /\ [Next]_vars => ManagerInv'
  BY ManagerInvNext
<1>2. Places /\ RescanInv /\ ManagerInv /\ [Next]_vars
        => [tpc = "exit" /\ tpc' = "idle" /\ toConfig.kind = "all" => bar' = res']_vars
  <2> SUFFICES ASSUME Places, RescanInv, ManagerInv, [Next]_vars,
                      tpc = "exit", tpc' = "idle", toConfig.kind = "all"
               PROVE  bar' = res'
    OBVIOUS
  <2>1. Flush
    BY OnlyFlushEnds
  <2>2. tool = "manager"
    BY KindsDiffer DEF RescanInv, Places
  <2> QED
    BY <2>1, <2>2 DEF Flush, ManagerInv, Present, kernelVars
<1>3. Places /\ RescanInv /\ [Next]_vars => RescanInv'
  BY RescanInvNext
<1> QED
  BY <1>1, <1>2, <1>3, RescanInvInit, ManagerInvInit, PlacesKept, PTL DEF Spec, RestoresCurrent

-----------------------------------------------------------------------------
(* How much of the device is held at each step of a probe and a removal,   *)
(* and that processes are gone before the module goes.                     *)
Free == ~enabled /\ ~regions /\ ~bar0_ptr /\ ~bound
Probing == {"enable", "regions", "iomap", "master", "kmalloc", "page"}
Removing == {"remove", "release"}

HeldInv ==
  /\ module \in {"in", "out"} \/ (module = "orphan" /\ step = "dead")
  /\ step \in Probing => module = "in" /\ after \in {"idle", "chrdev"}
  /\ step \in Removing => module = "in" /\ after \in {"idle", "exit"}
  /\ step \in {"chrdev", "exit"} => module = "in"
  /\ step = "enable" => Free
  /\ step = "regions" => ~regions /\ ~bar0_ptr /\ ~bound
  /\ step = "iomap" => ~bar0_ptr /\ ~bound
  /\ step \in {"chrdev", "idle"} => bound \/ Free
  /\ step = "exit" => Free /\ after = "exit"
  /\ after = "exit" => open = {}
  /\ module = "out" => step = "idle" /\ Free /\ ~chrdev /\ open = {}
  /\ tpc \in {"unlist", "rescan"} =>
       /\ after = "idle"
       /\ step \in Removing \/ (step = "idle" /\ ~bound)

LEMMA HeldInvInit == Init => HeldInv
BY DEF Init, DriverInit, HeldInv, Free, Probing, Removing

LEMMA HeldDriver ==
  ASSUME HeldInv, DriverStep, UNCHANGED tpc
  PROVE  HeldInv'
<1> USE DEF HeldInv, Free, Probing, Removing
<1>1. CASE pci_enable_device
  BY <1>1 DEF pci_enable_device, moduleVars, procVars
<1>2. CASE pci_request_regions
  BY <1>2 DEF pci_request_regions, ProbeFails, procVars
<1>3. CASE pci_iomap
  BY <1>3 DEF pci_iomap, ProbeFails, procVars
<1>4. CASE pci_set_master
  BY <1>4 DEF pci_set_master, kernelVars, moduleVars, procVars
<1>5. CASE kmalloc
  BY <1>5 DEF kmalloc, Bind, kernelVars, procVars
<1>6. CASE alloc_page
  BY <1>6 DEF alloc_page, Bind, procVars
<1>7. CASE chrdev_init
  BY <1>7 DEF chrdev_init, kernelVars, procVars
<1>8. CASE FreePages
  BY <1>8 DEF FreePages
<1>9. CASE Release
  BY <1>9 DEF Release, procVars
<1>10. CASE ExitDone
  BY <1>10 DEF ExitDone, kernelVars, procVars
<1> QED
  BY <1>1, <1>2, <1>3, <1>4, <1>5, <1>6, <1>7, <1>8, <1>9, <1>10 DEF DriverStep

LEMMA HeldProcess ==
  ASSUME HeldInv, ProcessStep, UNCHANGED tpc
  PROVE  HeldInv'
<1> USE DEF HeldInv, Free, Probing, Removing
<1>1. CASE \E q \in Procs : bdbm_open(q)
  BY <1>1 DEF bdbm_open, kernelVars, moduleVars, stepVars
<1>2. CASE \E q \in Procs : bdbm_mmap(q)
  BY <1>2 DEF bdbm_mmap, moduleVars, stepVars
<1>3. CASE \E q \in Procs : Close(q)
  BY <1>3 DEF Close, moduleVars, stepVars
<1> QED
  BY <1>1, <1>2, <1>3 DEF ProcessStep

LEMMA HeldExit ==
  ASSUME HeldInv, pcie_exit, tpc' \notin {"unlist", "rescan"}
  PROVE  HeldInv'
BY DEF HeldInv, Free, Probing, Removing, pcie_exit, kernelVars, moduleVars, procVars

LEMMA HeldInvNext ==
  ASSUME Places, HeldInv, [Next]_vars
  PROVE  HeldInv'
<1> USE DEF HeldInv, Free, Probing, Removing
<1>1. CASE UNCHANGED <<driverVars, tpc>>
  BY <1>1 DEF driverVars, kernelVars, moduleVars, stepVars, procVars
<1>2. CASE Outside
  <2>1. CASE DriverOnly
    BY <2>1, HeldDriver, HeldProcess DEF DriverOnly, toolVars
  <2>2. CASE Load
    BY <2>2 DEF Load, pcie_init, kernelVars, procVars, toolVars
  <2>3. CASE Unload
    BY <2>3, HeldExit DEF Unload, toolVars
  <2> QED
    BY <1>2, <2>1, <2>2, <2>3 DEF Outside
<1>3. CASE unload_driver
  <2>1. CASE pcie_exit
    BY <1>3, <2>1, HeldExit DEF unload_driver
  <2>2. CASE ~pcie_exit
    BY <1>3, <2>2 DEF unload_driver, driverVars, kernelVars, moduleVars, stepVars, procVars
  <2> QED
    BY <2>1, <2>2
<1>4. CASE remove
  BY <1>4 DEF remove, kernelVars, moduleVars, procVars
<1>5. CASE unlist
  BY <1>5 DEF unlist, moduleVars, stepVars, procVars
<1>6. CASE rescan
  BY <1>6 DEF rescan, moduleVars, procVars
<1>7. CASE Reboot
  BY <1>7 DEF Reboot
<1>8. CASE Program
  BY <1>8 DEF Program, kernelVars, moduleVars, stepVars, procVars, toolVars
<1>9. CASE Flush
  BY <1>9 DEF Flush, kernelVars, moduleVars, stepVars, procVars
<1>10. CASE find_pcie_device \/ config \/ backup_config \/ restore_config \/ set_rebooted
  <2>1. UNCHANGED driverVars
    BY <1>10 DEF find_pcie_device, config, backup_config, restore_config, set_rebooted
  <2>2. tpc' \notin {"unlist", "rescan"}
    BY <1>10 DEF find_pcie_device, config, backup_config, restore_config, set_rebooted
  <2> QED
    BY <2>1, <2>2 DEF driverVars, kernelVars, moduleVars, stepVars, procVars
<1>11. CASE WriteBack
  BY <1>1, <1>11 DEF WriteBack, toolVars
<1> QED
  BY <1>1, <1>2, <1>3, <1>4, <1>5, <1>6, <1>7, <1>8, <1>9, <1>10, <1>11, NextIsSteps
  DEF Steps, vars, toolVars

(* An unloaded module holds nothing of the device, whichever step of a     *)
(* probe has failed and in whatever order it was loaded, rescanned and     *)
(* used.                                                                   *)
THEOREM HeldHolds == Spec => []NothingHeld
<1>1. HeldInv => NothingHeld
  BY DEF HeldInv, Free, NothingHeld
<1>2. Places /\ HeldInv /\ [Next]_vars => HeldInv'
  BY HeldInvNext
<1> QED
  BY <1>1, <1>2, HeldInvInit, PlacesKept, PTL DEF Spec
-----------------------------------------------------------------------------
(***************************************************************************)
(* Pages, their table and what processes see of it.                        *)
(***************************************************************************)
Entries == Pages \cup {None}

(* Where the device is while it is probed, and while the driver has it.    *)
DeviceInv ==
  /\ bar0_addr \in Addrs \cup {None} /\ res \in Addrs \cup {None}
  /\ listed => res \in Addrs /\ up
  /\ step \in Probing => listed /\ ~bound
  /\ step \in Probing \ {"enable"} => "mem" \in command
  /\ step \in {"iomap", "master", "kmalloc", "page"} \/ bound => listed /\ bar0_addr = res
  /\ step \in Probing => bar = res \/ (tool = "bsrescan" /\ bar = None)
  /\ tool = "bsrescan" /\ listed => bar \in {None, res}
  /\ tool = "manager" /\ tpc # "idle" => step = "idle"
  /\ step \in Removing => bound

(* The table: empty behind the page under way, whole when a probe has      *)
(* reached its end.                                                        *)
EntriesInv ==
  /\ dma_pages \in [Idx -> Entries] /\ dma_pages_count \in {0, NumPages}
  /\ step = "page" => /\ table = "live" /\ bufidx \in Idx
                      /\ \A i \in Idx : dma_pages[i] = None <=> i >= bufidx
  /\ bound /\ step # "release" => table = "live" \/ (table = "null" /\ dma_pages = Empty)

FaultsInv == faults \in 0 .. MaxFaults

(* With one fault at most: a count left by a removal is only met by a      *)
(* probe that can no longer fail.                                          *)
NoMore == faults >= MaxFaults
TableInv ==
  /\ step \in Probing /\ dma_pages_count = NumPages => NoMore
  /\ tpc \in {"remove", "unlist", "rescan"} /\ module = "in" /\ after # "exit" => NoMore
  /\ step = "chrdev" => after = "chrdev"
  /\ module = "in" /\ step = "idle" => after # "exit"
  /\ bound /\ step # "release" /\ dma_pages_count = NumPages =>
       table = "live" /\ \A i \in Idx : dma_pages[i] # None

(* The FPGA's copy of it.                                                  *)
Unplaced == tool = "bsrescan" /\ bar = None
CopyInv ==
  /\ configBuffer \in [Idx -> Entries]
  /\ step = "page" => Unplaced \/ \A i \in Idx : i < bufidx => configBuffer[i] = dma_pages[i]
  /\ bound /\ step # "release" /\ dma_pages_count = NumPages =>
       Unplaced \/ configBuffer = dma_pages

(* References: those of the table, also of one that is not complete, and   *)
(* those of the processes.                                                 *)
Owned(p) == IF step = "page" \/ (bound /\ step # "release" /\ table = "live")
            THEN Count(p, NumPages) ELSE 0
RefsInv ==
  /\ refs \in [Pages -> Nat]
  /\ \A p \in Pages : refs[p] >= Owned(p) + Seen(p)
  /\ faults = 0 => \A p \in Pages : refs[p] = Owned(p) + Seen(p)
  /\ faults = 0 /\ bound /\ step # "release" => dma_pages_count = NumPages

(* What processes have mapped: a mapping that is not stale is the one      *)
(* bdbm_mmap would make now, of this BAR, this table and this count.       *)
Inserts(off, size, k, n) == {i \in 0 .. n - 1 : Inserted(off, size, i) /\ Place(off, i) = k}
MapAt(off, size, addr, t, n) ==
  [k \in 0 .. size - 1 |->
     IF off + k < BarPages THEN <<addr, off + k>>
     ELSE IF Inserts(off, size, k, n) = {} THEN None
          ELSE t[CHOOSE i \in Inserts(off, size, k, n) : TRUE]]
MappedAs(m) == MapAt(m[1], m[2], bar0_addr, dma_pages, dma_pages_count)

Viewing == bound /\ step \in {"idle", "chrdev", "remove", "dead"}
ViewOk(v) == \E m \in Maps : v \in Vmas(m) /\ (~v.stale => Viewing /\ v.at = MappedAs(m))
ViewsInv ==
  /\ vmas = [q \in Procs |-> vmas[q]] /\ open \subseteq Procs
  /\ \A q \in Procs : vmas[q] # None => q \in open /\ ViewOk(vmas[q])

-----------------------------------------------------------------------------
LEMMA DeviceInvInit == Init => DeviceInv
BY DriverAssumption DEF Init, DriverInit, DeviceInv, Probing, Removing

LEMMA DeviceDriver ==
  ASSUME HeldInv, DeviceInv, DriverStep, UNCHANGED <<tpc, tool>>
  PROVE  DeviceInv'
<1> USE DEF DeviceInv, Probing, Removing
<1>1. CASE pci_enable_device
  BY <1>1 DEF pci_enable_device, moduleVars, fpgaVars, HeldInv, Free
<1>2. CASE pci_request_regions
  BY <1>2 DEF pci_request_regions, ProbeFails, fpgaVars, HeldInv
<1>3. CASE pci_iomap
  BY <1>3 DEF pci_iomap, ProbeFails, fpgaVars, HeldInv
<1>4. CASE pci_set_master
  BY <1>4 DEF pci_set_master, kernelVars, moduleVars
<1>5. CASE kmalloc
  BY <1>5 DEF kmalloc, Bind, fpgaVars, kernelVars, HeldInv
<1>6. CASE alloc_page
  BY <1>6 DEF alloc_page, Bind, HeldInv
<1>7. CASE chrdev_init
  BY <1>7 DEF chrdev_init, fpgaVars, kernelVars, HeldInv
<1>8. CASE FreePages
  BY <1>8 DEF FreePages, fpgaVars
<1>9. CASE Release
  BY <1>9 DEF Release, HeldInv
<1>10. CASE ExitDone
  BY <1>10 DEF ExitDone, fpgaVars, kernelVars
<1> QED
  BY <1>1, <1>2, <1>3, <1>4, <1>5, <1>6, <1>7, <1>8, <1>9, <1>10 DEF DriverStep

LEMMA DeviceInvNext ==
  ASSUME Places, RescanInv, HeldInv, DeviceInv, [Next]_vars
  PROVE  DeviceInv'
<1> USE DEF DeviceInv, Probing, Removing
<1>1. CASE UNCHANGED <<driverVars, tpc, tool>>
  BY <1>1 DEF driverVars, fpgaVars, kernelVars, moduleVars, stepVars
<1>2. CASE DriverOnly
  <2>1. CASE DriverStep
    BY <1>2, <2>1, DeviceDriver DEF DriverOnly, toolVars
  <2>2. CASE ProcessStep
    BY <1>2, <2>2 DEF DriverOnly, ProcessStep, bdbm_open, bdbm_mmap, Close, toolVars, fpgaVars, kernelVars, moduleVars, stepVars
  <2> QED  BY <1>2, <2>1, <2>2 DEF DriverOnly
<1>3. CASE Load
  <2>1. ~bound /\ module = "out"
    BY <1>3 DEF Load, pcie_init, HeldInv, Free
  <2>2. UNCHANGED <<up, bar, command, listed, res, bound, tpc, tool>> /\ bar0_addr' = None
    BY <1>3 DEF Load, pcie_init, fpgaVars, kernelVars, toolVars
  <2>3. step' = (IF listed THEN "enable" ELSE "chrdev") /\ (tool = "manager" => bar = res /\ tpc = "idle")
    BY <1>3 DEF Load, pcie_init
  <2> QED  BY <2>1, <2>2, <2>3 DEF Places
<1>4. CASE Unload \/ unload_driver
  BY <1>4 DEF Unload, unload_driver, pcie_exit, driverVars, fpgaVars, kernelVars, moduleVars, stepVars, procVars, toolVars, Places
<1>5. CASE remove
  BY <1>5 DEF remove, fpgaVars, kernelVars, moduleVars, Places
<1>6. CASE unlist
  BY <1>6 DEF unlist, fpgaVars, moduleVars, stepVars, Places, HeldInv
<1>7. CASE rescan
  BY <1>7, DriverAssumption DEF rescan, moduleVars, Places, HeldInv, RescanInv
<1>8. CASE Reboot
  BY <1>8, DriverAssumption DEF Reboot
<1>9. CASE Program
  BY <1>9 DEF Program, Quiet, kernelVars, moduleVars, stepVars, toolVars
<1>10. CASE Flush
  BY <1>10, KindsDiffer DEF Flush, kernelVars, moduleVars, stepVars, Places, RescanInv
<1>11. CASE find_pcie_device \/ config \/ backup_config \/ restore_config \/ set_rebooted
  <2>1. UNCHANGED driverVars /\ UNCHANGED tool
    BY <1>11 DEF find_pcie_device, config, backup_config, restore_config, set_rebooted
  <2>2. tool = "manager" /\ tpc' # "idle" => step = "idle"
    BY <1>11 DEF find_pcie_device, config, backup_config, restore_config, set_rebooted, Quiet, Places
  <2> QED
    BY <2>1, <2>2 DEF driverVars, fpgaVars, kernelVars, moduleVars, stepVars
<1>12. CASE WriteBack
  BY <1>1, <1>12 DEF WriteBack, toolVars
<1> QED
  BY <1>1, <1>2, <1>3, <1>4, <1>5, <1>6, <1>7, <1>8, <1>9, <1>10, <1>11, <1>12, NextIsSteps
  DEF Steps, Outside, vars, toolVars

LEMMA EntriesInvInit == Init => EntriesInv
BY DriverAssumption DEF Init, DriverInit, EntriesInv, Idx, Empty, Entries

LEMMA EntriesDriver ==
  ASSUME HeldInv, DeviceInv, EntriesInv, DriverStep
  PROVE  EntriesInv'
<1> USE DEF EntriesInv
<1>1. CASE pci_enable_device \/ pci_request_regions \/ pci_iomap
  BY <1>1 DEF pci_enable_device, pci_request_regions, pci_iomap, ProbeFails, moduleVars, HeldInv, Free, Probing
<1>2. CASE pci_set_master
  BY <1>2 DEF pci_set_master, moduleVars
<1>3. CASE kmalloc
  <2>1. Empty \in [Idx -> Entries] /\ 0 \in Idx /\ \A j \in Idx : Empty[j] = None /\ j >= 0
    BY DriverAssumption DEF Empty, Idx, Entries
  <2>2. /\ dma_pages' = Empty /\ bufidx' = 0 /\ UNCHANGED dma_pages_count
        /\ \/ table' = "live" /\ step' = "page" /\ bound' = bound
           \/ table' = "null" /\ step' = after
        /\ ~bound /\ after # "page"
    BY <1>3 DEF kmalloc, Bind, DeviceInv, HeldInv, Probing
  <2> QED  BY <2>1, <2>2
<1>4. CASE alloc_page
  <2>1. bufidx \in Idx /\ table = "live" /\ ~bound /\ after # "page" /\ NumPages \in Nat
    BY <1>4, DriverAssumption DEF alloc_page, HeldInv, DeviceInv, Probing
  <2>2. CASE UNCHANGED <<dma_pages, dma_pages_count>> /\ Bind
    BY <1>4, <2>1, <2>2 DEF alloc_page, Bind
  <2>3. CASE ~(UNCHANGED <<dma_pages, dma_pages_count>> /\ Bind)
    <3>1. PICK p \in Pages : dma_pages' = [dma_pages EXCEPT ![bufidx] = p]
      BY <1>4, <2>3 DEF alloc_page
    <3>2. dma_pages' \in [Idx -> Entries] /\ UNCHANGED table
      BY <1>4, <2>1, <3>1 DEF Entries, alloc_page
    <3>3. p # None
      BY DriverAssumption
    <3>4. CASE Bind
      BY <1>4, <2>1, <3>2, <3>4 DEF alloc_page, Bind
    <3>5. CASE ~Bind
      <4>1. /\ bufidx' = bufidx + 1 /\ bufidx' < NumPages
            /\ UNCHANGED <<step, bound, dma_pages_count>>
        BY <1>4, <2>3, <3>5 DEF alloc_page
      <4>2. bufidx' \in Idx
        BY <4>1, <2>1 DEF Idx
      <4>3. \A j \in Idx : dma_pages'[j] = None <=> j >= bufidx'
        BY <1>4, <3>1, <3>3, <4>1, <2>1 DEF alloc_page, Idx
      <4> QED  BY <1>4, <2>1, <3>2, <4>1, <4>2, <4>3
    <3> QED  BY <3>4, <3>5
  <2> QED  BY <2>2, <2>3
<1>5. CASE chrdev_init
  BY <1>5 DEF chrdev_init
<1>6. CASE FreePages
  BY <1>6 DEF FreePages
<1>7. CASE Release
  BY <1>7 DEF Release, HeldInv, Removing
<1>8. CASE ExitDone
  BY <1>8 DEF ExitDone
<1> QED
  BY <1>1, <1>2, <1>3, <1>4, <1>5, <1>6, <1>7, <1>8 DEF DriverStep

(* What the steps of a process, of a tool and of the administrator leave   *)
(* as it is.                                                               *)
TableKept == UNCHANGED <<bound, table, dma_pages, dma_pages_count, bufidx>>

LEMMA OthersKeepTable ==
  ASSUME HeldInv, [Next]_vars, ~Reboot
  PROVE  \/ DriverStep /\ UNCHANGED toolVars
         \/ Load
         \/ /\ TableKept
            /\ step' = step \/ (step = "idle" /\ step' \in {"remove", "exit", "enable"})
<1> USE DEF TableKept
<1>1. CASE UNCHANGED vars
  BY <1>1 DEF vars, driverVars, moduleVars, stepVars
<1>2. CASE DriverOnly
  BY <1>2 DEF DriverOnly, ProcessStep, bdbm_open, bdbm_mmap, Close, moduleVars, stepVars
<1>3. CASE Unload \/ unload_driver
  BY <1>3 DEF Unload, unload_driver, pcie_exit, driverVars, moduleVars, stepVars
<1>4. CASE remove \/ unlist \/ rescan
  BY <1>4 DEF remove, unlist, rescan, moduleVars, stepVars
<1>5. CASE Program \/ Flush
  BY <1>5 DEF Program, Flush, moduleVars, stepVars
<1>6. CASE find_pcie_device \/ config \/ backup_config \/ restore_config \/ set_rebooted \/ WriteBack
  <2>1. UNCHANGED driverVars
    BY <1>6 DEF find_pcie_device, config, backup_config, restore_config, set_rebooted, WriteBack
  <2> QED  BY <2>1 DEF driverVars, moduleVars, stepVars
<1> QED
  BY <1>1, <1>2, <1>3, <1>4, <1>5, <1>6, NextIsSteps DEF Steps, Outside

LEMMA EntriesInvNext ==
  ASSUME HeldInv, DeviceInv, EntriesInv, [Next]_vars
  PROVE  EntriesInv'
<1>1. CASE Reboot
  BY <1>1, DriverAssumption DEF Reboot, EntriesInv, Idx, Empty, Entries
<1>2. CASE DriverStep
  BY <1>2, EntriesDriver
<1>3. CASE Load
  BY <1>3, DriverAssumption DEF Load, pcie_init, HeldInv, Free, EntriesInv, Idx, Empty, Entries
<1>4. CASE /\ TableKept
           /\ step' = step \/ (step = "idle" /\ step' \in {"remove", "exit", "enable"})
  BY <1>4 DEF TableKept, EntriesInv
<1> QED
  BY <1>1, <1>2, <1>3, <1>4, OthersKeepTable

-----------------------------------------------------------------------------
(* Faults are only counted.                                                *)
LEMMA FaultsCounted ==
  ASSUME [Next]_vars
  PROVE  faults' = faults \/ Fault
<1>1. CASE UNCHANGED vars
  BY <1>1 DEF vars, driverVars
<1>2. CASE DriverOnly
  BY <1>2 DEF DriverOnly, DriverStep, ProcessStep, pci_enable_device, pci_request_regions, pci_iomap,
     pci_set_master, kmalloc, alloc_page, chrdev_init, FreePages, Release, ExitDone, ProbeFails,
     bdbm_open, bdbm_mmap, Close
<1>3. CASE Load \/ Unload \/ unload_driver
  BY <1>3 DEF Load, Unload, unload_driver, pcie_init, pcie_exit, driverVars
<1>4. CASE remove \/ unlist \/ rescan \/ Program \/ Flush \/ Reboot
  BY <1>4 DEF remove, unlist, rescan, Program, Flush, Reboot
<1>5. CASE find_pcie_device \/ config \/ backup_config \/ restore_config \/ set_rebooted \/ WriteBack
  BY <1>5 DEF find_pcie_device, config, backup_config, restore_config, set_rebooted, WriteBack, driverVars
<1> QED
  BY <1>1, <1>2, <1>3, <1>4, <1>5, NextIsSteps DEF Steps, Outside

LEMMA FaultsInvInit == Init => FaultsInv
BY DriverAssumption DEF Init, DriverInit, FaultsInv

LEMMA FaultsInvNext ==
  ASSUME FaultsInv, [Next]_vars
  PROVE  FaultsInv'
BY FaultsCounted, DriverAssumption DEF FaultsInv, Fault

LEMMA NoMoreStays ==
  ASSUME FaultsInv, NoMore, [Next]_vars
  PROVE  NoMore' /\ ~Fault
BY FaultsCounted, DriverAssumption DEF FaultsInv, NoMore, Fault

-----------------------------------------------------------------------------
LEMMA TableInvInit == Init => TableInv
BY DriverAssumption DEF Init, DriverInit, TableInv, Probing

LEMMA TableDriver ==
  ASSUME FaultsInv, HeldInv, DeviceInv, EntriesInv, TableInv, DriverStep, UNCHANGED tpc, [Next]_vars
  PROVE  TableInv'
<1> USE NoMoreStays DEF TableInv
<1>1. CASE pci_enable_device
  BY <1>1 DEF pci_enable_device, moduleVars, HeldInv, DeviceInv, Probing
<1>2. CASE pci_request_regions
  BY <1>2 DEF pci_request_regions, ProbeFails, HeldInv, DeviceInv, Probing
<1>3. CASE pci_iomap
  BY <1>3 DEF pci_iomap, ProbeFails, HeldInv, DeviceInv, Probing
<1>4. CASE pci_set_master
  BY <1>4 DEF pci_set_master, moduleVars, HeldInv, DeviceInv, Probing
<1>5. CASE kmalloc
  BY <1>5 DEF kmalloc, Bind, HeldInv, DeviceInv, Probing
<1>6. CASE alloc_page
  <2>1. /\ module = "in" /\ after \in {"idle", "chrdev"} /\ step = "page" /\ ~bound
        /\ UNCHANGED <<module, after, table>> /\ table = "live" /\ bufidx \in Idx
    BY <1>6 DEF alloc_page, HeldInv, DeviceInv, EntriesInv, Probing
  <2>2. CASE UNCHANGED dma_pages_count /\ UNCHANGED <<step, bound>>
    BY <2>1, <2>2
  <2>3. CASE UNCHANGED dma_pages_count /\ Fault /\ Bind
    BY <2>1, <2>3 DEF Bind, Probing
  <2>4. CASE bufidx' = bufidx + 1 /\ ~(bufidx' < NumPages) /\ Bind /\ dma_pages_count' = NumPages
    <3>1. PICK p \in Pages : dma_pages' = [dma_pages EXCEPT ![bufidx] = p]
      BY <1>6, <2>4, <2>1 DEF alloc_page, Idx
    <3>2. p # None /\ bufidx = NumPages - 1 /\ NumPages \in Nat
      BY <2>1, <2>4, DriverAssumption DEF Idx
    <3>3. \A i \in Idx : dma_pages'[i] # None
      BY <2>1, <3>1, <3>2 DEF EntriesInv, Idx
    <3> QED  BY <2>1, <2>4, <3>3 DEF Bind, Probing
  <2> QED  BY <1>6, <2>2, <2>3, <2>4 DEF alloc_page
<1>7. CASE chrdev_init
  BY <1>7 DEF chrdev_init, HeldInv, Probing
<1>8. CASE FreePages
  BY <1>8 DEF FreePages, HeldInv, Probing, Removing
<1>9. CASE Release
  BY <1>9 DEF Release, HeldInv, Probing, Removing
<1>10. CASE ExitDone
  BY <1>10 DEF ExitDone, HeldInv, Probing
<1> QED
  BY <1>1, <1>2, <1>3, <1>4, <1>5, <1>6, <1>7, <1>8, <1>9, <1>10 DEF DriverStep

LEMMA TableInvNext ==
  ASSUME MaxFaults <= 1, FaultsInv, Places, HeldInv, DeviceInv, EntriesInv, TableInv, [Next]_vars
  PROVE  TableInv'
<1> USE NoMoreStays DEF TableInv
<1>1. CASE UNCHANGED <<driverVars, tpc>>
  BY <1>1 DEF driverVars, moduleVars, stepVars
<1>2. CASE DriverOnly
  <2>1. CASE DriverStep
    BY <1>2, <2>1, TableDriver DEF DriverOnly, toolVars
  <2>2. CASE ProcessStep
    BY <1>2, <2>2 DEF DriverOnly, ProcessStep, bdbm_open, bdbm_mmap, Close, toolVars, moduleVars, stepVars
  <2> QED  BY <1>2, <2>1, <2>2 DEF DriverOnly
<1>3. CASE Load
  BY <1>3, DriverAssumption DEF Load, pcie_init, HeldInv, Free, Probing, toolVars
<1>4. CASE Unload
  BY <1>4 DEF Unload, pcie_exit, HeldInv, Free, moduleVars, toolVars, Probing
<1>5. CASE unload_driver
  <2>1. CASE pcie_exit
    BY <1>5, <2>1 DEF unload_driver, pcie_exit, moduleVars, Probing
  <2>2. CASE module = "out" /\ UNCHANGED driverVars
    BY <1>5, <2>2 DEF unload_driver, driverVars, moduleVars, stepVars
  <2>3. CASE Fault /\ UNCHANGED <<moduleVars, stepVars>>
    <3>1. NoMore'
      BY <2>3, DriverAssumption DEF Fault, FaultsInv, NoMore
    <3> QED  BY <2>3, <3>1 DEF moduleVars, stepVars
  <2> QED  BY <1>5, <2>1, <2>2, <2>3 DEF unload_driver
<1>6. CASE remove
  BY <1>6 DEF remove, moduleVars, Probing
<1>7. CASE unlist
  BY <1>7 DEF unlist, moduleVars, stepVars
<1>8. CASE rescan
  BY <1>8 DEF rescan, moduleVars, HeldInv, Probing
<1>9. CASE Reboot
  BY <1>9, DriverAssumption DEF Reboot, Probing
<1>10. CASE Program
  BY <1>10 DEF Program, moduleVars, stepVars, toolVars
<1>11. CASE Flush
  BY <1>11 DEF Flush, moduleVars, stepVars
<1>12. CASE find_pcie_device \/ config \/ backup_config \/ restore_config \/ set_rebooted
  <2>1. UNCHANGED driverVars /\ tpc' \notin {"remove", "unlist", "rescan"}
    BY <1>12 DEF find_pcie_device, config, backup_config, restore_config, set_rebooted
  <2> QED
    BY <2>1 DEF driverVars, moduleVars, stepVars
<1>13. CASE WriteBack
  BY <1>1, <1>13 DEF WriteBack, toolVars
<1> QED
  BY <1>1, <1>2, <1>3, <1>4, <1>5, <1>6, <1>7, <1>8, <1>9, <1>10, <1>11, <1>12, <1>13, NextIsSteps
  DEF Steps, Outside, vars, toolVars

-----------------------------------------------------------------------------
LEMMA CopyInvInit == Init => CopyInv
BY DriverAssumption DEF Init, DriverInit, CopyInv, Empty, Idx, Entries

LEMMA FaultsAreNumbers ==
  ASSUME FaultsInv
  PROVE  faults \in Int /\ faults + 1 # faults
BY DriverAssumption DEF FaultsInv

LEMMA CopyPage ==
  ASSUME FaultsInv, HeldInv, DeviceInv, EntriesInv, TableInv, CopyInv, alloc_page, UNCHANGED tool, [Next]_vars
  PROVE  CopyInv'
<1>1. /\ step = "page" /\ ~bound /\ bufidx \in Idx /\ after \in {"idle", "chrdev"}
      /\ Unplaced \/ (Answers /\ \A i \in Idx : i < bufidx => configBuffer[i] = dma_pages[i])
      /\ (Unplaced' <=> Unplaced) /\ NumPages \in Nat
  BY DriverAssumption
  DEF alloc_page, HeldInv, DeviceInv, EntriesInv, CopyInv, Unplaced, Answers, Probing
<1>2. configBuffer \in [Idx -> Entries] /\ dma_pages \in [Idx -> Entries]
  BY DEF CopyInv, EntriesInv
<1>3. dma_pages_count = NumPages => ~Fault
  BY <1>1, NoMoreStays DEF TableInv, Probing
<1>4. ASSUME NEW e \in Entries, Tell(e)  PROVE  configBuffer' \in [Idx -> Entries]
  BY <1>4, <1>1, <1>2 DEF Tell
<1>5. CASE Fault /\ Bind
  <2>1. UNCHANGED dma_pages_count /\ step' # "page"
    BY <1>1, <1>5, FaultsAreNumbers DEF alloc_page, Bind, Fault
  <2>2. dma_pages_count' # NumPages
    BY <2>1, <1>5, <1>3
  <2>3. UNCHANGED configBuffer \/ Tell(None)
    BY <1>5, FaultsAreNumbers DEF alloc_page, Fault
  <2>4. configBuffer' \in [Idx -> Entries]
    BY <2>3, <1>2, <1>4 DEF Entries
  <2> QED  BY <2>1, <2>2, <2>4 DEF CopyInv
<1>6. CASE ~(Fault /\ Bind)
  <2>1. PICK p \in Pages : /\ dma_pages' = [dma_pages EXCEPT ![bufidx] = p] /\ Tell(p)
                           /\ bufidx' = bufidx + 1
    BY <1>6 DEF alloc_page
  <2>2. configBuffer' \in [Idx -> Entries] /\ dma_pages' \in [Idx -> Entries]
    BY <2>1, <1>1, <1>2, <1>4 DEF Entries
  <2>3. Unplaced' \/ \A i \in Idx : i < bufidx' => configBuffer'[i] = dma_pages'[i]
    BY <2>1, <1>1, <1>2 DEF Tell, Idx
  <2>4. CASE bufidx' < NumPages
    BY <1>1, <1>6, <2>4, <2>1, <2>2, <2>3 DEF alloc_page, CopyInv
  <2>5. CASE ~(bufidx' < NumPages)
    <3>1. Bind
      BY <1>6, <2>5 DEF alloc_page
    <3>2. \A i \in Idx : i < bufidx'
      BY <1>1, <2>1, <2>5 DEF Idx
    <3>3. Unplaced' \/ configBuffer' = dma_pages'
      BY <2>2, <2>3, <3>2
    <3> QED  BY <1>1, <2>2, <3>1, <3>3 DEF CopyInv, Bind
  <2> QED  BY <2>4, <2>5
<1> QED  BY <1>5, <1>6

LEMMA CopyDriver ==
  ASSUME FaultsInv, HeldInv, DeviceInv, EntriesInv, TableInv, CopyInv, DriverStep, UNCHANGED tool, [Next]_vars
  PROVE  CopyInv'
<1> USE DEF CopyInv, Unplaced
<1>1. CASE pci_enable_device \/ pci_request_regions \/ pci_iomap
  BY <1>1 DEF pci_enable_device, pci_request_regions, pci_iomap, ProbeFails, fpgaVars, moduleVars, HeldInv, DeviceInv, Probing
<1>2. CASE pci_set_master
  BY <1>2 DEF pci_set_master, moduleVars, DeviceInv
<1>3. CASE kmalloc
  <2>1. \A i \in Idx : ~(i < 0)
    BY DEF Idx
  <2>2. dma_pages_count = NumPages => ~Fault
    BY <1>3, NoMoreStays DEF TableInv, Probing, kmalloc
  <2>3. ~bound /\ after # "page"
    BY <1>3 DEF kmalloc, HeldInv, DeviceInv, Probing
  <2> QED
    BY <1>3, <2>1, <2>2, <2>3 DEF kmalloc, Bind, fpgaVars
<1>4. CASE alloc_page
  BY <1>4, CopyPage
<1>5. CASE chrdev_init
  BY <1>5 DEF chrdev_init, fpgaVars
<1>6. CASE FreePages
  BY <1>6 DEF FreePages, fpgaVars
<1>7. CASE Release
  BY <1>7 DEF Release, HeldInv, Removing
<1>8. CASE ExitDone
  BY <1>8 DEF ExitDone, fpgaVars
<1> QED
  BY <1>1, <1>2, <1>3, <1>4, <1>5, <1>6, <1>7, <1>8 DEF DriverStep

LEMMA OthersKeepCopy ==
  ASSUME Places, RescanInv, [Next]_vars
  PROVE  \/ DriverStep /\ UNCHANGED toolVars
         \/ rescan \/ Reboot \/ Program
         \/ UNCHANGED configBuffer /\ (Unplaced' <=> Unplaced)
<1> USE DEF Unplaced
<1>1. CASE UNCHANGED vars
  BY <1>1 DEF vars, driverVars, fpgaVars, toolVars
<1>2. CASE DriverOnly
  BY <1>2 DEF DriverOnly, ProcessStep, bdbm_open, bdbm_mmap, Close, fpgaVars, toolVars
<1>3. CASE Load \/ Unload \/ unload_driver
  BY <1>3 DEF Load, Unload, unload_driver, pcie_init, pcie_exit, driverVars, fpgaVars, toolVars
<1>4. CASE remove \/ unlist
  BY <1>4 DEF remove, unlist, fpgaVars
<1>5. CASE Flush
  BY <1>5, KindsDiffer DEF Flush, Places, RescanInv
<1>6. CASE find_pcie_device \/ config \/ backup_config \/ restore_config \/ set_rebooted \/ WriteBack
  <2>1. UNCHANGED driverVars /\ UNCHANGED tool
    BY <1>6 DEF find_pcie_device, config, backup_config, restore_config, set_rebooted, WriteBack, toolVars
  <2> QED  BY <2>1 DEF driverVars, fpgaVars
<1> QED
  BY <1>1, <1>2, <1>3, <1>4, <1>5, <1>6, NextIsSteps DEF Steps, Outside

LEMMA CopyInvNext ==
  ASSUME FaultsInv, Places, RescanInv, HeldInv, DeviceInv, EntriesInv, TableInv, CopyInv, [Next]_vars
  PROVE  CopyInv'
<1>1. CASE DriverStep /\ UNCHANGED toolVars
  BY <1>1, CopyDriver DEF toolVars
<1>2. CASE Load
  BY <1>2, DriverAssumption DEF Load, pcie_init, HeldInv, Free, fpgaVars, CopyInv
<1>3. CASE Reboot
  BY <1>3, DriverAssumption DEF Reboot, CopyInv
<1>4. CASE Program
  <2>1. Empty \in [Idx -> Entries]
    BY DEF Empty, Entries
  <2>2. Unplaced' \/ module = "out"
    BY <1>4 DEF Program, Places, Unplaced, toolVars
  <2> QED
    BY <1>4, <2>1, <2>2 DEF Program, Quiet, HeldInv, Free, CopyInv, moduleVars, stepVars
<1>5. CASE rescan
  BY <1>5 DEF rescan, moduleVars, HeldInv, Removing, CopyInv
<1>6. CASE /\ TableKept /\ UNCHANGED configBuffer /\ (Unplaced' <=> Unplaced)
           /\ step' = step \/ (step = "idle" /\ step' \in {"remove", "exit", "enable"})
  BY <1>6 DEF CopyInv, TableKept
<1> QED
  BY <1>1, <1>2, <1>3, <1>4, <1>5, <1>6, OthersKeepTable, OthersKeepCopy

-----------------------------------------------------------------------------
LEMMA MappingIs ==
  ASSUME NEW m \in Maps
  PROVE  Mapping(m[1], m[2]) = [off |-> m[1], stale |-> FALSE, at |-> MappedAs(m)]
BY DEF Mapping, MappedAs, MapAt, Inserts

LEMMA MappingTyped ==
  ASSUME NEW m \in Maps, DeviceInv, EntriesInv
  PROVE  Mapping(m[1], m[2]) \in Vmas(m)
<1>1. m[1] \in Nat /\ m[2] \in Nat /\ NumPages \in Nat /\ BarPages \in Nat
  BY DriverAssumption
<1>2. ASSUME NEW k \in 0 .. m[2] - 1  PROVE  MappedAs(m)[k] \in Views
  <2> DEFINE here == Inserts(m[1], m[2], k, dma_pages_count)
  <2>1. CASE m[1] + k < BarPages
    BY <1>1, <2>1 DEF MappedAs, MapAt, Views, DeviceInv
  <2>2. CASE ~(m[1] + k < BarPages) /\ here = {}
    BY <1>1, <2>2 DEF MappedAs, MapAt, Views
  <2>3. CASE ~(m[1] + k < BarPages) /\ here # {}
    <3> DEFINE i == CHOOSE j \in here : TRUE
    <3>1. i \in here
      BY <2>3
    <3>2. i \in Idx
      BY <3>1, <1>1 DEF Inserts, Idx, EntriesInv
    <3>3. MappedAs(m)[k] = dma_pages[i]
      BY <2>3 DEF MappedAs, MapAt
    <3> QED  BY <3>2, <3>3 DEF EntriesInv, Entries, Views
  <2> QED  BY <2>1, <2>2, <2>3
<1>3. MappedAs(m) \in [0 .. m[2] - 1 -> Views]
  BY <1>2 DEF MappedAs, MapAt
<1>4. ASSUME NEW a \in [0 .. m[2] - 1 -> Views]
      PROVE  [off |-> m[1], stale |-> FALSE, at |-> a] \in Vmas(m)
  BY DEF Vmas
<1> QED  BY <1>3, <1>4, MappingIs

(* A mapping seen in the wrong place would need an unsigned offset to wrap.*)
LEMMA InsertedRight ==
  ASSUME NEW m \in Maps, NEW k \in 0 .. m[2] - 1, NEW n \in 0 .. NumPages,
         NEW i \in Inserts(m[1], m[2], k, n)
  PROVE  i = m[1] + k - BarPages
<1>1. /\ m[1] \in Nat /\ m[2] \in Nat /\ NumPages \in Nat /\ BarPages \in Nat /\ Wrap \in Nat
      /\ m[1] + m[2] < Wrap /\ BarPages < Wrap
  BY DriverAssumption
<1>2. /\ i \in Nat /\ k \in Nat /\ Place(m[1], i) = k /\ Inserted(m[1], m[2], i)
  BY <1>1 DEF Inserts
<1>3. CASE m[1] <= BarPages
  <2>1. (BarPages - m[1]) % Wrap = BarPages - m[1]
    BY <1>1, <1>3
  <2>2. (BarPages - m[1]) + i = k
    BY <1>2, <2>1 DEF Place
  <2> QED  BY <1>1, <1>2, <2>2
<1>4. CASE m[1] > BarPages
  <2>1. (BarPages - m[1]) % Wrap = BarPages - m[1] + Wrap
    BY <1>1, <1>4
  <2> QED  BY <1>1, <1>2, <2>1 DEF Place, Inserted
<1> QED  BY <1>1, <1>3, <1>4

(* The mapping BdbmPcie makes has room behind the buffer.                  *)
LEMMA HostMapWhole ==
  ASSUME NEW size \in Nat, size > NumPages, NEW k \in 0 .. NumPages - 1
  PROVE  k \in Inserts(BarPages, size, k, NumPages)
<1>1. NumPages \in Nat /\ BarPages \in Nat /\ Wrap \in Nat /\ 0 < Wrap
  BY DriverAssumption
<1>2. (BarPages - BarPages) % Wrap = 0
  BY <1>1
<1> QED  BY <1>1, <1>2 DEF Inserts, Inserted, Place

-----------------------------------------------------------------------------
LEMMA ViewsInvInit == Init => ViewsInv
BY DEF Init, DriverInit, ViewsInv

LEMMA StaleView ==
  ASSUME NEW m \in Maps, NEW v \in Vmas(m)
  PROVE  /\ [v EXCEPT !.stale = TRUE] \in Vmas(m)
         /\ [v EXCEPT !.stale = TRUE].stale /\ [v EXCEPT !.stale = TRUE].at = v.at
BY DEF Vmas

(* Without the device every mapping is stale, and stays as it is.          *)
LEMMA UnboundViews ==
  ASSUME ViewsInv, ~Viewing, UNCHANGED <<open, vmas>>
  PROVE  ViewsInv'
<1> SUFFICES ASSUME NEW q \in Procs, vmas[q] # None
             PROVE  q \in open' /\ ViewOk(vmas[q])'
  BY DEF ViewsInv
<1>1. PICK m \in Maps : vmas[q] \in Vmas(m) /\ vmas[q].stale
  BY DEF ViewsInv, ViewOk
<1> QED  BY <1>1 DEF ViewsInv, ViewOk, Vmas

LEMMA BoundViews ==
  ASSUME ViewsInv, UNCHANGED <<open, vmas, bar0_addr, dma_pages, dma_pages_count>>, Viewing => Viewing'
  PROVE  ViewsInv'
<1> SUFFICES ASSUME NEW q \in Procs, vmas[q] # None
             PROVE  q \in open' /\ ViewOk(vmas[q])'
  BY DEF ViewsInv
<1>1. PICK m \in Maps : vmas[q] \in Vmas(m) /\ (~vmas[q].stale => Viewing /\ vmas[q].at = MappedAs(m))
  BY DEF ViewsInv, ViewOk
<1>2. MappedAs(m)' = MappedAs(m)
  BY DEF MappedAs
<1> QED  BY <1>1, <1>2 DEF ViewsInv, ViewOk, Vmas

LEMMA ViewsDriver ==
  ASSUME HeldInv, DeviceInv, ViewsInv, DriverStep
  PROVE  ViewsInv'
<1>1. CASE \/ pci_enable_device \/ pci_request_regions \/ pci_iomap \/ pci_set_master
           \/ kmalloc \/ alloc_page
  <2>1. ~Viewing
    BY <1>1 DEF pci_enable_device, pci_request_regions, pci_iomap, pci_set_master, kmalloc, alloc_page,
       DeviceInv, Probing, Viewing
  <2>2. UNCHANGED <<open, vmas>>
    BY <1>1 DEF pci_enable_device, pci_request_regions, pci_iomap, pci_set_master, kmalloc, alloc_page, procVars
  <2> QED  BY <2>1, <2>2, UnboundViews
<1>2. CASE chrdev_init
  BY <1>2, BoundViews DEF chrdev_init, procVars, Viewing
<1>3. CASE FreePages
  <2>1. vmas' = [q \in Procs |-> IF vmas[q] = None THEN None ELSE [vmas[q] EXCEPT !.stale = TRUE]]
       /\ open' \subseteq Procs
    BY <1>3 DEF FreePages, ViewsInv
  <2>2. ASSUME NEW q \in Procs, vmas'[q] # None
        PROVE  q \in open' /\ ViewOk(vmas[q])'
    <3>1. vmas[q] # None /\ vmas'[q] = [vmas[q] EXCEPT !.stale = TRUE] /\ open' = open
      BY <2>1, <2>2, <1>3 DEF FreePages
    <3>2. PICK m \in Maps : vmas[q] \in Vmas(m)
      BY <3>1 DEF ViewsInv, ViewOk
    <3>3. vmas'[q] \in Vmas(m) /\ vmas'[q].stale
      BY <3>1, <3>2, StaleView
    <3> QED  BY <3>1, <3>3 DEF ViewsInv, ViewOk, Vmas
  <2> QED  BY <2>1, <2>2 DEF ViewsInv
<1>4. CASE Release
  BY <1>4, UnboundViews DEF Release, procVars, Viewing
<1>5. CASE ExitDone
  BY <1>5, UnboundViews DEF ExitDone, procVars, Viewing
<1> QED
  BY <1>1, <1>2, <1>3, <1>4, <1>5 DEF DriverStep

LEMMA ViewsProcess ==
  ASSUME HeldInv, DeviceInv, EntriesInv, ViewsInv, ProcessStep
  PROVE  ViewsInv'
<1>1. PICK q \in Procs : bdbm_open(q) \/ bdbm_mmap(q) \/ Close(q)
  BY DEF ProcessStep
<1>2. UNCHANGED <<bar0_addr, dma_pages, dma_pages_count, bound, step>>
  BY <1>1 DEF bdbm_open, bdbm_mmap, Close, moduleVars, stepVars
<1>3. ASSUME NEW v, ViewOk(v)  PROVE  ViewOk(v)'
  BY <1>2, <1>3 DEF ViewOk, MappedAs, Viewing, Vmas
<1>4. CASE bdbm_open(q)
  BY <1>3, <1>4 DEF bdbm_open, ViewsInv
<1>5. CASE bdbm_mmap(q)
  <2>1. PICK m \in Maps : vmas' = [vmas EXCEPT ![q] = Mapping(m[1], m[2])]
    BY <1>5 DEF bdbm_mmap
  <2>2. Viewing
    BY <1>5 DEF bdbm_mmap, Viewing
  <2> DEFINE v == Mapping(m[1], m[2])
  <2>6. v = [off |-> m[1], stale |-> FALSE, at |-> MappedAs(m)]
    BY MappingIs
  <2>7. v \in Vmas(m)
    BY MappingTyped
  <2> HIDE DEF v
  <2>3. v \in Vmas(m) /\ v.at = MappedAs(m)
    BY <2>6, <2>7
  <2>5. ViewOk(v)
    BY <2>2, <2>3 DEF ViewOk
  <2>4. q \in open /\ open' = open
    BY <1>5 DEF bdbm_mmap
  <2> QED  BY <1>3, <2>1, <2>5, <2>4 DEF ViewsInv, v
<1>6. CASE Close(q)
  BY <1>3, <1>6 DEF Close, ViewsInv
<1> QED  BY <1>1, <1>4, <1>5, <1>6

LEMMA OthersKeepViews ==
  ASSUME [Next]_vars
  PROVE  \/ DriverStep \/ ProcessStep \/ Load \/ Reboot
         \/ UNCHANGED <<open, vmas, bar0_addr>>
<1>1. CASE UNCHANGED vars
  BY <1>1 DEF vars, driverVars, moduleVars, procVars
<1>2. CASE Unload \/ unload_driver
  BY <1>2 DEF Unload, unload_driver, pcie_exit, driverVars, moduleVars, procVars
<1>3. CASE remove \/ unlist \/ rescan \/ Program \/ Flush
  BY <1>3 DEF remove, unlist, rescan, Program, Flush, moduleVars, procVars
<1>4. CASE find_pcie_device \/ config \/ backup_config \/ restore_config \/ set_rebooted \/ WriteBack
  <2>1. UNCHANGED driverVars
    BY <1>4 DEF find_pcie_device, config, backup_config, restore_config, set_rebooted, WriteBack
  <2> QED  BY <2>1 DEF driverVars, moduleVars, procVars
<1> QED
  BY <1>1, <1>2, <1>3, <1>4, NextIsSteps DEF Steps, Outside, DriverOnly

LEMMA ViewsInvNext ==
  ASSUME Places, RescanInv, HeldInv, DeviceInv, EntriesInv, ViewsInv, [Next]_vars
  PROVE  ViewsInv'
<1>1. CASE DriverStep
  BY <1>1, ViewsDriver
<1>2. CASE ProcessStep
  BY <1>2, ViewsProcess
<1>3. CASE Load
  <2>1. ~Viewing /\ UNCHANGED <<open, vmas>>
    BY <1>3 DEF Load, pcie_init, HeldInv, Free, Viewing, procVars
  <2> QED  BY <2>1, UnboundViews
<1>4. CASE Reboot
  BY <1>4 DEF Reboot, ViewsInv
<1>5. CASE /\ TableKept /\ UNCHANGED <<open, vmas, bar0_addr>>
           /\ step' = step \/ (step = "idle" /\ step' \in {"remove", "exit", "enable"})
  <2>1. HeldInv' /\ DeviceInv'
    BY HeldInvNext, DeviceInvNext
  <2>2. Viewing => Viewing'
    BY <1>5, <2>1 DEF Viewing, TableKept, HeldInv, DeviceInv, Free, Probing
  <2> QED  BY <1>5, <2>2, BoundViews DEF TableKept
<1> QED
  BY <1>1, <1>2, <1>3, <1>4, <1>5, OthersKeepTable, OthersKeepViews

LEMMA SameEnd ==
  ASSUME NEW a \in Nat, NEW b \in Nat, b > 0, 0 .. a - 1 = 0 .. b - 1
  PROVE  a = b
<1>1. b - 1 \in 0 .. a - 1 /\ (a > 0 => a - 1 \in 0 .. b - 1)
  OBVIOUS
<1> QED  BY <1>1

(* MappedRight.                                                            *)
LEMMA ViewsAreRight ==
  ASSUME HeldInv, DeviceInv, EntriesInv, TableInv, ViewsInv
  PROVE  MappedRight
<1> SUFFICES ASSUME NEW q \in Procs, q \in open, vmas[q] # None, ~vmas[q].stale,
                    NEW k \in DOMAIN vmas[q].at
             PROVE  LET v == vmas[q]  o == v.off + k IN
                    IF o < BarPages THEN v.at[k] = <<res, o>>
                    ELSE /\ v.at[k] # None => v.at[k] = dma_pages[o - BarPages]
                         /\ v.off = HostMap[1] /\ o - BarPages < dma_pages_count
                            /\ DOMAIN v.at = 0 .. HostMap[2] - 1 => v.at[k] # None
  BY DEF MappedRight, ViewsInv
<1>1. PICK m \in Maps : vmas[q] \in Vmas(m) /\ Viewing /\ vmas[q].at = MappedAs(m)
  BY DEF ViewsInv, ViewOk
<1> DEFINE v == vmas[q]  o == v.off + k
           here == Inserts(m[1], m[2], k, dma_pages_count)
<1>2. /\ v.off = m[1] /\ k \in 0 .. m[2] - 1 /\ DOMAIN v.at = 0 .. m[2] - 1
      /\ m[1] \in Nat /\ m[2] \in Nat /\ NumPages \in Nat \ {0} /\ BarPages \in Nat
      /\ dma_pages_count \in {0, NumPages}
  BY <1>1, DriverAssumption DEF Vmas, EntriesInv
<1>3. CASE o < BarPages
  BY <1>1, <1>2, <1>3 DEF MappedAs, MapAt, Viewing, DeviceInv
<1>4. CASE ~(o < BarPages)
  <2>1. v.at[k] = IF here = {} THEN None ELSE dma_pages[CHOOSE i \in here : TRUE]
    BY <1>1, <1>2, <1>4 DEF MappedAs, MapAt
  <2>2. ASSUME here # {}
        PROVE  v.at[k] = dma_pages[o - BarPages]
    <3> DEFINE i == CHOOSE j \in here : TRUE
    <3>1. i \in here
      BY <2>2
    <3>2. v.at[k] = dma_pages[i]
      BY <2>1, <2>2
    <3>3. dma_pages_count \in 0 .. NumPages
      BY <1>2
    <3> HIDE DEF i
    <3>4. i = m[1] + k - BarPages
      BY <3>1, <3>3, <1>2, InsertedRight
    <3> QED  BY <3>2, <3>4, <1>2
  <2>3. ASSUME v.off = HostMap[1], o - BarPages < dma_pages_count, DOMAIN v.at = 0 .. HostMap[2] - 1
        PROVE  v.at[k] # None
    <3>6. m[1] = BarPages /\ HostMap[2] \in Nat /\ HostMap[2] > NumPages
      BY <1>2, <2>3, DriverAssumption
    <3>7. m[2] = HostMap[2]
      BY <1>2, <2>3, <3>6, SameEnd
    <3>8. k \in Nat /\ o = BarPages + k
      BY <1>2, <3>6
    <3>1. m[1] = BarPages /\ m[2] = HostMap[2] /\ m[2] > NumPages /\ dma_pages_count = NumPages
      BY <1>2, <2>3, <3>6, <3>7, <3>8
    <3>2. k \in 0 .. NumPages - 1
      BY <1>2, <2>3, <3>1, <3>8
    <3>3. here # {}
      BY <3>1, <3>2, <1>2, HostMapWhole
    <3>4. dma_pages[k] # None
      BY <1>1, <3>1, <3>2 DEF TableInv, Viewing, Idx
    <3>5. o - BarPages = k
      BY <1>2, <3>8
    <3> QED  BY <2>2, <3>3, <3>4, <3>5
  <2>4. v.at[k] # None => v.at[k] = dma_pages[o - BarPages]
    BY <2>1, <2>2
  <2> QED  BY <1>4, <2>3, <2>4
<1> QED  BY <1>3, <1>4

-----------------------------------------------------------------------------
(* Places where processes see a page.                                      *)
SeenAt(w, p) == UNION {{<<q, k>> : k \in UsedAt(w[q], p)} : q \in Procs}

LEMMA SeenIs == \A p : Seen(p) = Cardinality(SeenAt(vmas, p))
BY DEF Seen, SeenAt

LEMMA PairsCounted ==
  ASSUME NEW q, NEW S, IsFiniteSet(S)
  PROVE  LET T == {<<q, k>> : k \in S} IN IsFiniteSet(T) /\ Cardinality(T) = Cardinality(S)
<1> DEFINE T == {<<q, k>> : k \in S}
           f == [k \in S |-> <<q, k>>]
<1>1. f \in Bijection(S, T)
  BY DEF Bijection, Injection, Surjection, IsInjective
<1>2. ExistsBijection(S, T)
  BY <1>1 DEF ExistsBijection
<1> QED  BY <1>2, FS_Bijection

LEMMA SeenFinite ==
  ASSUME NEW w, NEW p, \A q \in Procs : IsFiniteSet(UsedAt(w[q], p))
  PROVE  IsFiniteSet(SeenAt(w, p))
<1> DEFINE K(q) == {<<q, k>> : k \in UsedAt(w[q], p)}
           Ks == {K(q) : q \in Procs}
           f == [q \in Procs |-> K(q)]
<1>1. f \in Surjection(Procs, Ks)
  BY DEF Surjection
<1>2. IsFiniteSet(Ks)
  BY <1>1, FS_Surjection, DriverAssumption
<1>3. \A T \in Ks : IsFiniteSet(T)
  BY PairsCounted
<1> QED  BY <1>2, <1>3, FS_UNION DEF SeenAt

(* A process that begins or ends to see a page.                            *)
LEMMA SeenMore ==
  ASSUME NEW w1, NEW w2, NEW p, NEW q \in Procs, w1[q] = None,
         \A r \in Procs \ {q} : w1[r] = w2[r],
         \A r \in Procs : IsFiniteSet(UsedAt(w2[r], p))
  PROVE  Cardinality(SeenAt(w2, p)) = Cardinality(SeenAt(w1, p)) + Uses(w2[q], p)
<1> DEFINE K == {<<q, k>> : k \in UsedAt(w2[q], p)}
<1>1. UsedAt(w1[q], p) = {}
  BY DEF UsedAt
<1>2. SeenAt(w2, p) = SeenAt(w1, p) \cup K
  <2>1. ASSUME NEW x PROVE x \in SeenAt(w2, p) <=> \E r \in Procs : \E k \in UsedAt(w2[r], p) : x = <<r, k>>
    BY DEF SeenAt
  <2>2. ASSUME NEW x PROVE x \in SeenAt(w1, p) <=> \E r \in Procs : \E k \in UsedAt(w1[r], p) : x = <<r, k>>
    BY DEF SeenAt
  <2> QED  BY <2>1, <2>2, <1>1
<1>3. SeenAt(w1, p) \cap K = {}
  BY <1>1 DEF SeenAt
<1>4. \A r \in Procs : IsFiniteSet(UsedAt(w1[r], p))
  BY <1>1, FS_EmptySet
<1>5. IsFiniteSet(SeenAt(w1, p))
  BY <1>4, SeenFinite
<1>6. IsFiniteSet(K) /\ Cardinality(K) = Uses(w2[q], p)
  BY PairsCounted DEF Uses
<1>7. Cardinality(SeenAt(w1, p)) \in Nat /\ Cardinality(K) \in Nat
  BY <1>5, <1>6, FS_CardinalityType
<1> HIDE DEF K
<1>8. Cardinality(SeenAt(w2, p)) = Cardinality(SeenAt(w1, p)) + Cardinality(K) - Cardinality({})
  BY <1>2, <1>3, <1>5, <1>6, FS_Union
<1> QED  BY <1>6, <1>7, <1>8, FS_EmptySet

LEMMA UsedFinite ==
  ASSUME NEW v, v = None \/ \E m \in Maps : v \in Vmas(m), NEW p
  PROVE  IsFiniteSet(UsedAt(v, p))
<1>1. CASE v = None
  BY <1>1, FS_EmptySet DEF UsedAt
<1>2. CASE v # None
  <2>1. PICK m \in Maps : v \in Vmas(m)
    BY <1>2
  <2>2. DOMAIN v.at = 0 .. m[2] - 1 /\ m[2] \in Nat
    BY <2>1, DriverAssumption DEF Vmas
  <2>3. IsFiniteSet(0 .. m[2] - 1)
    BY <2>2, FS_Interval
  <2> QED  BY <1>2, <2>2, <2>3, FS_Subset DEF UsedAt
<1> QED  BY <1>1, <1>2

LEMMA SeenTyped ==
  ASSUME NEW p
  PROVE  /\ ViewsInv => Seen(p) \in Nat /\ \A q \in Procs : IsFiniteSet(UsedAt(vmas[q], p))
         /\ ViewsInv' => Seen(p)' \in Nat /\ \A q \in Procs : IsFiniteSet(UsedAt(vmas'[q], p))
<1>1. ASSUME ViewsInv  PROVE  \A q \in Procs : IsFiniteSet(UsedAt(vmas[q], p))
  BY <1>1, UsedFinite DEF ViewsInv, ViewOk
<1>2. ASSUME ViewsInv'  PROVE  \A q \in Procs : IsFiniteSet(UsedAt(vmas'[q], p))
  <2>1. \A q \in Procs : vmas'[q] = None \/ \E m \in Maps : vmas'[q] \in Vmas(m)
    BY <1>2 DEF ViewsInv, ViewOk, Vmas
  <2> QED  BY <2>1, UsedFinite
<1>3. Seen(p) = Cardinality(SeenAt(vmas, p)) /\ Seen(p)' = Cardinality(SeenAt(vmas', p))
  BY DEF Seen, SeenAt
<1> QED  BY <1>1, <1>2, <1>3, SeenFinite, FS_CardinalityType

-----------------------------------------------------------------------------
(* A page is counted once for every entry that holds it.                   *)
HeldAt(t, n, p) == {i \in 0 .. n - 1 : t[i] = p}

LEMMA CountIs == \A p, n : Count(p, n) = Cardinality(HeldAt(dma_pages, n, p))
BY DEF Count, HeldAt

LEMMA HeldFinite ==
  ASSUME NEW t, NEW n \in Nat, NEW p
  PROVE  IsFiniteSet(HeldAt(t, n, p)) /\ Cardinality(HeldAt(t, n, p)) \in Nat
<1>1. IsFiniteSet(0 .. n - 1)
  BY FS_Interval
<1> QED  BY <1>1, FS_Subset, FS_CardinalityType DEF HeldAt

LEMMA NoneCounted ==
  ASSUME NEW p \in Pages, NEW n \in {0, NumPages}
  PROVE  Cardinality(HeldAt(Empty, n, p)) = 0 /\ Cardinality(HeldAt(dma_pages, 0, p)) = 0
<1>1. HeldAt(Empty, n, p) = {} /\ HeldAt(dma_pages, 0, p) = {}
  BY DriverAssumption DEF HeldAt, Empty, Idx
<1> QED  BY <1>1, FS_EmptySet

LEMMA OneMoreCounted ==
  ASSUME NEW t \in [Idx -> Entries], NEW i \in Idx, t[i] = None, NEW x \in Pages, NEW p \in Pages
  PROVE  Cardinality(HeldAt([t EXCEPT ![i] = x], NumPages, p)) =
         Cardinality(HeldAt(t, NumPages, p)) + (IF p = x THEN 1 ELSE 0)
<1>1. p # None /\ NumPages \in Nat
  BY DriverAssumption
<1>2. IsFiniteSet(HeldAt(t, NumPages, p)) /\ Cardinality(HeldAt(t, NumPages, p)) \in Nat
  BY <1>1, HeldFinite
<1>3. CASE p = x
  <2>1. HeldAt([t EXCEPT ![i] = x], NumPages, p) = HeldAt(t, NumPages, p) \cup {i}
    BY <1>3 DEF HeldAt, Idx
  <2>2. i \notin HeldAt(t, NumPages, p)
    BY <1>1 DEF HeldAt
  <2> QED  BY <1>2, <1>3, <2>1, <2>2, FS_AddElement
<1>4. CASE p # x
  <2>1. HeldAt([t EXCEPT ![i] = x], NumPages, p) = HeldAt(t, NumPages, p)
    BY <1>1, <1>4 DEF HeldAt, Idx
  <2> QED  BY <1>2, <1>4, <2>1
<1> QED  BY <1>3, <1>4

-----------------------------------------------------------------------------
LEMMA OwnedTyped ==
  ASSUME NEW p
  PROVE  Owned(p) \in Nat /\ Owned(p)' \in Nat
<1>1. NumPages \in Nat
  BY DriverAssumption
<1>2. /\ Count(p, NumPages) = Cardinality(HeldAt(dma_pages, NumPages, p))
      /\ Count(p, NumPages)' = Cardinality(HeldAt(dma_pages', NumPages, p))
  BY DEF Count, HeldAt
<1>3. Count(p, NumPages) \in Nat /\ Count(p, NumPages)' \in Nat
  BY <1>1, <1>2, HeldFinite
<1> QED  BY <1>3 DEF Owned

LEMMA NoFaultBefore ==
  ASSUME FaultsInv, [Next]_vars, faults' = 0
  PROVE  faults = 0
BY FaultsCounted, DriverAssumption DEF FaultsInv, Fault

LEMMA FaultShows ==
  ASSUME FaultsInv, Fault
  PROVE  faults' # 0
BY DriverAssumption DEF FaultsInv, Fault

(* A step gives a page the references it gives it places, or forgets some  *)
(* of its places when a step has failed.                                   *)
Whole == bound /\ step # "release" => dma_pages_count = NumPages
Balanced(p) ==
  LET given == (Owned(p)' - Owned(p)) + (Seen(p)' - Seen(p))
  IN  refs'[p] >= refs[p] + given /\ (faults = 0 => refs'[p] = refs[p] + given)

LEMMA Balance ==
  ASSUME RefsInv, FaultsInv, ViewsInv, ViewsInv', [Next]_vars,
         refs' \in [Pages -> Int], \A p \in Pages : Balanced(p),
         faults' = 0 => Whole'
  PROVE  RefsInv'
<1>1. ASSUME NEW p \in Pages
      PROVE  /\ refs'[p] \in Nat /\ refs'[p] >= Owned(p)' + Seen(p)'
             /\ faults' = 0 => refs'[p] = Owned(p)' + Seen(p)'
  <2>1. Owned(p) \in Nat /\ Seen(p) \in Nat /\ Seen(p)' \in Nat /\ Owned(p)' \in Nat
    BY OwnedTyped, SeenTyped
  <2>3. refs[p] \in Nat /\ refs'[p] \in Int /\ refs[p] >= Owned(p) + Seen(p)
        /\ (faults = 0 => refs[p] = Owned(p) + Seen(p))
    BY DEF RefsInv
  <2> QED  BY <2>1, <2>3, NoFaultBefore DEF Balanced
<1> QED  BY <1>1 DEF RefsInv, Whole

(* A step that changes neither references nor places.                      *)
LEMMA Unmoved ==
  ASSUME RefsInv, FaultsInv, ViewsInv, ViewsInv', [Next]_vars,
         UNCHANGED refs, \A p \in Pages : Owned(p)' = Owned(p) /\ Seen(p)' = Seen(p),
         faults' = 0 => Whole'
  PROVE  RefsInv'
<1>1. refs' \in [Pages -> Int]
  BY DEF RefsInv
<1>2. ASSUME NEW p \in Pages  PROVE  Balanced(p)
  <2>1. Owned(p) \in Nat /\ Seen(p) \in Nat /\ refs[p] \in Nat
    BY OwnedTyped, SeenTyped DEF RefsInv
  <2> QED  BY <2>1 DEF Balanced
<1> QED  BY <1>1, <1>2, Balance

LEMMA RefsInvInit == Init => RefsInv
<1> SUFFICES ASSUME Init PROVE RefsInv
  OBVIOUS
<1>1. ASSUME NEW p \in Pages PROVE Owned(p) = 0 /\ Seen(p) = 0
  <2>1. Owned(p) = 0
    BY DEF Init, DriverInit, Owned
  <2>2. SeenAt(vmas, p) = {}
    BY DEF Init, DriverInit, SeenAt, UsedAt
  <2> QED  BY <2>1, <2>2, SeenIs, FS_EmptySet
<1> QED  BY <1>1 DEF Init, DriverInit, RefsInv

LEMMA SeenKept ==
  ASSUME UNCHANGED vmas, NEW p
  PROVE  Seen(p)' = Seen(p)
BY DEF Seen

LEMMA RefsDriver ==
  ASSUME FaultsInv, HeldInv, DeviceInv, EntriesInv, ViewsInv, ViewsInv', RefsInv, DriverStep, [Next]_vars
  PROVE  RefsInv'
<1>0. faults = 0 => Whole
  BY DEF RefsInv, Whole
<1>1. CASE pci_enable_device \/ pci_request_regions \/ pci_iomap \/ pci_set_master
  <2>1. /\ UNCHANGED <<refs, vmas, bound>> /\ ~bound
        /\ step # "page" /\ step' # "page"
    BY <1>1 DEF pci_enable_device, pci_request_regions, pci_iomap, pci_set_master, ProbeFails,
       moduleVars, kernelVars, procVars, HeldInv, DeviceInv, Probing
  <2> QED  BY <2>1, Unmoved, SeenKept DEF Owned, Whole
<1>2. CASE chrdev_init \/ ExitDone \/ Release
  <2>1. /\ UNCHANGED <<refs, vmas, table, dma_pages, dma_pages_count>>
        /\ step # "page" /\ step' # "page" /\ step' # "release"
        /\ bound' /\ step' # "release" <=> bound /\ step # "release"
    BY <1>2 DEF chrdev_init, ExitDone, Release, kernelVars, procVars, HeldInv, Removing
  <2>2. \A p \in Pages : Owned(p)' = Owned(p)
    BY <2>1 DEF Owned, Count
  <2>3. faults' = 0 => Whole'
    BY <1>0, <2>1, NoFaultBefore DEF Whole
  <2> QED  BY <2>1, <2>2, <2>3, Unmoved, SeenKept
<1>3. CASE kmalloc
  <2>1. /\ UNCHANGED <<refs, vmas>> /\ ~bound /\ step = "kmalloc" /\ dma_pages' = Empty
        /\ after # "page"
        /\ \/ step' = "page" /\ UNCHANGED bound
           \/ table' = "null" /\ step' = after /\ Fault
    BY <1>3 DEF kmalloc, Bind, kernelVars, procVars, HeldInv, DeviceInv, Probing
  <2>2. ASSUME NEW p \in Pages PROVE Owned(p)' = Owned(p)
    <3>1. Owned(p) = 0
      BY <2>1 DEF Owned
    <3>2. Count(p, NumPages)' = 0
      BY <2>1, NoneCounted DEF Count, HeldAt
    <3> QED  BY <2>1, <3>1, <3>2 DEF Owned
  <2>3. faults' = 0 => Whole'
    BY <2>1, FaultShows DEF Whole
  <2> QED  BY <2>1, <2>2, <2>3, Unmoved, SeenKept
<1>4. CASE alloc_page
  <2>1. /\ step = "page" /\ ~bound /\ table = "live" /\ table' = "live" /\ vmas' = vmas
        /\ after \in {"idle", "chrdev"} /\ bufidx \in Idx /\ dma_pages[bufidx] = None
    BY <1>4, DriverAssumption DEF alloc_page, procVars, HeldInv, DeviceInv, EntriesInv, Probing, Idx
  <2>2. step' = "page" \/ (bound' /\ step' # "release")
    BY <1>4, <2>1 DEF alloc_page, Bind
  <2>3. \A p \in Pages : /\ Owned(p) = Cardinality(HeldAt(dma_pages, NumPages, p))
                         /\ Owned(p)' = Cardinality(HeldAt(dma_pages', NumPages, p))
    BY <2>1, <2>2 DEF Owned, Count, HeldAt
  <2>4. faults' = 0 => Whole'
    BY <1>4, <2>1, FaultShows DEF alloc_page, Whole
  <2>5. CASE UNCHANGED <<refs, dma_pages>>
    BY <2>1, <2>3, <2>4, <2>5, Unmoved, SeenKept
  <2>6. CASE ~UNCHANGED <<refs, dma_pages>>
    <3>1. PICK x \in Pages : /\ refs[x] = 0 /\ refs' = [refs EXCEPT ![x] = 1]
                             /\ dma_pages' = [dma_pages EXCEPT ![bufidx] = x]
      BY <1>4, <2>6 DEF alloc_page
    <3>2. ASSUME NEW p \in Pages PROVE Balanced(p)
      <4>4. dma_pages \in [Idx -> Entries]
        BY DEF EntriesInv
      <4>5. Cardinality(HeldAt(dma_pages', NumPages, p)) =
            Cardinality(HeldAt(dma_pages, NumPages, p)) + (IF p = x THEN 1 ELSE 0)
        BY <2>1, <3>1, <4>4, OneMoreCounted
      <4>1. Owned(p)' = Owned(p) + (IF p = x THEN 1 ELSE 0)
        BY <2>3, <4>5
      <4>2. Owned(p) \in Nat /\ Seen(p) \in Nat /\ Seen(p)' = Seen(p)
        BY <2>1, OwnedTyped, SeenTyped, SeenKept
      <4>3. refs[p] \in Nat /\ refs'[p] = refs[p] + (IF p = x THEN 1 ELSE 0)
        BY <3>1 DEF RefsInv
      <4> QED  BY <4>1, <4>2, <4>3 DEF Balanced
    <3>3. refs' \in [Pages -> Int]
      BY <3>1 DEF RefsInv
    <3> QED  BY <2>4, <3>2, <3>3, Balance
  <2> QED  BY <2>5, <2>6
<1>5. CASE FreePages
  <2>1. /\ step = "remove" /\ bound /\ step' = "release"
        /\ refs' = [p \in Pages |-> refs[p] - Count(p, dma_pages_count)]
        /\ vmas' = [q \in Procs |-> IF vmas[q] = None THEN None ELSE [vmas[q] EXCEPT !.stale = TRUE]]
    BY <1>5 DEF FreePages, DeviceInv, Removing
  <2>2. ASSUME NEW p, NEW q \in Procs  PROVE  UsedAt(vmas'[q], p) = UsedAt(vmas[q], p)
    <3>1. CASE vmas[q] = None
      BY <2>1, <3>1
    <3>2. CASE vmas[q] # None
      <4>1. PICK m \in Maps : vmas[q] \in Vmas(m)
        BY <3>2 DEF ViewsInv, ViewOk
      <4>2. vmas'[q] \in Vmas(m) /\ vmas'[q].at = vmas[q].at
        BY <2>1, <3>2, <4>1, StaleView
      <4>3. vmas'[q] # None
        BY <4>2, DriverAssumption
      <4> QED  BY <3>2, <4>2, <4>3 DEF UsedAt
    <3> QED  BY <3>1, <3>2
  <2>3. ASSUME NEW p \in Pages  PROVE  Seen(p)' = Seen(p)
    <3>1. SeenAt(vmas', p) = SeenAt(vmas, p)
      BY <2>2 DEF SeenAt
    <3> QED  BY <3>1, SeenIs DEF Seen, SeenAt
  <2>4. ASSUME NEW p \in Pages
        PROVE  Balanced(p) /\ refs'[p] \in Int
    <3>1. dma_pages_count \in {0, NumPages} /\ NumPages \in Nat
      BY DriverAssumption DEF EntriesInv
    <3>2. Count(p, dma_pages_count) \in Nat /\ Count(p, NumPages) \in Nat /\ Count(p, 0) = 0
      BY <3>1, CountIs, HeldFinite, NoneCounted
    <3>3. Owned(p)' = 0
      BY <2>1 DEF Owned
    <3>4. CASE table = "live"
      <4>1. Owned(p) = Count(p, NumPages)
        BY <2>1, <3>4 DEF Owned
      <4>2. faults = 0 => dma_pages_count = NumPages
        BY <1>0, <2>1 DEF Whole
      <4>3. refs[p] \in Nat /\ Seen(p) \in Nat /\ refs'[p] = refs[p] - Count(p, dma_pages_count)
        BY <2>1, SeenTyped DEF RefsInv
      <4> QED  BY <2>3, <3>1, <3>2, <3>3, <4>1, <4>2, <4>3 DEF Balanced
    <3>5. CASE table # "live"
      <4>1. dma_pages = Empty /\ Owned(p) = 0
        BY <2>1, <3>5 DEF EntriesInv, Owned
      <4>2. Count(p, dma_pages_count) = 0
        BY <3>1, <4>1, CountIs, NoneCounted
      <4>3. refs[p] \in Nat /\ Seen(p) \in Nat /\ refs'[p] = refs[p] - 0
        BY <2>1, <4>2, SeenTyped DEF RefsInv
      <4> QED  BY <2>3, <3>3, <4>1, <4>3 DEF Balanced
    <3> QED  BY <3>4, <3>5
  <2>5. refs' \in [Pages -> Int]
    BY <2>1, <2>4
  <2> QED  BY <2>1, <2>4, <2>5, Balance DEF Whole
<1> QED
  BY <1>1, <1>2, <1>3, <1>4, <1>5 DEF DriverStep

LEMMA RefsProcess ==
  ASSUME FaultsInv, HeldInv, DeviceInv, EntriesInv, ViewsInv, ViewsInv', RefsInv, ProcessStep, [Next]_vars
  PROVE  RefsInv'
<1>1. PICK q \in Procs : bdbm_open(q) \/ bdbm_mmap(q) \/ Close(q)
  BY DEF ProcessStep
<1>2. UNCHANGED <<bound, step, table, dma_pages, dma_pages_count, faults>>
  BY <1>1 DEF bdbm_open, bdbm_mmap, Close, moduleVars, stepVars
<1>3. \A p \in Pages : Owned(p)' = Owned(p)
  BY <1>2 DEF Owned, Count
<1>4. faults' = 0 => Whole'
  BY <1>2 DEF Whole, RefsInv
<1>5. \A p \in Pages : Owned(p) \in Nat /\ Seen(p) \in Nat /\ Seen(p)' \in Nat /\ refs[p] \in Nat
  BY OwnedTyped, SeenTyped DEF RefsInv
<1>6. \A p \in Pages : Uses(vmas[q], p) \in Nat /\ Uses(vmas'[q], p) \in Nat
  <2>1. \A p \in Pages : IsFiniteSet(UsedAt(vmas[q], p)) /\ IsFiniteSet(UsedAt(vmas'[q], p))
    BY SeenTyped
  <2> QED  BY <2>1, FS_CardinalityType DEF Uses
<1>7. CASE bdbm_open(q)
  BY <1>3, <1>4, <1>7, Unmoved, SeenKept DEF bdbm_open, kernelVars
<1>8. CASE bdbm_mmap(q)
  <2>1. /\ vmas[q] = None /\ \A r \in Procs \ {q} : vmas[r] = vmas'[r]
        /\ refs' = [p \in Pages |-> refs[p] + Uses(vmas'[q], p)]
    BY <1>8 DEF bdbm_mmap, ViewsInv
  <2>2. ASSUME NEW p \in Pages  PROVE  Seen(p)' = Seen(p) + Uses(vmas'[q], p)
    <3>1. \A r \in Procs : IsFiniteSet(UsedAt(vmas'[r], p))
      BY SeenTyped
    <3>2. Cardinality(SeenAt(vmas', p)) = Cardinality(SeenAt(vmas, p)) + Uses(vmas'[q], p)
      BY <2>1, <3>1, SeenMore
    <3> QED  BY <3>2 DEF Seen, SeenAt
  <2>3. refs' \in [Pages -> Int] /\ \A p \in Pages : Balanced(p)
    BY <1>3, <1>5, <1>6, <2>1, <2>2 DEF Balanced
  <2> QED  BY <1>4, <2>3, Balance
<1>9. CASE Close(q)
  <2>1. /\ vmas'[q] = None /\ \A r \in Procs \ {q} : vmas'[r] = vmas[r]
        /\ refs' = [p \in Pages |-> refs[p] - Uses(vmas[q], p)]
    BY <1>9 DEF Close, ViewsInv
  <2>2. ASSUME NEW p \in Pages  PROVE  Seen(p) = Seen(p)' + Uses(vmas[q], p)
    <3>1. \A r \in Procs : IsFiniteSet(UsedAt(vmas[r], p))
      BY SeenTyped
    <3>2. Cardinality(SeenAt(vmas, p)) = Cardinality(SeenAt(vmas', p)) + Uses(vmas[q], p)
      BY <2>1, <3>1, SeenMore
    <3> QED  BY <3>2 DEF Seen, SeenAt
  <2>3. refs' \in [Pages -> Int] /\ \A p \in Pages : Balanced(p)
    BY <1>3, <1>5, <1>6, <2>1, <2>2 DEF Balanced
  <2> QED  BY <1>4, <2>3, Balance
<1> QED  BY <1>1, <1>7, <1>8, <1>9

LEMMA OthersKeepRefs ==
  ASSUME [Next]_vars
  PROVE  DriverStep \/ ProcessStep \/ Reboot \/ UNCHANGED refs
<1>1. CASE UNCHANGED vars
  BY <1>1 DEF vars, driverVars, kernelVars
<1>2. CASE Load \/ Unload \/ unload_driver
  BY <1>2 DEF Load, Unload, unload_driver, pcie_init, pcie_exit, driverVars, kernelVars
<1>3. CASE remove \/ unlist \/ rescan \/ Program \/ Flush
  BY <1>3 DEF remove, unlist, rescan, Program, Flush, kernelVars
<1>4. CASE find_pcie_device \/ config \/ backup_config \/ restore_config \/ set_rebooted \/ WriteBack
  <2>1. UNCHANGED driverVars
    BY <1>4 DEF find_pcie_device, config, backup_config, restore_config, set_rebooted, WriteBack
  <2> QED  BY <2>1 DEF driverVars, kernelVars
<1> QED
  BY <1>1, <1>2, <1>3, <1>4, NextIsSteps DEF Steps, Outside, DriverOnly

LEMMA RefsInvNext ==
  ASSUME FaultsInv, Places, RescanInv, HeldInv, DeviceInv, EntriesInv, ViewsInv, ViewsInv', RefsInv, [Next]_vars
  PROVE  RefsInv'
<1>1. CASE DriverStep
  BY <1>1, RefsDriver
<1>2. CASE ProcessStep
  BY <1>2, RefsProcess
<1>3. CASE Reboot
  <2>1. ASSUME NEW p \in Pages PROVE Owned(p)' = 0 /\ Seen(p)' = 0
    <3>1. Owned(p)' = 0
      BY <1>3 DEF Reboot, Owned
    <3>2. SeenAt(vmas', p) = {}
      BY <1>3 DEF Reboot, SeenAt, UsedAt
    <3> QED  BY <3>1, <3>2, FS_EmptySet DEF Seen, SeenAt
  <2> QED  BY <1>3, <2>1 DEF Reboot, RefsInv
<1>4. CASE Load
  <2>1. ~bound /\ ~bound' /\ step # "page" /\ step' # "page" /\ UNCHANGED <<refs, vmas>>
    BY <1>4 DEF Load, pcie_init, HeldInv, Free, kernelVars, procVars
  <2> QED  BY <2>1, Unmoved, SeenKept DEF Owned, Whole
<1>5. CASE /\ ~ProcessStep /\ ~Reboot /\ ~DriverStep /\ ~Load
  <2>1. /\ TableKept /\ UNCHANGED <<refs, vmas>>
        /\ step' = step \/ (step = "idle" /\ step' \in {"remove", "exit", "enable"})
    BY <1>5, OthersKeepTable, OthersKeepViews, OthersKeepRefs
  <2>2. \A p \in Pages : Owned(p)' = Owned(p)
    BY <2>1 DEF Owned, Count, TableKept
  <2>3. faults' = 0 => Whole'
    BY <2>1, NoFaultBefore DEF Whole, RefsInv, TableKept
  <2> QED  BY <2>1, <2>2, <2>3, Unmoved, SeenKept
<1> QED
  BY <1>1, <1>2, <1>3, <1>4, <1>5

LEMMA RefsAreAccounted ==
  ASSUME HeldInv, EntriesInv, ViewsInv, RefsInv
  PROVE  RefsAccount
<1>1. ASSUME NEW p \in Pages  PROVE  refs[p] >= Held(p) + Seen(p)
  <2>1. dma_pages_count \in {0, NumPages} /\ NumPages \in Nat
    BY DriverAssumption DEF EntriesInv
  <2>2. Count(p, NumPages) \in Nat /\ Count(p, 0) = 0
    BY <2>1, CountIs, HeldFinite, NoneCounted
  <2>3. Seen(p) \in Nat /\ Owned(p) \in Nat /\ refs[p] \in Nat /\ refs[p] >= Owned(p) + Seen(p)
    BY SeenTyped, OwnedTyped DEF RefsInv
  <2> QED  BY <2>1, <2>2, <2>3 DEF Held, Owned
<1>2. ASSUME module = "out", faults = 0, NEW p \in Pages  PROVE  refs[p] = 0
  <2>1. open = {} /\ ~bound /\ step = "idle"
    BY <1>2 DEF HeldInv, Free
  <2>2. \A q \in Procs : vmas[q] = None
    BY <2>1 DEF ViewsInv
  <2>3. Seen(p) = 0
    BY <2>2, SeenIs, FS_EmptySet DEF SeenAt, UsedAt
  <2>4. Owned(p) = 0
    BY <2>1 DEF Owned
  <2> QED  BY <1>2, <2>3, <2>4 DEF RefsInv
<1> QED  BY <1>1, <1>2 DEF RefsAccount

-----------------------------------------------------------------------------
(* Every page that is seen, or is in the driver's table, has the           *)
(* references for it, whatever failed in between and however often the     *)
(* driver was loaded, removed under a process or rescanned.                *)
THEOREM RefsAccounted == Spec => []RefsAccount
<1>1. HeldInv /\ EntriesInv /\ ViewsInv /\ RefsInv => RefsAccount
  BY RefsAreAccounted
<1>2. FaultsInv /\ [Next]_vars => FaultsInv'
  BY FaultsInvNext
<1>3. Places /\ RescanInv /\ HeldInv /\ DeviceInv /\ [Next]_vars => RescanInv' /\ HeldInv' /\ DeviceInv'
  BY RescanInvNext, HeldInvNext, DeviceInvNext
<1>4. HeldInv /\ DeviceInv /\ EntriesInv /\ [Next]_vars => EntriesInv'
  BY EntriesInvNext
<1>5. Places /\ RescanInv /\ HeldInv /\ DeviceInv /\ EntriesInv /\ ViewsInv /\ [Next]_vars => ViewsInv'
  BY ViewsInvNext
<1>6. FaultsInv /\ Places /\ RescanInv /\ HeldInv /\ DeviceInv /\ EntriesInv /\ ViewsInv /\ ViewsInv'
        /\ RefsInv /\ [Next]_vars => RefsInv'
  BY RefsInvNext
<1> QED
  BY <1>1, <1>2, <1>3, <1>4, <1>5, <1>6, PlacesKept, RescanInvInit, HeldInvInit, DeviceInvInit,
     FaultsInvInit, EntriesInvInit, ViewsInvInit, RefsInvInit, PTL DEF Spec

LEMMA TableIsRight ==
  ASSUME HeldInv, DeviceInv, EntriesInv, TableInv, CopyInv, ViewsInv, RefsInv
  PROVE  TableAgrees
<1> SUFFICES ASSUME Complete
             PROVE  /\ table = "live" /\ \A i \in Idx : dma_pages[i] # None /\ refs[dma_pages[i]] > 0
                    /\ Answers => configBuffer = dma_pages
  BY DEF TableAgrees
<1>1. table = "live" /\ \A i \in Idx : dma_pages[i] # None
  BY DEF Complete, TableInv
<1>2. ASSUME NEW i \in Idx  PROVE  refs[dma_pages[i]] > 0
  <2> DEFINE p == dma_pages[i]
  <2>1. p \in Pages /\ NumPages \in Nat
    BY <1>1, DriverAssumption DEF EntriesInv, Entries
  <2>2. Owned(p) = Cardinality(HeldAt(dma_pages, NumPages, p))
    BY <1>1, CountIs DEF Owned, Complete
  <2>3. i \in HeldAt(dma_pages, NumPages, p)
    BY DEF HeldAt, Idx
  <2>4. Owned(p) \in Nat /\ Owned(p) # 0
    BY <2>1, <2>2, <2>3, HeldFinite, FS_EmptySet
  <2>5. Seen(p) \in Nat
    BY SeenTyped
  <2> QED  BY <2>1, <2>4, <2>5 DEF RefsInv
<1>3. Answers => configBuffer = dma_pages
  BY DriverAssumption DEF Answers, Complete, CopyInv, Unplaced, DeviceInv
<1> QED  BY <1>1, <1>2, <1>3

(* With one step that fails at most, a probe that has reached its end has  *)
(* put its whole table into the FPGA, of pages that are allocated.  (A     *)
(* count left by a removal makes it false when a later probe fails: it is  *)
(* never reset.)                                                           *)
THEOREM TableHolds ==
  ASSUME MaxFaults <= 1
  PROVE  Spec => []TableAgrees
<1>1. HeldInv /\ DeviceInv /\ EntriesInv /\ TableInv /\ CopyInv /\ ViewsInv /\ RefsInv => TableAgrees
  BY TableIsRight
<1>2. FaultsInv /\ [Next]_vars => FaultsInv'
  BY FaultsInvNext
<1>3. Places /\ RescanInv /\ HeldInv /\ DeviceInv /\ [Next]_vars => RescanInv' /\ HeldInv' /\ DeviceInv'
  BY RescanInvNext, HeldInvNext, DeviceInvNext
<1>4. HeldInv /\ DeviceInv /\ EntriesInv /\ [Next]_vars => EntriesInv'
  BY EntriesInvNext
<1>5. FaultsInv /\ Places /\ HeldInv /\ DeviceInv /\ EntriesInv /\ TableInv /\ [Next]_vars => TableInv'
  BY TableInvNext
<1>6. FaultsInv /\ Places /\ RescanInv /\ HeldInv /\ DeviceInv /\ EntriesInv /\ TableInv /\ CopyInv
        /\ [Next]_vars => CopyInv'
  BY CopyInvNext
<1>7. Places /\ RescanInv /\ HeldInv /\ DeviceInv /\ EntriesInv /\ ViewsInv /\ [Next]_vars => ViewsInv'
  BY ViewsInvNext
<1>8. FaultsInv /\ Places /\ RescanInv /\ HeldInv /\ DeviceInv /\ EntriesInv /\ ViewsInv /\ ViewsInv'
        /\ RefsInv /\ [Next]_vars => RefsInv'
  BY RefsInvNext
<1> QED
  BY <1>1, <1>2, <1>3, <1>4, <1>5, <1>6, <1>7, <1>8, PlacesKept, RescanInvInit, HeldInvInit, DeviceInvInit,
     FaultsInvInit, EntriesInvInit, TableInvInit, CopyInvInit, ViewsInvInit, RefsInvInit, PTL DEF Spec

(* With one step that fails at most, what a process sees at an offset is   *)
(* what the offset stands for, and the mapping BdbmPcie makes shows the    *)
(* whole buffer.                                                           *)
THEOREM MappedHolds ==
  ASSUME MaxFaults <= 1
  PROVE  Spec => []MappedRight
<1>1. HeldInv /\ DeviceInv /\ EntriesInv /\ TableInv /\ ViewsInv => MappedRight
  BY ViewsAreRight
<1>2. FaultsInv /\ [Next]_vars => FaultsInv'
  BY FaultsInvNext
<1>3. Places /\ RescanInv /\ HeldInv /\ DeviceInv /\ [Next]_vars => RescanInv' /\ HeldInv' /\ DeviceInv'
  BY RescanInvNext, HeldInvNext, DeviceInvNext
<1>4. HeldInv /\ DeviceInv /\ EntriesInv /\ [Next]_vars => EntriesInv'
  BY EntriesInvNext
<1>5. FaultsInv /\ Places /\ HeldInv /\ DeviceInv /\ EntriesInv /\ TableInv /\ [Next]_vars => TableInv'
  BY TableInvNext
<1>6. Places /\ RescanInv /\ HeldInv /\ DeviceInv /\ EntriesInv /\ ViewsInv /\ [Next]_vars => ViewsInv'
  BY ViewsInvNext
<1> QED
  BY <1>1, <1>2, <1>3, <1>4, <1>5, <1>6, PlacesKept, RescanInvInit, HeldInvInit, DeviceInvInit,
     FaultsInvInit, EntriesInvInit, TableInvInit, ViewsInvInit, PTL DEF Spec
=============================================================================
