------------------------------ MODULE AdminTools ------------------------------
(***************************************************************************)
(* The two tools that give the machine its device back after the FPGA has  *)
(* been programmed again, src/distribute/bsrescan and the one it replaced, *)
(* src/distribute/manager_deprecated; and the machine around them and the  *)
(* driver: programming, reboots, files that reach the disk late.           *)
(*                                                                         *)
(* A machine uses one of the two.  The administrator does one thing at a   *)
(* time: programs, runs the tool, loads or unloads the driver.             *)
(***************************************************************************)
EXTENDS Driver

CONSTANTS
  MaxPrograms, MaxReboots,  \* bounds
  MaxLoads,                 \* bound: times the driver is loaded
  FilesSynced,              \* whether files survive a reboot
  RunFirst                  \* whether the manager is run between a reboot and programming

ASSUME ToolsAssumption ==
  /\ MaxPrograms \in Nat /\ MaxReboots \in Nat /\ MaxLoads \in Nat
  /\ FilesSynced \in BOOLEAN /\ RunFirst \in BOOLEAN

VARIABLES
  tool,      \* the tool of this machine
  tpc,       \* what it does next
  cmd_reboot,
  result,    \* what it reported last
  \* the manager's files, and what the disk has of them
  flag, backup, flagDisk, backupDisk,
  \* what is still in stdio's buffers: for the backup, for the device
  toBackup, toConfig,
  programs, reboots, loads

toolVars == <<tool, tpc, cmd_reboot, result>>
fileVars == <<flag, backup, flagDisk, backupDisk>>
outVars  == <<toBackup, toConfig>>
boundVars == <<programs, reboots, loads>>
vars == <<driverVars, toolVars, fileVars, outVars, boundVars>>

(* What a file or a buffer holds of the device's configuration.            *)
Nothing == [bar |-> None, command |-> {}, kind |-> "nothing"]
NoFile  == [bar |-> None, command |-> {}, kind |-> "no file"]
NoBytes == [bar |-> None, command |-> {}, kind |-> "no bytes"]
Command7 == [bar |-> None, command |-> {"mem", "master"}, kind |-> "command"]
TheConfig == [bar |-> bar, command |-> command, kind |-> "all"]

Quiet == tpc = "idle" /\ step = "idle"

Init ==
  /\ DriverInit
  /\ tool \in {"bsrescan", "manager"} /\ tpc = "idle" /\ cmd_reboot = FALSE /\ result = "none"
  /\ flag = FALSE /\ flagDisk = FALSE /\ backup = NoFile /\ backupDisk = NoFile
  /\ toBackup = Nothing /\ toConfig = Nothing
  /\ programs = 0 /\ reboots = 0 /\ loads = 0

(***************************************************************************)
(* bsrescan.                                                               *)
(***************************************************************************)
(* The device is looked for before anything is done.                       *)
find_pcie_device ==
  /\ tool = "bsrescan" /\ Quiet
  /\ IF listed THEN tpc' = "unload" /\ UNCHANGED result
     ELSE tpc' = "idle" /\ result' = "not found"
  /\ UNCHANGED <<driverVars, tool, cmd_reboot, fileVars, outVars, boundVars>>

(* A module in use is not unloaded: that is printed, and the tool goes on. *)
unload_driver ==
  /\ tpc = "unload" /\ step = "idle" /\ tpc' = "remove"
  /\ \/ pcie_exit
     \/ module = "out" /\ UNCHANGED driverVars
     \/ /\ module = "in" /\ open # {} /\ Fault
        /\ UNCHANGED <<fpgaVars, kernelVars, moduleVars, stepVars, procVars>>
  /\ UNCHANGED <<tool, cmd_reboot, result, fileVars, outVars, boundVars>>

(* rescan_pcie_device: the kernel takes the driver from the device, then   *)
(* forgets it.                                                             *)
remove ==
  /\ tpc = "remove" /\ step = "idle" /\ tpc' = "unlist"
  /\ step' = (IF bound THEN "remove" ELSE "idle") /\ after' = "idle"
  /\ UNCHANGED <<fpgaVars, kernelVars, moduleVars, bufidx, procVars, faults, tool, cmd_reboot,
                 result, fileVars, outVars, boundVars>>

unlist ==
  /\ tpc = "unlist" /\ step = "idle" /\ tpc' = "rescan"
  /\ listed' = FALSE /\ res' = None
  /\ UNCHANGED <<fpgaVars, enabled, regions, refs, moduleVars, stepVars, procVars, faults, tool,
                 cmd_reboot, result, fileVars, outVars, boundVars>>

(* "1" is written to the file that has been closed, not to the one opened  *)
(* for it.  Either the C library has given both the same memory, and all   *)
(* is well, or the program dies.  The device may not be found.             *)
rescan ==
  /\ tpc = "rescan" /\ step = "idle"
  /\ \/ /\ tpc' = "config" /\ UNCHANGED result
        /\ \/ /\ listed' = TRUE /\ res' \in Addrs /\ bar' = res'
              /\ step' = (IF module = "in" THEN "enable" ELSE "idle") /\ UNCHANGED faults
           \/ Fault /\ UNCHANGED <<listed, res, bar, step>>
     \/ /\ tpc' = "idle" /\ result' = "died" /\ Fault
        /\ UNCHANGED <<listed, res, bar, step>>
  /\ UNCHANGED <<up, command, configBuffer, enabled, regions, refs, moduleVars, bufidx, after,
                 procVars, tool, cmd_reboot, fileVars, outVars, boundVars>>

\* mutant of config
configUnwritten ==
  /\ tpc = "config" /\ (step = "idle" \/ after = "chrdev") /\ tpc' = "exit"
  /\ \/ listed /\ toConfig' = Nothing /\ result' = "ok"
     \/ ~listed /\ result' = "failed" /\ UNCHANGED toConfig
  /\ UNCHANGED <<driverVars, tool, cmd_reboot, fileVars, toBackup, boundVars>>

(* The command register is written to a buffer, and success reported; by   *)
(* now udev may be loading the driver.                                     *)
config ==
  /\ tpc = "config" /\ (step = "idle" \/ after = "chrdev") /\ tpc' = "exit"
  /\ \/ listed /\ toConfig' = Command7 /\ result' = "ok"
     \/ ~listed /\ result' = "failed" /\ UNCHANGED toConfig
  /\ UNCHANGED <<driverVars, tool, cmd_reboot, fileVars, toBackup, boundVars>>

(***************************************************************************)
(* The manager.                                                            *)
(***************************************************************************)
(* After a reboot of its own it saves the device's configuration; what it  *)
(* saves stays in a buffer, and the file has been emptied.                 *)
backup_config ==
  /\ tool = "manager" /\ Quiet /\ tpc' = "restore"
  /\ cmd_reboot' \in BOOLEAN
  /\ IF flag /\ listed
     THEN toBackup' = TheConfig /\ backup' = NoBytes /\ flag' = FALSE
     ELSE UNCHANGED <<toBackup, backup, flag>>
  /\ UNCHANGED <<driverVars, tool, result, flagDisk, backupDisk, toConfig, boundVars>>

Restores == listed /\ backup # NoFile

(* With a device and a backup, what the file holds goes to the device.     *)
restore_config ==
  /\ tpc = "restore" /\ tpc' = IF cmd_reboot THEN "reboot" ELSE "exit"
  /\ toConfig' = IF Restores /\ backup # NoBytes THEN backup ELSE toConfig
  /\ result' = IF Restores THEN "ok" ELSE "failed"
  /\ UNCHANGED <<driverVars, tool, cmd_reboot, fileVars, toBackup, boundVars>>

\* mutant of set_rebooted
set_rebootedUnset ==
  /\ tpc = "reboot" /\ tpc' = "rebooting" /\ flag' = (flag \/ result = "failed")
  /\ UNCHANGED <<driverVars, tool, cmd_reboot, result, backup, flagDisk, backupDisk, outVars,
                 boundVars>>

(* Asked to, it reboots, whether or not there was a device.                *)
set_rebooted ==
  /\ tpc = "reboot" /\ tpc' = "rebooting" /\ flag' = TRUE
  /\ UNCHANGED <<driverVars, tool, cmd_reboot, result, backup, flagDisk, backupDisk, outVars,
                 boundVars>>

(* At its end a program's buffers are written.                             *)
Flush ==
  /\ tpc = "exit" /\ tpc' = "idle"
  /\ backup' = IF toBackup # Nothing THEN toBackup ELSE backup
  /\ bar' = IF toConfig.kind = "all" THEN toConfig.bar ELSE bar
  /\ command' = IF toConfig # Nothing THEN toConfig.command ELSE command
  /\ toBackup' = Nothing /\ toConfig' = Nothing
  /\ UNCHANGED <<up, configBuffer, kernelVars, moduleVars, stepVars, procVars, faults, tool,
                 cmd_reboot, result, flag, flagDisk, backupDisk, boundVars>>

(***************************************************************************)
(* The machine.                                                            *)
(***************************************************************************)
WriteBack ==
  /\ <<flagDisk, backupDisk>> # <<flag, backup>>
  /\ \/ flagDisk' = flag /\ UNCHANGED backupDisk
     \/ backupDisk' = backup /\ UNCHANGED flagDisk
  /\ UNCHANGED <<driverVars, toolVars, flag, backup, outVars, boundVars>>

(* reboot() does not wait for the disk, and a buffer dies with its program.*)
(* The firmware gives the device an address; its page table stays.         *)
Reboot ==
  /\ tpc = "rebooting" /\ reboots < MaxReboots
  /\ tpc' = "idle" /\ reboots' = reboots + 1 /\ cmd_reboot' = FALSE /\ result' = "none"
  /\ IF FilesSynced THEN flag' = flag /\ backup' = backup
     ELSE flag' = flagDisk /\ backup' = backupDisk
  /\ flagDisk' = flag' /\ backupDisk' = backup'
  /\ toBackup' = Nothing /\ toConfig' = Nothing
  /\ listed' = up /\ res' \in (IF up THEN Addrs ELSE {None}) /\ bar' = res' /\ command' = {}
  /\ enabled' = FALSE /\ regions' = FALSE /\ refs' = [p \in Pages |-> 0]
  /\ module' = "out" /\ bound' = FALSE /\ bar0_addr' = None /\ bar0_ptr' = FALSE
  /\ table' = "null" /\ dma_pages' = Empty /\ dma_pages_count' = 0 /\ chrdev' = FALSE
  /\ step' = "idle" /\ bufidx' = 0 /\ after' = "idle"
  /\ open' = {} /\ vmas' = [q \in Procs |-> None]
  /\ UNCHANGED <<up, configBuffer, faults, tool, programs, loads>>

(* Programming the FPGA makes it forget its registers and its page table.  *)
(* The manager leaves the driver alone, so it has to be unloaded first.    *)
Program ==
  /\ programs < MaxPrograms /\ programs' = programs + 1
  /\ Quiet /\ (tool = "manager" => module = "out")
  /\ RunFirst => ~(flag /\ listed)
  /\ up' = TRUE /\ bar' = None /\ command' = {} /\ configBuffer' = Empty
  /\ UNCHANGED <<kernelVars, moduleVars, stepVars, procVars, faults, toolVars, fileVars, outVars,
                 reboots, loads>>

(* By hand, or by udev as soon as the device is there.  With the manager   *)
(* the driver is loaded once the device answers.                           *)
Load ==
  /\ loads < MaxLoads /\ loads' = loads + 1
  /\ tpc = "idle" \/ (tool = "bsrescan" /\ tpc \in {"config", "exit"})
  /\ (tool = "manager" => bar = res)
  /\ pcie_init
  /\ UNCHANGED <<toolVars, fileVars, outVars, programs, reboots>>

Unload ==
  /\ tpc = "idle" /\ pcie_exit
  /\ UNCHANGED <<toolVars, fileVars, outVars, boundVars>>

-----------------------------------------------------------------------------
ToolStep == \/ unload_driver \/ remove \/ unlist \/ rescan \/ config
            \/ restore_config \/ set_rebooted \/ Flush

DriverOnly == (DriverStep \/ ProcessStep) /\ UNCHANGED <<toolVars, fileVars, outVars, boundVars>>

Next == \/ DriverOnly \/ find_pcie_device \/ backup_config \/ ToolStep
        \/ WriteBack \/ Reboot \/ Program \/ Load \/ Unload

Spec == Init /\ [][Next]_vars

-----------------------------------------------------------------------------
(* Once bsrescan has ended with success the device answers at the address  *)
(* the kernel has for it, until it is programmed again.                    *)
Rescanned ==
  tool = "bsrescan" /\ result = "ok" /\ tpc = "idle" /\ bar # None => listed /\ Answers

(* What the manager writes to the device puts it where this boot's kernel  *)
(* looks for it: the backup is of the last reboot, and was whole.          *)
RestoresCurrent ==
  [][tpc = "exit" /\ tpc' = "idle" /\ toConfig.kind = "all" => bar' = res']_vars
=============================================================================
