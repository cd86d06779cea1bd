------------------------------ MODULE PcieMmio ------------------------------
(***************************************************************************)
(* Memory-mapped I/O between the host library (cpp/bdbmpcie.cpp) and the   *)
(* FPGA (src/PcieCtrl.bsv), with its credit-based flow control.            *)
(*                                                                         *)
(* The host counts what it sent (io_wreq, io_rreq) and what it may still   *)
(* send without asking (io_wbudget, io_rbudget); the FPGA counts what the  *)
(* user logic took out of the queues (userWriteEmit, userReadEmit).  When  *)
(* a budget is used up the host loads the matching counter through the     *)
(* very queues the credit is meant to keep flowing.                        *)
(*                                                                         *)
(* What a word carries is left out: no decision here depends on it.        *)
(***************************************************************************)
EXTENDS Naturals, Sequences, FiniteSets

CONSTANTS
  Threads,        \* host threads sharing the BdbmPcie singleton
  NoThread,       \* value of a lock nobody holds
  IO_QUEUE_SIZE,  \* entries of userWriteQ and userReadQ1 (512)
  WordMod,        \* 2^32: width of io_wreq and userWriteEmit
  ReadMod,        \* 2^16: width the host keeps of io_rreq and userReadEmit
  TlpCap,         \* tlpQ and the link in front of it
  FifoCap,        \* entries of an mkFIFO (2)
  IoReadCap,      \* entries of ioReadQ (8)
  WriteKinds,     \* address ranges the software writes: "user", "config"
  ReadKinds,      \* address ranges it reads: "user", "config", "fixed"
  MaxRestarts     \* bound: how often the host process is restarted

ASSUME ConstAssumption ==
  /\ NoThread \notin Threads
  /\ IO_QUEUE_SIZE \in Nat /\ IO_QUEUE_SIZE >= 2
  /\ WordMod \in Nat /\ WordMod > IO_QUEUE_SIZE + 1
  /\ ReadMod \in Nat /\ ReadMod > IO_QUEUE_SIZE + 1
  /\ TlpCap \in Nat \ {0} /\ FifoCap \in Nat \ {0} /\ IoReadCap \in Nat \ {0}
  /\ WriteKinds \subseteq {"user", "config"}
  /\ ReadKinds \subseteq {"user", "config", "fixed"}
  /\ MaxRestarts \in Nat

VARIABLES
  \* the host process
  pc,            \* where each thread is in writeWord or readWord
  addr,          \* the address range of the call it is executing
  emit,          \* io_wemit or io_remit, the value of its last counter load
  iob,           \* the local iob of readWord
  writeLock, readLock,
  io_wreq, io_wbudget, io_rreq, io_rbudget,
  restarts,
  \* the FPGA
  tlpQ, tlp2Q, tlp3Q,
  ioReadQ,
  userWrite1Q, userWriteQ, userWrite2Q,     \* lengths: entries are alike
  userReadQ0, userReadQ1, userReadQ2,       \* the threads that wait for them
  userWriteEmit, userReadEmit,
  userBusy,      \* reads the user logic took and has not answered
  cpl            \* read completions on their way to the host

hostVars  == <<pc, addr, emit, iob, writeLock, readLock,
               io_wreq, io_wbudget, io_rreq, io_rbudget, restarts>>
tlpVars   == <<tlpQ, tlp2Q, tlp3Q, ioReadQ>>
writeVars == <<userWrite1Q, userWriteQ, userWrite2Q, userWriteEmit>>
readVars  == <<userReadQ0, userReadQ1, userReadQ2, userReadEmit, userBusy>>
vars      == <<hostVars, tlpVars, writeVars, readVars, cpl>>

-----------------------------------------------------------------------------
(* Unsigned arithmetic modulo m on numbers below m.                        *)
PlusNoWrap(a, b, m) == a + b                                  \* mutant of Plus
Plus(a, b, m)  == IF a + b >= m THEN (a + b) - m ELSE a + b
Minus(a, b, m) == IF a >= b THEN a - b ELSE (a + m) - b

(* TLPs from the host.  A store carries no thread, a load the thread whose *)
(* CPU is stalled on it.                                                   *)
Stores == {"init", "configWrite", "userWrite"}
DataLoads == {"configRead", "fixedRead", "userRead"}
Loads  == DataLoads \cup {"wemit", "remit"}
Store(kind)   == [kind |-> kind, thr |-> NoThread]
Load(kind, t) == [kind |-> kind, thr |-> t]
Tlp == [kind : Stores, thr : {NoThread}] \cup [kind : Loads, thr : Threads]

WriteTlp(a) == Store(IF a = "user" THEN "userWrite" ELSE "configWrite")
ReadTlp(a, t) ==
  Load(CASE a = "user"   -> "userRead"
         [] a = "config" -> "configRead"
         [] a = "fixed"  -> "fixedRead", t)

(* A call returns; its locals are gone.                                    *)
Return(t) ==
  /\ pc' = [pc EXCEPT ![t] = "idle"]
  /\ addr' = [addr EXCEPT ![t] = "user"]
  /\ emit' = [emit EXCEPT ![t] = 0]

(* The CPU pushes a TLP into the link; it stalls while the link is full.   *)
Send(tlp) == Len(tlpQ) < TlpCap /\ tlpQ' = Append(tlpQ, tlp)

(* A completion carries the tag of the load it answers.                    *)
Answer(kind, t, v) == cpl' = cpl \cup {[kind |-> kind, thr |-> t, val |-> v]}

(* The process has been started and its reset write has taken effect.      *)
Init ==
  /\ pc        = [t \in Threads |-> "idle"]
  /\ addr      = [t \in Threads |-> "user"]
  /\ emit      = [t \in Threads |-> 0]
  /\ iob       = [t \in Threads |-> 0]
  /\ writeLock = NoThread /\ readLock = NoThread
  /\ io_wreq = 0 /\ io_wbudget = 0 /\ io_rreq = 0 /\ io_rbudget = 0
  /\ restarts  = 0
  /\ tlpQ = <<>> /\ tlp2Q = <<>> /\ tlp3Q = <<>> /\ ioReadQ = <<>>
  /\ userWrite1Q = 0 /\ userWriteQ = 0 /\ userWrite2Q = 0 /\ userWriteEmit = 0
  /\ userReadQ0 = <<>> /\ userReadQ1 = <<>> /\ userReadQ2 = <<>>
  /\ userReadEmit = 0
  /\ userBusy = {} /\ cpl = {}

-----------------------------------------------------------------------------
(***************************************************************************)
(* writeWord.  The fast path runs under write_lock from end to end and is  *)
(* one step; the slow path keeps the lock over the loads of the counter.   *)
(***************************************************************************)
OutstandingForgotten(t) == 0                           \* mutant of Outstanding
Outstanding(t) == Minus(io_wreq, emit[t], WordMod)

WriteBudgeted(t, a) ==
  /\ pc[t] = "idle" /\ writeLock = NoThread
  /\ io_wbudget > 0
  /\ io_wbudget' = io_wbudget - 1
  /\ Send(WriteTlp(a))
  /\ UNCHANGED <<pc, addr, emit, iob, writeLock, readLock, io_wreq, io_rreq,
                 io_rbudget, restarts, tlp2Q, tlp3Q, ioReadQ, writeVars, readVars, cpl>>

WriteLoadEmit(t, a) ==
  /\ pc[t] = "idle" /\ writeLock = NoThread
  /\ io_wbudget = 0
  /\ writeLock' = t
  /\ addr' = [addr EXCEPT ![t] = a]
  /\ pc' = [pc EXCEPT ![t] = "wLoad"]
  /\ Send(Load("wemit", t))
  /\ UNCHANGED <<emit, iob, readLock, io_wreq, io_wbudget, io_rreq, io_rbudget,
                 restarts, tlp2Q, tlp3Q, ioReadQ, writeVars, readVars, cpl>>

WriteRetry(t) ==
  /\ pc[t] = "wTest"
  /\ Outstanding(t) >= IO_QUEUE_SIZE \div 2
  /\ pc' = [pc EXCEPT ![t] = "wLoad"]
  /\ Send(Load("wemit", t))
  /\ UNCHANGED <<addr, emit, iob, writeLock, readLock, io_wreq, io_wbudget,
                 io_rreq, io_rbudget, restarts, tlp2Q, tlp3Q, ioReadQ,
                 writeVars, readVars, cpl>>

(* The budget, and the write that is sent at once.                         *)
ChargeBudgetOnly(t) == IO_QUEUE_SIZE - Outstanding(t)       \* mutant of Charge
Charge(t) == (IO_QUEUE_SIZE - Outstanding(t)) + 1

WriteRefill(t) ==
  /\ pc[t] = "wTest"
  /\ Outstanding(t) < IO_QUEUE_SIZE \div 2
  /\ io_wbudget' = IO_QUEUE_SIZE - Outstanding(t)
  /\ io_wreq' = Plus(io_wreq, Charge(t), WordMod)
  /\ Send(WriteTlp(addr[t]))
  /\ Return(t)
  /\ writeLock' = NoThread
  /\ UNCHANGED <<iob, readLock, io_rreq, io_rbudget, restarts,
                 tlp2Q, tlp3Q, ioReadQ, writeVars, readVars, cpl>>

-----------------------------------------------------------------------------
(***************************************************************************)
(* readWord.  read_lock is held until the load of the word itself returns. *)
(***************************************************************************)
IssueRead(t, a) ==
  /\ Send(ReadTlp(a, t))
  /\ io_rreq' = Plus(io_rreq, 1, ReadMod)
  /\ pc' = [pc EXCEPT ![t] = "rData"]

ReadBudgeted(t, a) ==
  /\ pc[t] = "idle" /\ readLock = NoThread
  /\ io_rbudget > 0
  /\ io_rbudget' = io_rbudget - 1
  /\ readLock' = t
  /\ addr' = [addr EXCEPT ![t] = a]
  /\ IssueRead(t, a)
  /\ UNCHANGED <<emit, iob, writeLock, io_wreq, io_wbudget, restarts,
                 tlp2Q, tlp3Q, ioReadQ, writeVars, readVars, cpl>>

ReadLoadEmit(t, a) ==
  /\ pc[t] = "idle" /\ readLock = NoThread
  /\ io_rbudget = 0
  /\ readLock' = t
  /\ addr' = [addr EXCEPT ![t] = a]
  /\ pc' = [pc EXCEPT ![t] = "rLoad"]
  /\ Send(Load("remit", t))
  /\ UNCHANGED <<emit, iob, writeLock, io_wreq, io_wbudget, io_rreq, io_rbudget,
                 restarts, tlp2Q, tlp3Q, ioReadQ, writeVars, readVars, cpl>>

ReadRetry(t) ==
  /\ pc[t] = "rTest"
  /\ iob[t] >= emit[t] + IO_QUEUE_SIZE
  /\ pc' = [pc EXCEPT ![t] = "rReload"]
  /\ Send(Load("remit", t))
  /\ UNCHANGED <<addr, emit, iob, writeLock, readLock, io_wreq, io_wbudget,
                 io_rreq, io_rbudget, restarts, tlp2Q, tlp3Q, ioReadQ,
                 writeVars, readVars, cpl>>

ReadRefill(t) ==
  /\ pc[t] = "rTest"
  /\ iob[t] < emit[t] + IO_QUEUE_SIZE
  /\ io_rbudget' = (emit[t] + IO_QUEUE_SIZE) - iob[t]
  /\ iob' = [iob EXCEPT ![t] = 0] /\ emit' = [emit EXCEPT ![t] = 0]
  /\ IssueRead(t, addr[t])
  /\ UNCHANGED <<addr, writeLock, readLock, io_wreq, io_wbudget,
                 restarts, tlp2Q, tlp3Q, ioReadQ, writeVars, readVars, cpl>>

-----------------------------------------------------------------------------
(***************************************************************************)
(* A load returns to the CPU that issued it.  iob is adjusted for the      *)
(* 16-bit wrap after the first load of a call only, not in the loop.       *)
(***************************************************************************)
NotWidened(remit) == io_rreq                               \* mutant of Widened
Widened(remit) == IF remit > io_rreq THEN io_rreq + ReadMod ELSE io_rreq

LoadReturns(t) ==
  \E c \in cpl :
    /\ c.thr = t
    /\ cpl' = cpl \ {c}
    /\ \/ /\ pc[t] = "wLoad" /\ c.kind = "wemit"
          /\ emit' = [emit EXCEPT ![t] = c.val]
          /\ pc' = [pc EXCEPT ![t] = "wTest"]
          /\ UNCHANGED <<addr, iob, readLock>>
       \/ /\ pc[t] = "rLoad" /\ c.kind = "remit"
          /\ emit' = [emit EXCEPT ![t] = c.val]
          /\ iob' = [iob EXCEPT ![t] = Widened(c.val)]
          /\ pc' = [pc EXCEPT ![t] = "rTest"]
          /\ UNCHANGED <<addr, readLock>>
       \/ /\ pc[t] = "rReload" /\ c.kind = "remit"
          /\ emit' = [emit EXCEPT ![t] = c.val]
          /\ pc' = [pc EXCEPT ![t] = "rTest"]
          /\ UNCHANGED <<addr, iob, readLock>>
       \/ /\ pc[t] = "rData" /\ c.kind \in DataLoads
          /\ readLock' = NoThread
          /\ Return(t)
          /\ UNCHANGED iob
    /\ UNCHANGED <<writeLock, io_wreq, io_wbudget, io_rreq, io_rbudget,
                   restarts, tlpVars, writeVars, readVars>>

(* The process is killed between two loads and started again: Init_Pcie.   *)
Restart ==
  /\ restarts < MaxRestarts
  /\ \A t \in Threads : pc[t] \in {"idle", "wTest", "rTest"}
  /\ restarts' = restarts + 1
  /\ Send(Store("init"))
  /\ pc' = [t \in Threads |-> "idle"]
  /\ addr' = [t \in Threads |-> "user"]
  /\ emit' = [t \in Threads |-> 0] /\ iob' = [t \in Threads |-> 0]
  /\ writeLock' = NoThread /\ readLock' = NoThread
  /\ io_wreq' = 0 /\ io_wbudget' = 0 /\ io_rreq' = 0 /\ io_rbudget' = 0
  /\ UNCHANGED <<tlp2Q, tlp3Q, ioReadQ, writeVars, readVars, cpl>>

-----------------------------------------------------------------------------
(***************************************************************************)
(* The rules of PcieCtrl.  Rules are compiled with -aggressive-conditions: *)
(* a full queue blocks a rule only when this TLP goes into it.             *)
(***************************************************************************)
filterStatReadTLP ==
  /\ tlpQ # <<>>
  /\ tlpQ' = Tail(tlpQ)
  /\ LET h == Head(tlpQ) IN
       \/ /\ h.kind = "wemit"
          /\ Answer(h.kind, h.thr, userWriteEmit)
          /\ UNCHANGED tlp2Q
       \/ /\ h.kind = "remit"
          /\ Answer(h.kind, h.thr, userReadEmit)
          /\ UNCHANGED tlp2Q
       \/ /\ h.kind = "fixedRead"      \* magic number and debugCode
          /\ Answer(h.kind, h.thr, 0)
          /\ UNCHANGED tlp2Q
       \/ /\ h.kind \notin {"wemit", "remit", "fixedRead"}
          /\ Len(tlp2Q) < FifoCap
          /\ tlp2Q' = Append(tlp2Q, h)
          /\ UNCHANGED cpl
  /\ UNCHANGED <<hostVars, tlp3Q, ioReadQ, writeVars, readVars>>

procTLP ==
  /\ tlp2Q # <<>>
  /\ tlp2Q' = Tail(tlp2Q)
  /\ LET h == Head(tlp2Q) IN
       \/ /\ h.kind = "configRead"
          /\ Len(ioReadQ) < IoReadCap
          /\ ioReadQ' = Append(ioReadQ, h.thr)
          /\ UNCHANGED <<userReadQ0, tlp3Q>>
       \/ /\ h.kind = "userRead"
          /\ Len(userReadQ0) < FifoCap
          /\ userReadQ0' = Append(userReadQ0, h.thr)
          /\ UNCHANGED <<ioReadQ, tlp3Q>>
       \/ /\ h.kind \in Stores
          /\ Len(tlp3Q) < FifoCap
          /\ tlp3Q' = Append(tlp3Q, h)
          /\ UNCHANGED <<ioReadQ, userReadQ0>>
  /\ UNCHANGED <<hostVars, tlpQ, writeVars, userReadQ1, userReadQ2, userReadEmit,
                 userBusy, cpl>>

completeIORead ==
  /\ ioReadQ # <<>>
  /\ ioReadQ' = Tail(ioReadQ)
  /\ Answer("configRead", Head(ioReadQ), 0)
  /\ UNCHANGED <<hostVars, tlpQ, tlp2Q, tlp3Q, writeVars, readVars>>

procIOWrite ==
  /\ tlp3Q # <<>>
  /\ tlp3Q' = Tail(tlp3Q)
  /\ LET h == Head(tlp3Q) IN
       \/ /\ h.kind = "init"
          /\ userWriteEmit' = 0 /\ userReadEmit' = 0
          /\ UNCHANGED userWrite1Q
       \/ /\ h.kind = "configWrite"
          /\ UNCHANGED <<userWriteEmit, userReadEmit, userWrite1Q>>
       \/ /\ h.kind = "userWrite"
          /\ userWrite1Q < FifoCap
          /\ userWrite1Q' = userWrite1Q + 1
          /\ UNCHANGED <<userWriteEmit, userReadEmit>>
  /\ UNCHANGED <<hostVars, tlpQ, tlp2Q, ioReadQ, userWriteQ, userWrite2Q,
                 userReadQ0, userReadQ1, userReadQ2, userBusy, cpl>>

relayUserWriteQ ==
  /\ userWrite1Q > 0 /\ userWriteQ < IO_QUEUE_SIZE
  /\ userWrite1Q' = userWrite1Q - 1
  /\ userWriteQ' = userWriteQ + 1
  /\ UNCHANGED <<hostVars, tlpVars, userWrite2Q, userWriteEmit, readVars, cpl>>

relayUserWrite2Q ==
  /\ userWriteQ > 0 /\ userWrite2Q < FifoCap
  /\ userWriteQ' = userWriteQ - 1
  /\ userWrite2Q' = userWrite2Q + 1
  /\ UNCHANGED <<hostVars, tlpVars, userWrite1Q, userWriteEmit, readVars, cpl>>

relayUserReadQ0 ==
  /\ userReadQ0 # <<>> /\ Len(userReadQ1) < IO_QUEUE_SIZE
  /\ userReadQ0' = Tail(userReadQ0)
  /\ userReadQ1' = Append(userReadQ1, Head(userReadQ0))
  /\ UNCHANGED <<hostVars, tlpVars, writeVars, userReadQ2, userReadEmit, userBusy, cpl>>

relayUserReadQ1 ==
  /\ userReadQ1 # <<>> /\ Len(userReadQ2) < FifoCap
  /\ userReadQ1' = Tail(userReadQ1)
  /\ userReadQ2' = Append(userReadQ2, Head(userReadQ1))
  /\ UNCHANGED <<hostVars, tlpVars, writeVars, userReadQ0, userReadEmit, userBusy, cpl>>

(* Methods the user logic calls.                                           *)
dataReceive ==
  /\ userWrite2Q > 0
  /\ userWrite2Q' = userWrite2Q - 1
  /\ userWriteEmit' = Plus(userWriteEmit, 1, WordMod)
  /\ UNCHANGED <<hostVars, tlpVars, userWrite1Q, userWriteQ, readVars, cpl>>

dataReqNotCounted ==                                       \* mutant of dataReq
  /\ userReadQ2 # <<>>
  /\ userReadQ2' = Tail(userReadQ2)
  /\ userBusy' = userBusy \cup {Head(userReadQ2)}
  /\ UNCHANGED <<hostVars, tlpVars, writeVars, userReadQ0, userReadQ1,
                 userReadEmit, cpl>>

dataReq ==
  /\ userReadQ2 # <<>>
  /\ userReadQ2' = Tail(userReadQ2)
  /\ userReadEmit' = Plus(userReadEmit, 1, ReadMod)
  /\ userBusy' = userBusy \cup {Head(userReadQ2)}
  /\ UNCHANGED <<hostVars, tlpVars, writeVars, userReadQ0, userReadQ1, cpl>>

dataSend ==
  \E t \in userBusy :
    /\ userBusy' = userBusy \ {t}
    /\ Answer("userRead", t, 0)
    /\ UNCHANGED <<hostVars, tlpVars, writeVars, userReadQ0, userReadQ1, userReadQ2,
                   userReadEmit>>

-----------------------------------------------------------------------------
StartCall(t) ==
  \/ \E a \in WriteKinds : WriteBudgeted(t, a) \/ WriteLoadEmit(t, a)
  \/ \E a \in ReadKinds : ReadBudgeted(t, a) \/ ReadLoadEmit(t, a)

Continue(t) ==
  WriteRetry(t) \/ WriteRefill(t) \/ ReadRetry(t) \/ ReadRefill(t) \/ LoadReturns(t)

Hardware ==
  \/ filterStatReadTLP \/ procTLP \/ completeIORead \/ procIOWrite
  \/ relayUserWriteQ \/ relayUserWrite2Q \/ relayUserReadQ0 \/ relayUserReadQ1

UserLogic == dataReceive \/ dataReq \/ dataSend

Next ==
  \/ \E t \in Threads : StartCall(t) \/ Continue(t)
  \/ Restart
  \/ Hardware
  \/ UserLogic

Spec == Init /\ [][Next]_vars

(* A rule that stays able to fire fires; cores that stall on a full link   *)
(* are arbitrated fairly, so a call in progress does not stall for ever    *)
(* when the link has room again and again.  Threads need not start a call. *)
HardwareFairness ==
  /\ WF_vars(filterStatReadTLP) /\ WF_vars(procTLP)
  /\ WF_vars(completeIORead) /\ WF_vars(procIOWrite)
  /\ WF_vars(relayUserWriteQ) /\ WF_vars(relayUserWrite2Q)
  /\ WF_vars(relayUserReadQ0) /\ WF_vars(relayUserReadQ1)
HostFairness == \A t \in Threads : SF_vars(Continue(t))
UserFairness == WF_vars(dataReceive) /\ WF_vars(dataReq) /\ WF_vars(dataSend)

LazyUserSpec == Spec /\ HardwareFairness /\ HostFairness
FairSpec     == LazyUserSpec /\ UserFairness

-----------------------------------------------------------------------------
(* Every variable has the values its register, queue or local can hold.    *)
Completion == [kind : Loads, thr : Threads, val : Nat]
HostTypeOK ==
  /\ pc \in [Threads -> {"idle", "wLoad", "wTest", "rLoad", "rReload", "rTest", "rData"}]
  /\ addr \in [Threads -> {"user", "config", "fixed"}]
  /\ emit \in [Threads -> Nat] /\ iob \in [Threads -> Nat]
  /\ writeLock \in Threads \cup {NoThread} /\ readLock \in Threads \cup {NoThread}
  /\ io_wreq \in 0 .. WordMod - 1 /\ io_wbudget \in 0 .. IO_QUEUE_SIZE
  /\ io_rreq \in 0 .. ReadMod - 1 /\ io_rbudget \in Nat
  /\ restarts \in 0 .. MaxRestarts
TlpTypeOK ==
  /\ tlpQ \in Seq(Tlp) /\ tlp2Q \in Seq(Tlp) /\ tlp3Q \in Seq(Tlp)
  /\ ioReadQ \in Seq(Threads)
WriteTypeOK ==
  /\ userWrite1Q \in 0 .. FifoCap /\ userWriteQ \in 0 .. IO_QUEUE_SIZE
  /\ userWrite2Q \in 0 .. FifoCap
  /\ userWriteEmit \in 0 .. WordMod - 1
ReadTypeOK ==
  /\ userReadQ0 \in Seq(Threads) /\ userReadQ1 \in Seq(Threads)
  /\ userReadQ2 \in Seq(Threads)
  /\ userReadEmit \in 0 .. ReadMod - 1
  /\ userBusy \in SUBSET Threads
TypeOK ==
  HostTypeOK /\ TlpTypeOK /\ WriteTypeOK /\ ReadTypeOK /\ cpl \in SUBSET Completion

(* User writes the host sent and the user logic has not taken.             *)
UserWritesIn(s) == Cardinality({i \in 1 .. Len(s) : s[i].kind = "userWrite"})
UserWritesQueued == userWrite1Q + userWriteQ + userWrite2Q
UserWritesInFlight ==
  UserWritesIn(tlpQ) + UserWritesIn(tlp2Q) + UserWritesIn(tlp3Q) + UserWritesQueued

(* The host's count of writes covers everything in flight and everything   *)
(* it may still send without asking, across any number of wraps of the     *)
(* 32-bit counters, whichever threads write and however old the counter    *)
(* value is that writeWord refilled its budget from.  One call over the    *)
(* queue size is granted: the write that refills is not charged.           *)
CreditsCover ==
  LET granted == Minus(io_wreq, userWriteEmit, WordMod) IN
    /\ UserWritesInFlight + io_wbudget <= granted
    /\ granted <= IO_QUEUE_SIZE + 1

(* userWrite1Q, userWriteQ and userWrite2Q together take every user write  *)
(* in flight, so procIOWrite never waits for the user logic and no TLP     *)
(* behind a user write does.                                               *)
UserWritesFit == UserWritesInFlight <= IO_QUEUE_SIZE + 2 * FifoCap

(* Each start of the host process grants its own allowance while the words *)
(* of the process before it may still be queued, so after a restart the    *)
(* queues may have to hold twice as much, and never more: what restarts    *)
(* add is bounded even when the counters are read before they are reset.   *)
RestartBacklog == UserWritesInFlight <= (restarts + 1) * (IO_QUEUE_SIZE + 1)

(* The same for readWord, whose counters wrap at 16 bits, in the process   *)
(* that starts with an idle FPGA.                                          *)
ReadCreditsCover ==
  restarts = 0 =>
    io_rbudget + Minus(io_rreq, userReadEmit, ReadMod) <= IO_QUEUE_SIZE + 1

(* A CPU stalled on a counter or configuration load gets its value, even   *)
(* if the user logic never takes a word: those loads share tlpQ, tlp2Q     *)
(* and tlp3Q with the user writes but never wait behind a full user queue. *)
AwaitsHardware(t) ==
  \/ pc[t] \in {"wLoad", "rLoad", "rReload"}
  \/ pc[t] = "rData" /\ addr[t] # "user"
LoadsAnswered == \A t \in Threads : AwaitsHardware(t) ~> ~AwaitsHardware(t)

(* Every call of writeWord and readWord returns if the user logic keeps    *)
(* taking words and answering reads.                                       *)
CallsReturn == \A t \in Threads : pc[t] # "idle" ~> pc[t] = "idle"
=============================================================================
