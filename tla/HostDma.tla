------------------------------- MODULE HostDma -------------------------------
(***************************************************************************)
(* Copies between a program and the DRAM of the FPGA: cpp/DRAMHostDMA.cpp  *)
(* and dram/src/DRAMHostDMA.bsv.  The program cuts a copy into chunks of   *)
(* half the DMA buffer, uses the halves in turn, and polls a count of      *)
(* finished chunks; the FPGA takes one command at a time.                  *)
(*                                                                         *)
(* The unit of data is the cell, the 128 bytes of one DMA request; a page  *)
(* (m_fpga_alignment) has PageCells of them.  PcieCtrl is seen as its      *)
(* users see it: reads of host memory are answered in order, each cell     *)
(* with what host memory held at some moment before (see OrderedRead), and *)
(* writes and answers to loads share one ordered link.  Two queues with a  *)
(* relay rule between them are one queue.                                  *)
(***************************************************************************)
EXTENDS Integers, Sequences, FiniteSets

CONSTANTS
  Threads, None,
  Data, Pad, Junk,   \* cells of callers; 0xff; what memory held before
  PageCells,         \* cells in a page (32)
  HalfPages,         \* pages in half the DMA buffer (128)
  FpgaPages,         \* pages of DRAM the calls use
  Calls,             \* [op, at, len, data]: at and len in cells, data as many
  MaxCalls,          \* bound: calls made
  MaxRestarts,       \* bound: restarts of the process
  RestartUnderWay,   \* whether a restart may leave commands under way
  ReadTags,          \* tags of sendDMARead (16)
  CmdCap,            \* entries of dmaCmdQ (2)
  DramCap            \* cells read from DRAM ahead of the link (64)

HalfCells == HalfPages * PageCells
BufCells  == 0 .. 2 * HalfCells - 1
Cells     == Data \cup {Pad, Junk}

ASSUME HostDmaAssumption ==
  /\ PageCells \in Nat \ {0} /\ HalfPages \in Nat \ {0} /\ FpgaPages \in Nat \ {0}
  /\ None \notin Threads
  /\ Calls \subseteq [op : {"to", "from"}, at : Nat, len : Nat, data : Seq(Data)]
  /\ MaxCalls \in Nat /\ MaxRestarts \in Nat /\ RestartUnderWay \in BOOLEAN
  /\ CmdCap \in Nat \ {0} /\ DramCap \in Nat \ {0}
  /\ None \notin Cells
  /\ \A c \in Calls : c.op = "to" => Len(c.data) = c.len

VARIABLES
  mutex, pc, call,            \* call[t]: the locals of the copy t is in
  user,                       \* user[t]: the memory t gave to its last call
  result,                     \* what the last finished copy of t has read
  inst, wTotal, rTotal,       \* the instance; m_write_done_total, m_read_done_total
  dmabuf,                     \* the DMA buffer of the driver
  down, up,                   \* words to the FPGA; writes and answers from it
  hostMemTemp, fpgaMemTemp, dmaCmdQ, hostMemOff, memReadLeft, memWriteLeft,
  freeTags, dmaReadTagOrderQ, \* tags of sendDMARead
  reads, vDmaReadWords,       \* requests under way; answers put by tag
  dmaReadWordCntQ, dramWrite, \* bursts to DRAM; the one under way
  dramReadWordCntQ, dramRead, dramReadWordQ, pcieWriteReqQ,
  writeDoneCount, readDoneCount,   \* commands done, by direction
  mem,                        \* DRAM
  made, restarts,             \* calls made, restarts
  issued,                     \* commands sent since power-up, by direction
  before                      \* mem when the mutex was last taken

hostVars == <<mutex, pc, call, user, result, inst, wTotal, rTotal, made, restarts,
              issued, before>>
linkVars == <<down, up>>
cmdVars  == <<hostMemTemp, fpgaMemTemp, dmaCmdQ, hostMemOff, memReadLeft, memWriteLeft>>
toVars   == <<freeTags, dmaReadTagOrderQ, reads, vDmaReadWords, dmaReadWordCntQ, dramWrite>>
fromVars == <<dramReadWordCntQ, dramRead, dramReadWordQ, pcieWriteReqQ>>
doneVars == <<writeDoneCount, readDoneCount>>
vars == <<hostVars, linkVars, cmdVars, toVars, fromVars, doneVars, dmabuf, mem>>

-----------------------------------------------------------------------------
Least(a, b) == IF a <= b THEN a ELSE b
Ceil(a, b)  == (a + b - 1) \div b

FirstPage(at) == at \div PageCells            \* offset, rounded down to a page
Pages(len) == Ceil(len, PageCells)            \* bytes, rounded up to pages
Chunks(p)  == Ceil(p, HalfPages)              \* writes_cnt and reads_cnt
HalfPageSame(i) == 0                          \* a mutant of HalfPage
HalfPage(i) == (i % 2) * HalfPages            \* hostpageoff of chunk i
HostCellOneOn(p) == (p + 1) * PageCells      \* a mutant of HostCell
HostCell(p) == p * PageCells                  \* hostpage<<12
Half(i) == HalfPage(i) * PageCells            \* bufoff

ASSUME CallsAssumption == \A c \in Calls : FirstPage(c.at) + Pages(c.len) <= FpgaPages

NoCall == [op |-> "none", at |-> 0, len |-> 0, data |-> <<>>]

(* req is what was asked for, at and left the pages still to copy.  done   *)
(* counts the caller's cells copied so far (host_offset): src_bytes and    *)
(* dst_bytes are req.len - done until the last chunk, after which nothing  *)
(* reads them.  last is lastbyte, in pages; seen the count last loaded.    *)
Locals(c) ==
  [req |-> c, at |-> FirstPage(c.at), left |-> Pages(c.len), i |-> 0, n |-> Chunks(Pages(c.len)),
   done |-> 0, last |-> 0, seen |-> 0]

Idle == Locals(NoCall)

Cur(c) == Least(HalfPages, c.left)            \* curbyte, in pages

LoopHead(c) == IF c.i < c.n THEN "chunk" ELSE "poll"

(* One of the two counts, and how far a wait in chunk i must see it.       *)
ToFpga(t) == inst = "write" \/ (inst = "ready" /\ call[t].req.op = "to")
Count(t)  == IF ToFpga(t) THEN writeDoneCount ELSE readDoneCount
Total(t)  == IF call[t].req.op = "to" THEN wTotal ELSE rTotal
AwaitedLess(i) == IF i = 0 THEN 0 ELSE i - 1  \* mutants of Awaited
AwaitedMore(i) == i + 1
Awaited(i) == i
Target(t) == Total(t) + Awaited(call[t].i)

(* memcpy into the half: the caller's cells, then 0xff up to the page.     *)
Filled(c) ==
  [k \in BufCells |->
     IF k \notin Half(c.i) .. Half(c.i) + Cur(c) * PageCells - 1 THEN dmabuf[k]
     ELSE IF c.done + (k - Half(c.i)) < c.req.len THEN c.req.data[c.done + (k - Half(c.i)) + 1]
     ELSE Pad]

(* memcpy of n cells out of the half, and pad cells of 0xff behind them.   *)
Drained(u, from, half, n, pad) ==
  [k \in DOMAIN u |->
     IF k \in from .. from + n - 1 THEN dmabuf[half + (k - from)]
     ELSE IF k \in from + n .. from + n + pad - 1 THEN Pad
     ELSE u[k]]

-----------------------------------------------------------------------------
Init ==
  /\ mutex = None /\ pc = [t \in Threads |-> "idle"] /\ call = [t \in Threads |-> Idle]
  /\ user = [t \in Threads |-> <<>>] /\ result = [t \in Threads |-> <<>>]
  /\ inst = "none" /\ wTotal = 0 /\ rTotal = 0
  /\ dmabuf = [k \in BufCells |-> Junk]
  /\ down = <<>> /\ up = <<>>
  /\ hostMemTemp = 0 /\ fpgaMemTemp = 0 /\ dmaCmdQ = <<>> /\ hostMemOff = 0
  /\ memReadLeft = 0 /\ memWriteLeft = 0
  /\ freeTags = ReadTags /\ dmaReadTagOrderQ = <<>> /\ reads = <<>>
  /\ vDmaReadWords = [g \in ReadTags |-> <<>>]
  /\ dmaReadWordCntQ = <<>> /\ dramWrite = [at |-> 0, left |-> 0]
  /\ dramReadWordCntQ = <<>> /\ dramRead = [at |-> 0, left |-> 0]
  /\ dramReadWordQ = <<>> /\ pcieWriteReqQ = <<>>
  /\ writeDoneCount = 0 /\ readDoneCount = 0
  /\ mem = [k \in 0 .. FpgaPages * PageCells - 1 |-> Junk]
  /\ made = 0 /\ restarts = 0 /\ issued = [to |-> 0, from |-> 0]
  /\ before = mem

(***************************************************************************)
(* The program.                                                            *)
(***************************************************************************)
(* GetInstance by the first thread, before there is another one: the       *)
(* constructor loads the two counts.                                       *)
Construct(t) ==
  /\ inst = "none" /\ \A s \in Threads : pc[s] = "idle"
  /\ inst' = "write" /\ pc' = [pc EXCEPT ![t] = "poll"]
  /\ UNCHANGED <<mutex, call, user, result, wTotal, rTotal, made, restarts, issued, before,
                 linkVars, cmdVars, toVars, fromVars, doneVars, dmabuf, mem>>

Enter(t, c) ==
  /\ inst = "ready" /\ pc[t] = "idle" /\ made < MaxCalls
  /\ made' = made + 1
  /\ pc' = [pc EXCEPT ![t] = "lock"] /\ call' = [call EXCEPT ![t] = Locals(c)]
  /\ user' = [user EXCEPT ![t] = [k \in 0 .. c.len + HalfCells - 1 |-> Junk]]
  /\ UNCHANGED <<mutex, result, inst, wTotal, rTotal, restarts, issued, before,
                 linkVars, cmdVars, toVars, fromVars, doneVars, dmabuf, mem>>

Lock(t) ==
  /\ pc[t] = "lock" /\ mutex = None
  /\ mutex' = t /\ before' = mem
  /\ pc' = [pc EXCEPT ![t] = LoopHead(call[t])]
  /\ UNCHANGED <<call, user, result, inst, wTotal, rTotal, made, restarts, issued,
                 linkVars, cmdVars, toVars, fromVars, doneVars, dmabuf, mem>>

(* The head of the loop: fill a half (to the FPGA) or just name one.       *)
StartChunk(t) ==
  /\ pc[t] = "chunk" /\ call[t].i < call[t].n
  /\ dmabuf' = IF call[t].req.op = "to" THEN Filled(call[t]) ELSE dmabuf
  /\ pc' = [pc EXCEPT ![t] = "arguments"]
  /\ UNCHANGED <<mutex, call, user, result, inst, wTotal, rTotal, made, restarts, issued, before,
                 linkVars, cmdVars, toVars, fromVars, doneVars, mem>>

(* The three userWriteWord of a chunk; nothing is done with the first two  *)
(* words until the third one comes, and they leave in one step.            *)
Arguments(t) ==
  /\ pc[t] = "arguments" /\ pc' = [pc EXCEPT ![t] = "command"]
  /\ down' = down \o << <<"host", HalfPage(call[t].i)>>, <<"fpga", call[t].at>> >>
  /\ UNCHANGED <<mutex, call, user, result, inst, wTotal, rTotal, made, restarts, issued, before,
                 up, cmdVars, toVars, fromVars, doneVars, dmabuf, mem>>

Command(t) ==
  /\ pc[t] = "command" /\ pc' = [pc EXCEPT ![t] = "poll"]
  /\ down' = Append(down, <<call[t].req.op, Cur(call[t])>>)
  /\ issued' = [issued EXCEPT ![call[t].req.op] = @ + 1]
  /\ UNCHANGED <<mutex, call, user, result, inst, wTotal, rTotal, made, restarts, before,
                 up, cmdVars, toVars, fromVars, doneVars, dmabuf, mem>>

(* The wait of chunk i is over.  A copy from the FPGA now takes the chunk  *)
(* before it out of the other half.                                        *)
NextChunk(t) ==
  LET c == call[t] IN
  /\ pc[t] = "seen" /\ c.i < c.n
  /\ \/ /\ c.req.op = "to"
        /\ call' = [call EXCEPT ![t] = [c EXCEPT !.i = @ + 1, !.at = @ + Cur(c),
                                !.left = @ - Cur(c), !.done = @ + Cur(c) * PageCells]]
        /\ UNCHANGED user
     \/ /\ c.req.op = "from"
        /\ user' = [user EXCEPT ![t] =
                      Drained(@, c.done, Half(c.i + 1), c.last * PageCells, 0)]
        /\ call' = [call EXCEPT ![t] = [c EXCEPT !.i = @ + 1, !.at = @ + Cur(c),
                                !.left = @ - Cur(c), !.last = Cur(c),
                                !.done = @ + c.last * PageCells]]
  /\ pc' = [pc EXCEPT ![t] = LoopHead(call'[t])]
  /\ UNCHANGED <<mutex, result, inst, wTotal, rTotal, made, restarts, issued, before,
                 linkVars, cmdVars, toVars, fromVars, doneVars, dmabuf, mem>>

(* The last wait is over: the rest is taken out, and 0xff fills what is    *)
(* left of half a buffer, in the caller's memory.                          *)
LastHalf(c) == Half(c.n + 1)

Return(t) ==
  LET c == call[t]
      rest == Least(c.req.len - c.done, HalfCells)
  IN
  /\ pc[t] = "seen" /\ c.i = c.n
  /\ user' = IF c.req.op = "to" THEN user
             ELSE [user EXCEPT ![t] =
                     Drained(@, c.done, LastHalf(c), rest, HalfCells - rest)]
  /\ pc' = [pc EXCEPT ![t] = "idle"] /\ call' = [call EXCEPT ![t] = Idle]
  /\ mutex' = None
  /\ IF c.req.op = "to"
     THEN wTotal' = c.seen /\ UNCHANGED <<rTotal, result>>
     ELSE /\ rTotal' = c.seen /\ UNCHANGED wTotal
          /\ result' = [result EXCEPT ![t] = [k \in 1 .. c.req.len |-> user'[t][k - 1]]]
  /\ UNCHANGED <<inst, made, restarts, issued, before,
                 linkVars, cmdVars, toVars, fromVars, doneVars, dmabuf, mem>>

(* Pages of commands that have not been counted may still be moving.       *)
UnderWay == issued.to # writeDoneCount \/ issued.from # readDoneCount

(* The process ends, except in the middle of a load, and a new one starts. *)
(* The buffer of the driver and the FPGA stay as they are.  Commands the   *)
(* old process left under way would be counted for the new one, which then *)
(* stops waiting too early.                                                *)
Restart ==
  /\ restarts < MaxRestarts /\ inst = "ready"
  /\ UnderWay => RestartUnderWay
  /\ \A t \in Threads : pc[t] # "load"
  /\ restarts' = restarts + 1
  /\ inst' = "none" /\ mutex' = None
  /\ pc' = [t \in Threads |-> "idle"] /\ call' = [t \in Threads |-> Idle]
  /\ UNCHANGED <<user, result, wTotal, rTotal, made, issued, before,
                 linkVars, cmdVars, toVars, fromVars, doneVars, dmabuf, mem>>

(***************************************************************************)
(* The FPGA.                                                               *)
(***************************************************************************)
getCmd ==
  LET w == Head(down) IN
  /\ down # <<>> /\ down' = Tail(down)
  /\ \/ /\ w[1] = "host" /\ hostMemTemp' = w[2]
        /\ UNCHANGED <<fpgaMemTemp, dmaCmdQ>>
     \/ /\ w[1] = "fpga" /\ fpgaMemTemp' = w[2]
        /\ UNCHANGED <<hostMemTemp, dmaCmdQ>>
     \/ /\ w[1] \in {"to", "from"} /\ Len(dmaCmdQ) < CmdCap
        /\ dmaCmdQ' = Append(dmaCmdQ, [op |-> w[1], host |-> hostMemTemp,
                                       fpga |-> fpgaMemTemp, pages |-> w[2]])
        /\ UNCHANGED <<hostMemTemp, fpgaMemTemp>>
  /\ UNCHANGED <<hostVars, up, hostMemOff, memReadLeft, memWriteLeft,
                 toVars, fromVars, doneVars, dmabuf, mem>>

procCmd ==
  LET d == Head(dmaCmdQ)
      burst == [at |-> d.fpga * PageCells, left |-> d.pages * PageCells]
  IN
  /\ dmaCmdQ # <<>> /\ memReadLeft = 0 /\ memWriteLeft = 0
  /\ dmaCmdQ' = Tail(dmaCmdQ) /\ hostMemOff' = HostCell(d.host)
  /\ \/ /\ d.op = "from" /\ memWriteLeft' = burst.left
        /\ dramReadWordCntQ' = Append(dramReadWordCntQ, burst)
        /\ UNCHANGED <<memReadLeft, dmaReadWordCntQ>>
     \/ /\ d.op = "to" /\ memReadLeft' = burst.left
        /\ dmaReadWordCntQ' = Append(dmaReadWordCntQ, burst)
        /\ UNCHANGED <<memWriteLeft, dramReadWordCntQ>>
  /\ UNCHANGED <<hostVars, linkVars, hostMemTemp, fpgaMemTemp, freeTags, dmaReadTagOrderQ,
                 reads, vDmaReadWords, dramWrite, dramRead, dramReadWordQ, pcieWriteReqQ,
                 doneVars, dmabuf, mem>>

(* One request of 128 bytes.  A free tag is any free one: freeTags stands  *)
(* for a queue whose order nothing depends on.                             *)
sendDMARead ==
  /\ memReadLeft > 0 /\ memWriteLeft = 0 /\ freeTags # {}
  /\ LET g == CHOOSE g \in freeTags : TRUE IN
       /\ freeTags' = freeTags \ {g}
       /\ dmaReadTagOrderQ' = Append(dmaReadTagOrderQ, g)
       /\ reads' = Append(reads, [tag |-> g, addr |-> hostMemOff, cell |-> None])
  /\ memReadLeft' = memReadLeft - 1 /\ hostMemOff' = hostMemOff + 1
  /\ UNCHANGED <<hostVars, linkVars, hostMemTemp, fpgaMemTemp, dmaCmdQ, memWriteLeft,
                 vDmaReadWords, dmaReadWordCntQ, dramWrite, fromVars, doneVars, dmabuf, mem>>

(* The root complex reads host memory for any request under way.           *)
MemoryRead(k) ==
  /\ k \in DOMAIN reads /\ reads[k].cell = None
  /\ reads' = [reads EXCEPT ![k].cell = dmabuf[reads[k].addr]]
  /\ UNCHANGED <<hostVars, linkVars, cmdVars, freeTags, dmaReadTagOrderQ, vDmaReadWords,
                 dmaReadWordCntQ, dramWrite, fromVars, doneVars, dmabuf, mem>>

(* The last word of a request frees its tag, before the words are used.    *)
getDMARead ==
  LET r == Head(reads) IN
  /\ reads # <<>> /\ r.cell # None /\ vDmaReadWords[r.tag] = <<>>
  /\ reads' = Tail(reads) /\ freeTags' = freeTags \cup {r.tag}
  /\ vDmaReadWords' = [vDmaReadWords EXCEPT ![r.tag] = <<r.cell>>]
  /\ UNCHANGED <<hostVars, linkVars, cmdVars, dmaReadTagOrderQ, dmaReadWordCntQ,
                 dramWrite, fromVars, doneVars, dmabuf, mem>>

(* The DRAM side moves one burst at a time (curCnt in the burst splitter). *)
dramStartBurst ==
  /\ dmaReadWordCntQ # <<>> /\ dramWrite.left = 0 /\ dramRead.left = 0
  /\ dramWrite' = Head(dmaReadWordCntQ) /\ dmaReadWordCntQ' = Tail(dmaReadWordCntQ)
  /\ UNCHANGED <<hostVars, linkVars, cmdVars, freeTags, dmaReadTagOrderQ, reads,
                 vDmaReadWords, fromVars, doneVars, dmabuf, mem>>

relayDRAMWriteBurst ==
  LET g == Head(dmaReadTagOrderQ) IN
  /\ dramWrite.left > 0 /\ dmaReadTagOrderQ # <<>> /\ vDmaReadWords[g] # <<>>
  /\ dmaReadTagOrderQ' = Tail(dmaReadTagOrderQ)
  /\ vDmaReadWords' = [vDmaReadWords EXCEPT ![g] = <<>>]
  /\ mem' = [mem EXCEPT ![dramWrite.at] = Head(vDmaReadWords[g])]
  /\ dramWrite' = [at |-> dramWrite.at + 1, left |-> dramWrite.left - 1]
  /\ writeDoneCount' = IF dramWrite.left = 1 THEN writeDoneCount + 1 ELSE writeDoneCount
  /\ UNCHANGED <<hostVars, linkVars, cmdVars, freeTags, reads, dmaReadWordCntQ, fromVars,
                 readDoneCount, dmabuf>>

startDRAMRead ==
  /\ dramReadWordCntQ # <<>> /\ dramRead.left = 0 /\ dramWrite.left = 0
  /\ dramRead' = Head(dramReadWordCntQ) /\ dramReadWordCntQ' = Tail(dramReadWordCntQ)
  /\ UNCHANGED <<hostVars, linkVars, cmdVars, toVars, dramReadWordQ, pcieWriteReqQ,
                 doneVars, dmabuf, mem>>

relayDRAMWord ==
  /\ dramRead.left > 0 /\ Len(dramReadWordQ) < DramCap
  /\ dramReadWordQ' = Append(dramReadWordQ, mem[dramRead.at])
  /\ dramRead' = [at |-> dramRead.at + 1, left |-> dramRead.left - 1]
  /\ UNCHANGED <<hostVars, linkVars, cmdVars, toVars, dramReadWordCntQ, pcieWriteReqQ,
                 doneVars, dmabuf, mem>>

(* pcieWriteReqQ and dramReadBurstDoneQ, filled and emptied together.      *)
genPcieDmaWrite ==
  /\ memWriteLeft > 0 /\ memReadLeft = 0 /\ Len(pcieWriteReqQ) < CmdCap
  /\ pcieWriteReqQ' = Append(pcieWriteReqQ, [addr |-> hostMemOff, last |-> memWriteLeft = 1])
  /\ memWriteLeft' = memWriteLeft - 1
  /\ hostMemOff' = IF memWriteLeft > 1 THEN hostMemOff + 1 ELSE hostMemOff
  /\ UNCHANGED <<hostVars, linkVars, hostMemTemp, fpgaMemTemp, dmaCmdQ, memReadLeft, toVars,
                 dramReadWordCntQ, dramRead, dramReadWordQ, doneVars, dmabuf, mem>>

(* The request and its words, handed to PcieCtrl: only when all of them    *)
(* have come from DRAM.  The last one of a command makes it done.          *)
sendPcieDmaWrite ==
  LET w == Head(pcieWriteReqQ) IN
  /\ pcieWriteReqQ # <<>> /\ dramReadWordQ # <<>>
  /\ up' = Append(up, [addr |-> w.addr, cell |-> Head(dramReadWordQ)])
  /\ pcieWriteReqQ' = Tail(pcieWriteReqQ) /\ dramReadWordQ' = Tail(dramReadWordQ)
  /\ readDoneCount' = IF w.last THEN readDoneCount + 1 ELSE readDoneCount
  /\ UNCHANGED <<hostVars, down, cmdVars, toVars, dramReadWordCntQ, dramRead,
                 writeDoneCount, dmabuf, mem>>

(* A load of a count, from the host's request to the answer leaving.       *)
readStat(t) ==
  /\ pc[t] = "poll" /\ pc' = [pc EXCEPT ![t] = "load"]
  /\ up' = Append(up, [thread |-> t, count |-> Count(t)])
  /\ UNCHANGED <<mutex, call, user, result, inst, wTotal, rTotal, made, restarts, issued, before,
                 down, cmdVars, toVars, fromVars, doneVars, dmabuf, mem>>

(***************************************************************************)
(* The link: a posted write reaches host memory, or an answer its load.    *)
(***************************************************************************)
LandCell ==
  /\ up # <<>> /\ "addr" \in DOMAIN Head(up) /\ up' = Tail(up)
  /\ dmabuf' = [dmabuf EXCEPT ![Head(up).addr] = Head(up).cell]
  /\ UNCHANGED <<hostVars, down, cmdVars, toVars, fromVars, doneVars, mem>>

LandCount ==
  LET t == Head(up).thread
      n == Head(up).count
  IN
  /\ up # <<>> /\ "count" \in DOMAIN Head(up) /\ up' = Tail(up)
  /\ \/ /\ inst = "write" /\ inst' = "read" /\ wTotal' = n
        /\ pc' = [pc EXCEPT ![t] = "poll"] /\ UNCHANGED <<rTotal, call>>
     \/ /\ inst = "read" /\ inst' = "ready" /\ rTotal' = n
        /\ pc' = [pc EXCEPT ![t] = "idle"] /\ UNCHANGED <<wTotal, call>>
     \/ /\ inst = "ready" /\ call' = [call EXCEPT ![t].seen = n]
        /\ pc' = [pc EXCEPT ![t] = IF n < Target(t) THEN "poll" ELSE "seen"]
        /\ UNCHANGED <<inst, wTotal, rTotal>>
  /\ UNCHANGED <<mutex, user, result, made, restarts, issued, before, down,
                 cmdVars, toVars, fromVars, doneVars, dmabuf, mem>>

-----------------------------------------------------------------------------
Run(t) ==
  \/ Construct(t) \/ Lock(t) \/ StartChunk(t) \/ Arguments(t)
  \/ Command(t) \/ NextChunk(t) \/ Return(t)

ToStep ==
  \/ sendDMARead \/ (\E k \in DOMAIN reads : MemoryRead(k)) \/ getDMARead
  \/ dramStartBurst \/ relayDRAMWriteBurst

FromStep ==
  \/ startDRAMRead \/ relayDRAMWord \/ genPcieDmaWrite
  \/ sendPcieDmaWrite

Link == LandCell \/ LandCount \/ \E t \in Threads : readStat(t)

Move == getCmd \/ procCmd \/ ToStep \/ FromStep

Next ==
  \/ \E t \in Threads : Run(t) \/ \E c \in Calls : Enter(t, c)
  \/ Move
  \/ Link
  \/ Restart

Spec == Init /\ [][Next]_vars

(* Some rule that moves data goes on as long as one can, loads are        *)
(* answered, and a thread in a call goes on; nobody has to call.           *)
FairSpec ==
  /\ Spec
  /\ \A t \in Threads : WF_vars(Run(t))
  /\ WF_vars(Link)
  /\ WF_vars(Move)

(***************************************************************************)
(* Properties.                                                             *)
(***************************************************************************)
Start(c) == FirstPage(c.at) * PageCells
WrittenBy(c) == Start(c) .. Start(c) + Pages(c.len) * PageCells - 1

Requests == [op : {"to", "from", "none"}, at : Nat, len : Nat, data : Seq(Data)]
Commands == [op : {"to", "from"}, host : Nat, fpga : Nat, pages : Nat]
Bursts   == [at : Nat, left : Nat]

(* The values of all variables.                                            *)
TypeOK ==
  /\ mutex \in Threads \cup {None}
  /\ pc \in [Threads -> {"idle", "lock", "chunk", "arguments", "command",
                         "poll", "load", "seen"}]
  /\ call \in [Threads -> [req : Requests, at : Nat, left : Nat, i : Nat, n : Nat,
                           done : Nat, last : Nat, seen : Nat]]
  /\ inst \in {"none", "write", "read", "ready"} /\ wTotal \in Nat /\ rTotal \in Nat
  /\ dmabuf \in [BufCells -> Cells] /\ mem \in [0 .. FpgaPages * PageCells - 1 -> Cells]
  /\ \A k \in DOMAIN down : down[k][1] \in {"host", "fpga", "to", "from"} /\ down[k][2] \in Nat
  /\ up \in Seq([addr : BufCells, cell : Cells] \cup [thread : Threads, count : Nat])
  /\ hostMemTemp \in Nat /\ fpgaMemTemp \in Nat /\ hostMemOff \in Nat
  /\ dmaCmdQ \in Seq(Commands) /\ Len(dmaCmdQ) <= CmdCap
  /\ memReadLeft \in Nat /\ memWriteLeft \in Nat
  /\ freeTags \subseteq ReadTags /\ dmaReadTagOrderQ \in Seq(ReadTags)
  /\ reads \in Seq([tag : ReadTags, addr : BufCells, cell : Cells \cup {None}])
  /\ vDmaReadWords \in [ReadTags -> Seq(Cells)]
  /\ dmaReadWordCntQ \in Seq(Bursts) /\ dramReadWordCntQ \in Seq(Bursts)
  /\ dramWrite \in Bursts /\ dramRead \in Bursts
  /\ dramReadWordQ \in Seq(Cells) /\ Len(dramReadWordQ) <= DramCap
  /\ pcieWriteReqQ \in Seq([addr : BufCells, last : BOOLEAN])
  /\ writeDoneCount \in Nat /\ readDoneCount \in Nat

(* Copies are atomic: whatever the overlap of the host's two halves, the   *)
(* FPGA's two directions and the counts, a copy that has returned has      *)
(* moved exactly the caller's cells.                                       *)
Copying == mutex # None /\ call[mutex].req.op = "to"

Stored(m, c) ==
  [k \in DOMAIN m |->
     IF k \notin WrittenBy(c) THEN m[k]
     ELSE IF k - Start(c) < c.len THEN c.data[k - Start(c) + 1]
     ELSE Pad]
Loaded(m, c) == [k \in 1 .. c.len |-> m[Start(c) + k - 1]]

Abstract == INSTANCE AtomicCopy WITH
  asked   <- [t \in Threads |-> call[t].req],
  memory  <- IF Copying THEN before ELSE mem,
  Store   <- Stored,
  Load    <- Loaded,
  Written <- WrittenBy

CopiesAtomic == Abstract!CopySpec

(* When no thread holds the mutex nothing is under way and the totals are  *)
(* the counts: the next call starts from nothing.                          *)
Settled ==
  inst = "ready" /\ mutex = None =>
    /\ \A k \in DOMAIN down : down[k][1] \in {"host", "fpga"}
    /\ dmaCmdQ = <<>> /\ memReadLeft = 0 /\ memWriteLeft = 0
    /\ reads = <<>> /\ dramWrite.left = 0 /\ dramRead.left = 0
    /\ pcieWriteReqQ = <<>> /\ \A k \in DOMAIN up : "addr" \notin DOMAIN up[k]
    /\ wTotal = issued.to /\ rTotal = issued.from

(* A thread that holds the mutex gives it back: its commands go through,   *)
(* tags freed too early included, and the count reaches what it waits for. *)
CallsReturn == \A t \in Threads : mutex = t ~> mutex # t

=============================================================================
