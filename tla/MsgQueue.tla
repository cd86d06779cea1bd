------------------------------- MODULE MsgQueue -------------------------------
(***************************************************************************)
(* Messages between user logic and a program: src/DMAWideCtrl.bsv and      *)
(* cpp/dmasplitter.cpp.  To the host, a message is written by DMA into one *)
(* of a ring of slots, with its number; the program scans the slots for    *)
(* the number it waits for and writes back how far it has come.  To the    *)
(* FPGA, a message is a few words, the last of which completes it.         *)
(*                                                                         *)
(* A message is its serial number, and every word of it carries it.  Both  *)
(* directions of PCIe keep their order (see DmaSend, PcieMmio); a DMA      *)
(* write reaches host memory in words of 16 bytes.  Queues with a relay    *)
(* rule between them are one queue.                                        *)
(***************************************************************************)
EXTENDS Integers, Sequences, FiniteSets

CONSTANTS
  Slots,        \* slots in the first page of host memory (128)
  IdxMod,       \* 2^32: message numbers wrap
  UserCap,      \* messages in enqcQ, enqQ and enq2Q
  FifoCap,      \* entries of an mkFIFO (2)
  DmaCap,       \* entries of enqDmaWriteQ (32)
  RecvCap,      \* entries of ioRecvQ (8)
  DownCap,      \* words the host may have under way (see PcieMmio)
  MaxMsgs,      \* bound: messages user logic sends
  MaxWords,     \* bound: messages the program sends
  MaxRestarts,  \* bound: restarts of the program
  EarlyMessages \* whether user logic may send while the program starts

ASSUME MsgAssumption ==
  /\ Slots \in Nat \ {0} /\ IdxMod \in Nat /\ IdxMod > Slots
  /\ UserCap \in Nat \ {0} /\ FifoCap \in Nat \ {0} /\ DmaCap \in Nat \ {0}
  /\ RecvCap \in Nat \ {0} /\ DownCap \in Nat \ {0}
  /\ MaxMsgs \in Nat /\ MaxWords \in Nat /\ MaxRestarts \in Nat
  /\ EarlyMessages \in BOOLEAN

VARIABLES
  \* the program
  start,                      \* what the constructor does next
  rpc, i, found, recvd,       \* the receiver: recvWord and scanReceive
  nextrecvidx, nextrecvoff, recvList,
  regs, words,                \* the sender: words left of the message; messages begun
  slots,                      \* host memory: [word, head, idx]
  down, up,                   \* words to the FPGA; DMA writes from it
  \* the FPGA
  enqReceivedIdx, enqIdx, enqOffset, enqState,
  enq2Q, enqh2Q, enqDataQ, wm00, enqDmaWriteQ, writing,
  userWriteQ, writeBuf, ioRecvQ,
  \* history
  msgs, sent, taken, received,   \* since the last start of the program
  offered, arrived, restarts     \* to the FPGA, since power-up

recvVars == <<rpc, i, found, recvd, nextrecvidx, nextrecvoff, recvList, taken, received>>
sendVars == <<regs, words, offered>>
enqVars  == <<enqIdx, enqOffset, enqState, enq2Q, enqh2Q, enqDataQ, wm00, enqDmaWriteQ,
              writing, msgs, sent>>
ioVars   == <<userWriteQ, writeBuf, ioRecvQ, arrived>>
vars == <<start, recvVars, sendVars, slots, down, up, enqReceivedIdx, enqVars, ioVars,
          restarts>>

-----------------------------------------------------------------------------
Next32(n) == (n + 1) % IdxMod
Minus32(a, b) == (a - b) % IdxMod

ClearedIdx == IdxMod - 1                       \* 0xffffffff
Cleared == [s \in 0 .. Slots - 1 |-> [word |-> 0, head |-> 0, idx |-> ClearedIdx]]

Long  == <<4, 3, 2, 1, 0>>                     \* sendWord with four words of data
Short == <<4, 1, 0>>                           \* sendWord with two

Init ==
  /\ start = "clear"
  /\ rpc = "call" /\ i = 0 /\ found = FALSE /\ recvd = 0
  /\ nextrecvidx = 0 /\ nextrecvoff = 0 /\ recvList = <<>>
  /\ regs = <<>> /\ words = 0
  /\ slots = Cleared /\ down = <<>> /\ up = <<>>
  /\ enqReceivedIdx = 0 /\ enqIdx = 0 /\ enqOffset = 0 /\ enqState = 0
  /\ enq2Q = <<>> /\ enqh2Q = <<>> /\ enqDataQ = <<>> /\ wm00 = <<>>
  /\ enqDmaWriteQ = <<>> /\ writing = [slot |-> 0, left |-> 0]
  /\ userWriteQ = <<>> /\ writeBuf = [r \in 0 .. 4 |-> 0] /\ ioRecvQ = <<>>
  /\ msgs = 0 /\ sent = <<>> /\ taken = <<>> /\ received = <<>>
  /\ offered = [regs |-> [r \in 0 .. 4 |-> 0], all |-> <<>>] /\ arrived = <<>> /\ restarts = 0

(***************************************************************************)
(* The program.                                                            *)
(***************************************************************************)
Write(reg, val) ==
  /\ Len(down) < DownCap
  /\ down' = Append(down, [reg |-> reg, val |-> val])

\* mutant of Construct
ConstructUncleared ==
  /\ \/ /\ start = "clear" /\ start' = "received"
        /\ UNCHANGED <<slots, down>>
     \/ /\ start = "received" /\ start' = "index"
        /\ Write(16, 0) /\ UNCHANGED slots
     \/ /\ start = "index" /\ start' = "ready"
        /\ Write(17, 0) /\ UNCHANGED slots
  /\ UNCHANGED <<recvVars, sendVars, up, enqReceivedIdx, enqVars, ioVars, restarts>>

(* The constructor clears the slots, then resets both counters of the FPGA.*)
Construct ==
  /\ \/ /\ start = "clear" /\ start' = "received"
        /\ slots' = Cleared /\ UNCHANGED down
     \/ /\ start = "received" /\ start' = "index"
        /\ Write(16, 0) /\ UNCHANGED slots
     \/ /\ start = "index" /\ start' = "ready"
        /\ Write(17, 0) /\ UNCHANGED slots
  /\ UNCHANGED <<recvVars, sendVars, up, enqReceivedIdx, enqVars, ioVars, restarts>>

(* recvWord: return the oldest message, or scan.                           *)
recvWord ==
  /\ start = "ready" /\ rpc = "call"
  /\ \/ /\ recvList # <<>>
        /\ recvList' = SubSeq(recvList, 1, Len(recvList) - 1)
        /\ received' = Append(received, recvList[Len(recvList)])
        /\ UNCHANGED rpc
     \/ /\ recvList = <<>>
        /\ rpc' = "scan" /\ UNCHANGED <<recvList, received>>
  /\ UNCHANGED <<start, i, found, recvd, nextrecvidx, nextrecvoff, taken, sendVars, slots,
                 down, up, enqReceivedIdx, enqVars, ioVars, restarts>>

SlotAt(k) == (k + nextrecvoff) % Slots

(* The number in a slot is looked at before the message is read.           *)
scanSlot ==
  /\ rpc = "scan"
  /\ \/ /\ i < Slots /\ slots[SlotAt(i)].idx = nextrecvidx
        /\ rpc' = "copy" /\ UNCHANGED i
     \/ /\ i < Slots /\ slots[SlotAt(i)].idx # nextrecvidx
        /\ IF found THEN rpc' = "done" /\ UNCHANGED i ELSE i' = i + 1 /\ UNCHANGED rpc
     \/ /\ i = Slots
        /\ rpc' = "done" /\ UNCHANGED i
  /\ UNCHANGED <<start, found, recvd, nextrecvidx, nextrecvoff, recvList, taken, received,
                 sendVars, slots, down, up, enqReceivedIdx, enqVars, ioVars, restarts>>

copySlot ==
  LET m == [word |-> slots[SlotAt(i)].word, head |-> slots[SlotAt(i)].head] IN
  /\ rpc = "copy" /\ rpc' = "scan"
  /\ recvList' = <<m>> \o recvList /\ taken' = Append(taken, m)
  /\ nextrecvidx' = Next32(nextrecvidx)
  /\ recvd' = recvd + 1 /\ found' = TRUE /\ i' = i + 1
  /\ UNCHANGED <<start, nextrecvoff, received, sendVars, slots, down, up, enqReceivedIdx,
                 enqVars, ioVars, restarts>>

\* mutant of endScan
endScanSilent ==
  /\ rpc = "done" /\ rpc' = "call"
  /\ nextrecvoff' = (nextrecvoff + recvd) % Slots
  /\ IF recvd > 1 THEN Write(16, nextrecvidx) ELSE UNCHANGED down
  /\ i' = 0 /\ found' = FALSE /\ recvd' = 0
  /\ UNCHANGED <<start, nextrecvidx, recvList, taken, received, sendVars,
                 slots, up, enqReceivedIdx, enqVars, ioVars, restarts>>

(* The position moves by what was received, and the FPGA is told.          *)
endScan ==
  /\ rpc = "done" /\ rpc' = "call"
  /\ nextrecvoff' = (nextrecvoff + recvd) % Slots
  /\ IF recvd > 0 THEN Write(16, nextrecvidx) ELSE UNCHANGED down
  /\ i' = 0 /\ found' = FALSE /\ recvd' = 0
  /\ UNCHANGED <<start, nextrecvidx, recvList, taken, received, sendVars,
                 slots, up, enqReceivedIdx, enqVars, ioVars, restarts>>

(* sendWord, in another thread than recvWord.  A short message leaves two  *)
(* registers of the FPGA as the message before left them.                  *)
startSend ==
  /\ start = "ready" /\ regs = <<>> /\ words < MaxWords
  /\ words' = words + 1
  /\ regs' \in {Long, Short}
  /\ UNCHANGED <<start, recvVars, offered, slots, down, up, enqReceivedIdx, enqVars, ioVars,
                 restarts>>

(* offered[n]: what is in each register when the n-th message is complete. *)
sendReg ==
  /\ regs # <<>> /\ regs' = Tail(regs)
  /\ Write(Head(regs), words)
  /\ offered' = [offered EXCEPT !.regs[Head(regs)] = words,
                   !.all = IF Head(regs) = 0
                           THEN Append(@, [offered.regs EXCEPT ![0] = words]) ELSE @]
  /\ UNCHANGED <<start, recvVars, words, slots, up, enqReceivedIdx, enqVars, ioVars, restarts>>

(* Only the process is lost; what it has sent, and what the FPGA holds,    *)
(* stays.                                                                  *)
InFlight == up # <<>> \/ enq2Q # <<>> \/ enqh2Q # <<>> \/ enqDmaWriteQ # <<>>

Restart ==
  /\ restarts < MaxRestarts /\ restarts' = restarts + 1
  /\ EarlyMessages \/ (~InFlight /\ enqState = 0)
  /\ start' = "clear" /\ rpc' = "call" /\ i' = 0 /\ found' = FALSE /\ recvd' = 0
  /\ nextrecvidx' = 0 /\ nextrecvoff' = 0 /\ recvList' = <<>> /\ regs' = <<>>
  /\ sent' = <<>> /\ taken' = <<>> /\ received' = <<>>
  /\ UNCHANGED <<words, offered, slots, down, up, enqReceivedIdx, enqIdx, enqOffset, enqState,
                 enq2Q, enqh2Q, enqDataQ, wm00, enqDmaWriteQ, writing, msgs, ioVars>>

(***************************************************************************)
(* The FPGA: messages from the program.                                    *)
(***************************************************************************)
(* Words for user logic go to a queue, counters are set at once.           *)
procFC ==
  /\ down # <<>> /\ down' = Tail(down)
  /\ \/ /\ Head(down).reg < 16 /\ Len(userWriteQ) < FifoCap
        /\ userWriteQ' = Append(userWriteQ, Head(down))
        /\ UNCHANGED <<enqReceivedIdx, enqIdx>>
     \/ /\ Head(down).reg = 16
        /\ enqReceivedIdx' = Head(down).val /\ UNCHANGED <<userWriteQ, enqIdx>>
     \/ /\ Head(down).reg = 17
        /\ enqIdx' = Head(down).val /\ UNCHANGED <<userWriteQ, enqReceivedIdx>>
  /\ UNCHANGED <<start, recvVars, sendVars, slots, up, enqOffset, enqState, enq2Q, enqh2Q,
                 enqDataQ, wm00, enqDmaWriteQ, writing, msgs, sent, writeBuf, ioRecvQ,
                 arrived, restarts>>

\* mutant of userWriteReq
userWriteReqEarly ==
  LET d == Head(userWriteQ)
      buf == [writeBuf EXCEPT ![d.reg] = d.val]
  IN
  /\ userWriteQ # <<>> /\ userWriteQ' = Tail(userWriteQ)
  /\ writeBuf' = buf
  /\ \/ d.reg = 0 /\ Len(ioRecvQ) < RecvCap /\ ioRecvQ' = Append(ioRecvQ, writeBuf)
     \/ d.reg # 0 /\ UNCHANGED ioRecvQ
  /\ UNCHANGED <<start, recvVars, sendVars, slots, down, up, enqReceivedIdx, enqVars, arrived,
                 restarts>>

(* A write to register 0 completes a message.                              *)
userWriteReq ==
  LET d == Head(userWriteQ)
      buf == [writeBuf EXCEPT ![d.reg] = d.val]
  IN
  /\ userWriteQ # <<>> /\ userWriteQ' = Tail(userWriteQ)
  /\ writeBuf' = buf
  /\ \/ d.reg = 0 /\ Len(ioRecvQ) < RecvCap /\ ioRecvQ' = Append(ioRecvQ, buf)
     \/ d.reg # 0 /\ UNCHANGED ioRecvQ
  /\ UNCHANGED <<start, recvVars, sendVars, slots, down, up, enqReceivedIdx, enqVars, arrived,
                 restarts>>

deq ==
  /\ ioRecvQ # <<>> /\ ioRecvQ' = Tail(ioRecvQ)
  /\ arrived' = Append(arrived, Head(ioRecvQ))
  /\ UNCHANGED <<start, recvVars, sendVars, slots, down, up, enqReceivedIdx, enqVars,
                 userWriteQ, writeBuf, restarts>>

(***************************************************************************)
(* The FPGA: messages to the program.                                      *)
(***************************************************************************)
Resetting == start # "ready" \/ \E k \in DOMAIN down : down[k].reg = 17

enq ==
  /\ msgs < MaxMsgs /\ Len(enq2Q) < UserCap /\ Len(enqh2Q) < UserCap
  /\ EarlyMessages \/ ~Resetting
  /\ msgs' = msgs + 1 /\ sent' = Append(sent, msgs')
  /\ enq2Q' = Append(enq2Q, msgs') /\ enqh2Q' = Append(enqh2Q, msgs')
  /\ UNCHANGED <<start, recvVars, sendVars, slots, down, up, enqReceivedIdx, enqIdx,
                 enqOffset, enqState, enqDataQ, wm00, enqDmaWriteQ, writing, ioVars, restarts>>

\* mutants of startEnqPacket
startEnqPacketLate ==
  /\ enqState = 0 /\ Minus32(enqIdx, enqReceivedIdx) <= Slots
  /\ enq2Q # <<>> /\ Len(enqDataQ) < FifoCap /\ Len(wm00) < FifoCap
  /\ enq2Q' = Tail(enq2Q) /\ enqDataQ' = Append(enqDataQ, Head(enq2Q))
  /\ wm00' = Append(wm00, enqOffset) /\ enqOffset' = (enqOffset + 1) % Slots
  /\ enqState' = 1
  /\ UNCHANGED <<start, recvVars, sendVars, slots, down, up, enqReceivedIdx, enqIdx, enqh2Q,
                 enqDmaWriteQ, writing, msgs, sent, ioVars, restarts>>

startEnqPacketOn ==
  /\ enqState = 0 /\ Minus32(enqIdx, enqReceivedIdx) < Slots
  /\ enq2Q # <<>> /\ Len(enqDataQ) < FifoCap /\ Len(wm00) < FifoCap
  /\ enq2Q' = Tail(enq2Q) /\ enqDataQ' = Append(enqDataQ, Head(enq2Q))
  /\ wm00' = Append(wm00, enqOffset) /\ enqOffset' = enqOffset + 1
  /\ enqState' = 1
  /\ UNCHANGED <<start, recvVars, sendVars, slots, down, up, enqReceivedIdx, enqIdx, enqh2Q,
                 enqDmaWriteQ, writing, msgs, sent, ioVars, restarts>>

(* The credit: fewer messages numbered than the program has reported, plus *)
(* the slots.                                                              *)
startEnqPacket ==
  /\ enqState = 0 /\ Minus32(enqIdx, enqReceivedIdx) < Slots
  /\ enq2Q # <<>> /\ Len(enqDataQ) < FifoCap /\ Len(wm00) < FifoCap
  /\ enq2Q' = Tail(enq2Q) /\ enqDataQ' = Append(enqDataQ, Head(enq2Q))
  /\ wm00' = Append(wm00, enqOffset) /\ enqOffset' = (enqOffset + 1) % Slots
  /\ enqState' = 1
  /\ UNCHANGED <<start, recvVars, sendVars, slots, down, up, enqReceivedIdx, enqIdx, enqh2Q,
                 enqDmaWriteQ, writing, msgs, sent, ioVars, restarts>>

sendEnqPacket ==
  /\ enqState = 1 /\ enqState' = 2
  /\ enqDataQ # <<>> /\ Len(enqDmaWriteQ) < DmaCap
  /\ enqDataQ' = Tail(enqDataQ)
  /\ enqDmaWriteQ' = Append(enqDmaWriteQ, [val |-> Head(enqDataQ), idx |-> 0])
  /\ UNCHANGED <<start, recvVars, sendVars, slots, down, up, enqReceivedIdx, enqIdx, enqOffset,
                 enq2Q, enqh2Q, wm00, writing, msgs, sent, ioVars, restarts>>

sendEnqIdx ==
  /\ enqState = 2 /\ enqState' = 0
  /\ enqh2Q # <<>> /\ Len(enqDmaWriteQ) < DmaCap
  /\ enqh2Q' = Tail(enqh2Q) /\ enqIdx' = Next32(enqIdx)
  /\ enqDmaWriteQ' = Append(enqDmaWriteQ, [val |-> Head(enqh2Q), idx |-> enqIdx])
  /\ UNCHANGED <<start, recvVars, sendVars, slots, down, up, enqReceivedIdx, enqOffset,
                 enq2Q, enqDataQ, wm00, writing, msgs, sent, ioVars, restarts>>

issuedmaWrite ==
  /\ writing.left = 0 /\ wm00 # <<>>
  /\ wm00' = Tail(wm00) /\ writing' = [slot |-> Head(wm00), left |-> 2]
  /\ UNCHANGED <<start, recvVars, sendVars, slots, down, up, enqReceivedIdx, enqIdx, enqOffset,
                 enqState, enq2Q, enqh2Q, enqDataQ, enqDmaWriteQ, msgs, sent, ioVars, restarts>>

(* The words of a write go to consecutive addresses.                       *)
senddmaWriteData ==
  /\ writing.left > 0 /\ enqDmaWriteQ # <<>>
  /\ writing' = [writing EXCEPT !.left = @ - 1]
  /\ enqDmaWriteQ' = Tail(enqDmaWriteQ)
  /\ up' = Append(up, [slot |-> writing.slot, first |-> writing.left = 2,
                       data |-> Head(enqDmaWriteQ)])
  /\ UNCHANGED <<start, recvVars, sendVars, slots, down, enqReceivedIdx, enqIdx, enqOffset,
                 enqState, enq2Q, enqh2Q, enqDataQ, wm00, msgs, sent, ioVars, restarts>>

(* 16 bytes of a DMA write reach host memory.                              *)
Land ==
  LET w == Head(up) IN
  /\ up # <<>> /\ up' = Tail(up)
  /\ slots' = IF w.first THEN [slots EXCEPT ![w.slot].word = w.data.val]
              ELSE [slots EXCEPT ![w.slot].head = w.data.val, ![w.slot].idx = w.data.idx]
  /\ UNCHANGED <<start, recvVars, sendVars, down, enqReceivedIdx, enqVars, ioVars, restarts>>

-----------------------------------------------------------------------------
Receiver == recvWord \/ scanSlot \/ copySlot \/ endScan
Rules == \/ procFC \/ userWriteReq \/ startEnqPacket \/ sendEnqPacket \/ sendEnqIdx
         \/ issuedmaWrite \/ senddmaWriteData \/ Land

Next == Construct \/ Receiver \/ startSend \/ sendReg \/ enq \/ deq \/ Rules \/ Restart

Spec == Init /\ [][Next]_vars

(* The program constructs, goes on calling recvWord and finishes a         *)
(* sendWord; user logic takes what has arrived; rules go on firing.        *)
FairSpec == /\ Spec /\ WF_vars(Construct \/ Receiver) /\ WF_vars(sendReg)
            /\ WF_vars(deq \/ Rules)

-----------------------------------------------------------------------------
Whole(m) == [word |-> m, head |-> m]
Msg == 0 .. MaxMsgs
Idx == 0 .. IdxMod - 1
DmaWord == [val : Msg, idx : Idx]
Buffers == [0 .. 4 -> 0 .. MaxWords]
SlotNo == 0 .. Slots - 1

(* The receiver's place and the ring's offset stay within the page, every  *)
(* number is 32 bits wide, and no queue holds more than its size.          *)
TypeOK ==
  /\ start \in {"clear", "received", "index", "ready"}
  /\ rpc \in {"call", "scan", "copy", "done"} /\ i \in 0 .. Slots /\ found \in BOOLEAN
  /\ recvd \in 0 .. Slots /\ nextrecvidx \in Idx /\ nextrecvoff \in SlotNo
  /\ slots \in [SlotNo -> [word : Msg, head : Msg, idx : Idx]]
  /\ Len(recvList) <= Slots /\ Len(up) <= 2 * Slots
  /\ down \in Seq([reg : {0, 1, 2, 3, 4, 16, 17}, val : Nat]) /\ Len(down) <= DownCap
  /\ enqReceivedIdx \in Idx /\ enqIdx \in Idx /\ enqOffset \in SlotNo /\ enqState \in 0 .. 2
  /\ enq2Q \in Seq(Msg) /\ Len(enq2Q) <= UserCap /\ enqh2Q \in Seq(Msg)
  /\ Len(enqh2Q) <= UserCap /\ enqDataQ \in Seq(Msg) /\ Len(enqDataQ) <= 1
  /\ wm00 \in Seq(SlotNo) /\ Len(wm00) <= FifoCap
  /\ enqDmaWriteQ \in Seq(DmaWord) /\ Len(enqDmaWriteQ) <= DmaCap
  /\ writing \in [slot : SlotNo, left : 0 .. 2]
  /\ Len(userWriteQ) <= FifoCap /\ writeBuf \in Buffers
  /\ ioRecvQ \in Seq(Buffers) /\ Len(ioRecvQ) <= RecvCap

(* recvWord returns the messages user logic has sent since the program     *)
(* started, in their order, each with its own header: none twice, none     *)
(* from before, no data of one with the number of another.                 *)
InOrder ==
  /\ Len(taken) <= Len(sent)
  /\ \A k \in DOMAIN taken : taken[k] = Whole(sent[k])
  /\ Len(received) <= Len(taken)
  /\ \A k \in DOMAIN received : received[k] = taken[k]

(* No part of a slot is written while the message in it has not been       *)
(* copied: the FPGA's credit is the difference of two counters that are    *)
(* reset one after the other and reported late.                            *)
Untaken == {sent[k] : k \in Len(taken) + 1 .. Len(sent)}

NotOverwritten ==
  [][\A s \in SlotNo : \A f \in {"word", "head"} :
       slots'[s][f] # slots[s][f] => slots[s][f] \notin Untaken]_vars

(* User logic gets what the program sent, message by message: the          *)
(* registers a short message does not write keep what the one before wrote.*)
WordsArrive == 
  /\ Len(arrived) <= Len(offered.all)
  /\ \A k \in DOMAIN arrived : arrived[k] = offered.all[k]

(* recvWord returns all that was sent, unless the program restarts, and    *)
(* user logic gets all that was sent to it: with the bounds on what is     *)
(* sent, both sides go on catching up.                                     *)
CatchUp == []<>(Len(received) = Len(sent) /\ Len(arrived) = Len(offered.all))
=============================================================================
