------------------------------ MODULE DramBurst ------------------------------
(***************************************************************************)
(* Several readers and writers of the DRAM: mkDRAMBurstSplitter and        *)
(* mkDRAMBurstController (dram/src/DRAMBurstController.bsv) on top of      *)
(* mkDRAMController (dram/src/DRAMController.bsv).  A client asks for a    *)
(* burst of 64-byte words and then takes or gives them; the words of all   *)
(* clients share one queue in each direction.                              *)
(*                                                                         *)
(* The unit of addresses is half a row (32 bytes): a word at an odd one    *)
(* covers the upper half of a row and the lower half of the next.  A word  *)
(* is the pair of its halves.  Queues that only relay are one queue.       *)
(***************************************************************************)
EXTENDS Naturals, Sequences

CONSTANTS
  Readers, Writers,          \* clients, by number
  ReadBursts, WriteBursts,   \* what they ask for: [addr, words]
  RegionRows,   \* rows that addrReMapping keeps together (4096)
  Banks, Highs, \* values of bits 18-20 (8) and 21-29 (512) of an address
  DramFifo,     \* entries of an mkFIFO (2), and of readerQ and writerQ
  SyncFifo,     \* writerdQ and readerdQ (8)
  RowFifo,      \* reqs, respSyncQ (32) and readOffsetQ (64)
  ReadReqCap,   \* maxReadReqs (64)
  MaxBursts     \* bound: bursts asked for

ASSUME DramAssumption ==
  /\ {RegionRows, Banks, Highs, DramFifo, SyncFifo, RowFifo, ReadReqCap} \subseteq Nat \ {0}
  /\ MaxBursts \in Nat
  /\ \A b \in ReadBursts \cup WriteBursts : b.addr \in Nat /\ b.words \in Nat \ {0}

VARIABLES
  curCnt,                            \* words left of the burst a client has
  mReader, mWriter, writerM,         \* requests and words in the merges, per client
  readerQ, writerQ, writerdQ, readerdQ, readerQs,
  curReadCnt, curWriteCnt, curClientIdx,
  readCur, writeCur,                 \* address and words left, burst controller
  cmdQ, nextRow, readOffsetQ, reqs, reqCount, resps, respSyncQ, readCache, rightSft,
  ddr3,                              \* half of a row in the memory -> value
  owed, bursts, written,             \* words a writer still has to give; counts
  latest, expected                   \* what writers gave last; what readers are to get

clientVars == <<mReader, mWriter, writerM>>
cntVars    == <<curReadCnt, curWriteCnt, curClientIdx>>
relayVars  == <<readerQ, writerQ, writerdQ, readerdQ, readerQs>>
burstVars  == <<readCur, writeCur>>
rowVars    == <<cmdQ, nextRow, readOffsetQ, reqs, reqCount, resps, respSyncQ, readCache,
                rightSft, ddr3>>
ghostVars  == <<owed, bursts, written, latest, expected>>
dramVars == <<curCnt, clientVars, cntVars, relayVars, burstVars, rowVars, ghostVars>>

Rows == RegionRows * Banks * Highs
Idle == [addr |-> 0, left |-> 0]

DramInit ==
  /\ curCnt = 0
  /\ mReader = [i \in Readers |-> <<>>]
  /\ mWriter = [j \in Writers |-> <<>>] /\ writerM = [j \in Writers |-> <<>>]
  /\ readerQ = <<>> /\ writerQ = <<>> /\ writerdQ = <<>> /\ readerdQ = <<>>
  /\ readerQs = [i \in Readers |-> <<>>]
  /\ curReadCnt = 0 /\ curWriteCnt = 0 /\ curClientIdx = 0
  /\ readCur = Idle /\ writeCur = Idle
  /\ cmdQ = <<>> /\ nextRow = FALSE /\ readOffsetQ = <<>> /\ reqs = <<>> /\ reqCount = 0
  /\ resps = <<>> /\ respSyncQ = <<>> /\ readCache = <<0, 0>> /\ rightSft = <<>>
  /\ ddr3 = [h \in 0 .. 2 * Rows - 1 |-> 0]
  /\ owed = [j \in Writers |-> Idle] /\ bursts = 0 /\ written = 0
  /\ latest = [h \in 0 .. 2 * Rows - 1 |-> 0] /\ expected = [i \in Readers |-> <<>>]

-----------------------------------------------------------------------------
(* The clients.  One burst at a time: the next is taken when every word of *)
(* the one before has passed the splitter.                                 *)
FreeAlways == TRUE                                       \* mutant of Free
Free == curCnt = 0

(* The splitter's readReq; its caller expects what was given last.         *)
readReq(i, b) ==
  /\ Free /\ Len(mReader[i]) < DramFifo
  /\ bursts < MaxBursts /\ bursts' = bursts + 1
  /\ mReader' = [mReader EXCEPT ![i] = Append(@, [addr |-> b.addr, words |-> b.words, client |-> i])]
  /\ curCnt' = b.words
  /\ expected' = [expected EXCEPT ![i] = @ \o [k \in 1 .. b.words |->
       <<latest[b.addr + 2 * k - 2], latest[b.addr + 2 * k - 1]>>]]
  /\ UNCHANGED <<mWriter, writerM, cntVars, relayVars, burstVars, rowVars, owed, written, latest>>

read(i) ==
  /\ readerQs[i] # <<>>
  /\ readerQs' = [readerQs EXCEPT ![i] = Tail(@)]
  /\ expected' = [expected EXCEPT ![i] = Tail(@)]
  /\ UNCHANGED <<curCnt, clientVars, cntVars, readerQ, writerQ, writerdQ, readerdQ, burstVars,
                 rowVars, owed, bursts, written, latest>>

writeReq(j, b) ==
  /\ Free /\ Len(mWriter[j]) < DramFifo /\ owed[j].left = 0
  /\ bursts < MaxBursts /\ bursts' = bursts + 1
  /\ mWriter' = [mWriter EXCEPT ![j] = Append(@, b)]
  /\ curCnt' = b.words
  /\ owed' = [owed EXCEPT ![j] = [addr |-> b.addr, left |-> b.words]]
  /\ UNCHANGED <<mReader, writerM, cntVars, relayVars, burstVars, rowVars, written, latest, expected>>

(* A client gives words for its own burst only; all halves are different.  *)
write(j) ==
  LET a == owed[j].addr  w == <<2 * written + 1, 2 * written + 2>> IN
    /\ owed[j].left > 0 /\ Len(writerM[j]) < DramFifo
    /\ writerM' = [writerM EXCEPT ![j] = Append(@, w)]
    /\ owed' = [owed EXCEPT ![j] = [addr |-> a + 2, left |-> @.left - 1]]
    /\ written' = written + 1
    /\ latest' = [latest EXCEPT ![a] = w[1], ![a + 1] = w[2]]
    /\ UNCHANGED <<curCnt, mReader, mWriter, cntVars, relayVars, burstVars, rowVars, bursts, expected>>

-----------------------------------------------------------------------------
(* The splitter.                                                           *)
relayDramRead(i) ==
  /\ mReader[i] # <<>> /\ Len(readerQ) < DramFifo
  /\ readerQ' = Append(readerQ, Head(mReader[i]))
  /\ mReader' = [mReader EXCEPT ![i] = Tail(@)]
  /\ UNCHANGED <<curCnt, mWriter, writerM, cntVars, writerQ, writerdQ, readerdQ, readerQs,
                 burstVars, rowVars, ghostVars>>

relayDramWrite(j) ==
  /\ mWriter[j] # <<>> /\ Len(writerQ) < DramFifo
  /\ writerQ' = Append(writerQ, Head(mWriter[j]))
  /\ mWriter' = [mWriter EXCEPT ![j] = Tail(@)]
  /\ UNCHANGED <<curCnt, mReader, writerM, cntVars, readerQ, writerdQ, readerdQ, readerQs,
                 burstVars, rowVars, ghostVars>>

relayWriteC(j) ==
  /\ writerM[j] # <<>> /\ Len(writerdQ) < SyncFifo
  /\ writerdQ' = Append(writerdQ, Head(writerM[j]))
  /\ writerM' = [writerM EXCEPT ![j] = Tail(@)]
  /\ curCnt' = curCnt - 1
  /\ UNCHANGED <<mReader, mWriter, cntVars, readerQ, writerQ, readerdQ, readerQs, burstVars,
                 rowVars, ghostVars>>

(* The burst controller takes a request when it has none.                  *)
NoBurst == curReadCnt = 0 /\ curWriteCnt = 0 /\ readCur.left = 0 /\ writeCur.left = 0

startDramWrite ==
  /\ NoBurst /\ writerQ # <<>>
  /\ writerQ' = Tail(writerQ)
  /\ writeCur' = [addr |-> Head(writerQ).addr, left |-> Head(writerQ).words]
  /\ curWriteCnt' = Head(writerQ).words
  /\ UNCHANGED <<curCnt, clientVars, curReadCnt, curClientIdx, readerQ, writerdQ, readerdQ,
                 readerQs, readCur, rowVars, ghostVars>>

startDramRead ==
  /\ NoBurst /\ readerQ # <<>>
  /\ readerQ' = Tail(readerQ)
  /\ readCur' = [addr |-> Head(readerQ).addr, left |-> Head(readerQ).words]
  /\ curReadCnt' = Head(readerQ).words /\ curClientIdx' = Head(readerQ).client
  /\ UNCHANGED <<curCnt, clientVars, curWriteCnt, writerQ, writerdQ, readerdQ, readerQs,
                 writeCur, rowVars, ghostVars>>

relayRead ==
  /\ curReadCnt > 0 /\ curWriteCnt = 0
  /\ rightSft # <<>> /\ Len(readerdQ) < SyncFifo
  /\ curReadCnt' = curReadCnt - 1
  /\ readerdQ' = Append(readerdQ, [client |-> curClientIdx, data |-> Head(rightSft)])
  /\ rightSft' = Tail(rightSft)
  /\ UNCHANGED <<curCnt, clientVars, curWriteCnt, curClientIdx, readerQ, writerQ, writerdQ,
                 readerQs, burstVars, cmdQ, nextRow, readOffsetQ, reqs, reqCount, resps,
                 respSyncQ, readCache, ddr3, ghostVars>>

relayReadClient ==
  LET r == Head(readerdQ) IN
    /\ readerdQ # <<>> /\ Len(readerQs[r.client]) < DramFifo
    /\ readerdQ' = Tail(readerdQ)
    /\ readerQs' = [readerQs EXCEPT ![r.client] = Append(@, r.data)]
    /\ curCnt' = curCnt - 1
    /\ UNCHANGED <<clientVars, cntVars, readerQ, writerQ, writerdQ, burstVars, rowVars, ghostVars>>

-----------------------------------------------------------------------------
(* The burst controller gives the controller one word at a time.  The      *)
(* controller permutes the address: the bits of the bank go on top.        *)
addrReMapping(a) ==
  LET row == a \div 2  region == row \div RegionRows IN
    2 * (((region % Banks) * Highs + (region \div Banks)) * RegionRows + (row % RegionRows))
      + (a % 2)

After(cur) == [addr |-> cur.addr + 2, left |-> cur.left - 1]

relayWrite ==
  /\ curReadCnt = 0 /\ curWriteCnt > 0 /\ writerdQ # <<>>
  /\ writeCur.left > 0 /\ Len(cmdQ) < DramFifo
  /\ cmdQ' = Append(cmdQ, [write |-> TRUE, addr |-> addrReMapping(writeCur.addr),
                           data |-> Head(writerdQ)])
  /\ curWriteCnt' = curWriteCnt - 1 /\ writeCur' = After(writeCur)
  /\ writerdQ' = Tail(writerdQ)
  /\ UNCHANGED <<curCnt, clientVars, curReadCnt, curClientIdx, readerQ, writerQ, readerdQ,
                 readerQs, readCur, nextRow, readOffsetQ, reqs, reqCount, resps, respSyncQ,
                 readCache, rightSft, ddr3, ghostVars>>

dramReadReq ==
  /\ readCur.left > 0 /\ Len(cmdQ) < DramFifo
  /\ cmdQ' = Append(cmdQ, [write |-> FALSE, addr |-> addrReMapping(readCur.addr)])
  /\ readCur' = After(readCur)
  /\ UNCHANGED <<curCnt, clientVars, cntVars, relayVars, writeCur, nextRow, readOffsetQ, reqs,
                 reqCount, resps, respSyncQ, readCache, rightSft, ddr3, ghostVars>>

(* An access at an odd address takes two requests; data is shifted to      *)
(* where it belongs and the other bytes are masked out.                    *)
RowDone(two) ==
  /\ nextRow' = two
  /\ cmdQ' = IF two THEN cmdQ ELSE Tail(cmdQ)

driverWrie ==
  LET c == Head(cmdQ)  row == c.addr \div 2  two == c.addr % 2 = 1 /\ ~nextRow IN
    /\ cmdQ # <<>> /\ c.write /\ Len(reqs) < RowFifo
    /\ reqs' = Append(reqs,
         [row |-> IF nextRow THEN row + 1 ELSE row,
          put |-> IF c.addr % 2 = 0 THEN [h \in {0, 1} |-> c.data[h + 1]]
                  ELSE IF nextRow THEN [h \in {0} |-> c.data[2]]
                  ELSE [h \in {1} |-> c.data[1]]])
    /\ RowDone(two)
    /\ UNCHANGED <<curCnt, clientVars, cntVars, relayVars, burstVars, readOffsetQ, reqCount,
                   resps, respSyncQ, readCache, rightSft, ddr3, ghostVars>>

NoData == [h \in {} |-> 0]

driverReadC ==
  LET c == Head(cmdQ)  row == c.addr \div 2  two == c.addr % 2 = 1 /\ ~nextRow IN
    /\ cmdQ # <<>> /\ ~c.write /\ Len(reqs) < RowFifo /\ Len(readOffsetQ) < RowFifo
    /\ reqs' = Append(reqs, [row |-> IF nextRow THEN row + 1 ELSE row, put |-> NoData])
    /\ readOffsetQ' = Append(readOffsetQ, [cache |-> two, offset |-> c.addr % 2])
    /\ RowDone(two)
    /\ UNCHANGED <<curCnt, clientVars, cntVars, relayVars, burstVars, reqCount, resps,
                   respSyncQ, readCache, rightSft, ddr3, ghostVars>>

-----------------------------------------------------------------------------
(* The memory does what it is asked in order.  At most ReadReqCap rows are *)
(* between it and respSyncQ.                                               *)
relayReqs ==
  LET r == Head(reqs) IN
    /\ reqs # <<>> /\ reqCount < ReadReqCap
    /\ reqs' = Tail(reqs)
    /\ \/ /\ r.put # NoData
          /\ ddr3' = [h \in DOMAIN ddr3 |-> IF h \div 2 = r.row /\ h % 2 \in DOMAIN r.put
                                            THEN r.put[h % 2] ELSE ddr3[h]]
          /\ UNCHANGED <<reqCount, resps>>
       \/ /\ r.put = NoData
          /\ resps' = Append(resps, <<ddr3[2 * r.row], ddr3[2 * r.row + 1]>>)
          /\ reqCount' = reqCount + 1
          /\ UNCHANGED ddr3
    /\ UNCHANGED <<curCnt, clientVars, cntVars, relayVars, burstVars, cmdQ, nextRow,
                   readOffsetQ, respSyncQ, readCache, rightSft, ghostVars>>

relayResps2 ==
  /\ resps # <<>> /\ Len(respSyncQ) < RowFifo
  /\ respSyncQ' = Append(respSyncQ, Head(resps)) /\ resps' = Tail(resps)
  /\ reqCount' = reqCount - 1
  /\ UNCHANGED <<curCnt, clientVars, cntVars, relayVars, burstVars, cmdQ, nextRow,
                 readOffsetQ, reqs, readCache, rightSft, ddr3, ghostVars>>

(* The first row of two is kept; the word is shifted out of both.          *)
recvRead ==
  LET res == Head(respSyncQ)  v == Head(readOffsetQ) IN
    /\ respSyncQ # <<>> /\ readOffsetQ # <<>>
    /\ respSyncQ' = Tail(respSyncQ) /\ readOffsetQ' = Tail(readOffsetQ)
    /\ \/ /\ v.cache /\ readCache' = res /\ UNCHANGED rightSft
       \/ /\ ~v.cache /\ Len(rightSft) < DramFifo
          /\ rightSft' = Append(rightSft, IF v.offset = 0 THEN res ELSE <<readCache[2], res[1]>>)
          /\ UNCHANGED readCache
    /\ UNCHANGED <<curCnt, clientVars, cntVars, relayVars, burstVars, cmdQ, nextRow, reqs,
                   reqCount, resps, ddr3, ghostVars>>

-----------------------------------------------------------------------------
Clients ==
  \/ \E i \in Readers : read(i) \/ \E b \in ReadBursts : readReq(i, b)
  \/ \E j \in Writers : write(j) \/ \E b \in WriteBursts : writeReq(j, b)

DramRules ==
  \/ \E i \in Readers : relayDramRead(i)
  \/ \E j \in Writers : relayDramWrite(j) \/ relayWriteC(j)
  \/ startDramWrite \/ startDramRead \/ relayRead \/ relayReadClient
  \/ relayWrite \/ dramReadReq \/ driverWrie \/ driverReadC
  \/ relayReqs \/ relayResps2 \/ recvRead

DramNext == Clients \/ DramRules

DramSpec == DramInit /\ [][DramNext]_dramVars

-----------------------------------------------------------------------------
(* Bursts lie in the memory, no word of one at the last row of a region at *)
(* an odd address: the second row of a word is the next one in the         *)
(* permuted order.  A write burst is longer than writerdQ.                 *)
WordFits(a) ==
  /\ a \in Nat /\ a + 1 < 2 * Rows
  /\ a % 2 = 1 => (a \div 2) % RegionRows # RegionRows - 1

BurstsFit ==
  \A b \in ReadBursts \cup WriteBursts : \A k \in 0 .. b.words - 1 : WordFits(b.addr + 2 * k)

WritesFill == \A b \in WriteBursts : b.words > SyncFifo

(* A reader gets the words of its own bursts, in order, and each is what   *)
(* the writers had last given for its address when the reader asked,       *)
(* whichever clients had a burst before and wherever in a row it starts.   *)
(* For write bursts of more words than writerdQ holds: the last words of a *)
(* shorter one may all be in that queue, with the request itself behind    *)
(* another in writerQ, when the next client is let in.                     *)
ReadsFresh ==
  \A i \in Readers : \A k \in 1 .. Len(readerQs[i]) :
    k <= Len(expected[i]) /\ readerQs[i][k] = expected[i][k]
=============================================================================
