------------------------------- MODULE DmaSend -------------------------------
(***************************************************************************)
(* What PcieCtrl puts on the link: DMA writes of several beats, DMA read   *)
(* requests and MMIO replies of one beat each (src/PcieCtrl.bsv).  Write   *)
(* and read requests are cut into bursts by rules that share one port of   *)
(* configBuffer for their page addresses; all TLPs share sendTLPQ.         *)
(*                                                                         *)
(* The unit is the 16-byte word.  A beat of a write carries the first 4    *)
(* bytes of one word and the other 12 of the word before: a word is its    *)
(* number, and both parts have to arrive with the same number.             *)
(***************************************************************************)
EXTENDS Naturals, Sequences

CONSTANTS
  MaxBurst,      \* dma_max_words (8)
  PageWords,     \* words in a page (256)
  NumPages,      \* entries of configBuffer for page addresses
  BufPages,      \* what they hold: page of the host buffer -> bus page
  FifoCap,       \* entries of an mkFIFO (2)
  PageReqCap,    \* dmaPageWriteReqQ, dmaPageReadReqQ (8)
  WordCap,       \* dmaWriteWordQ (32)
  CntMod,        \* 2^10: width of dmaWriteWordIn and dmaWriteWordOut
  WriteTags,     \* how many tags there are for writes (128)
  ReadTags,      \* and for reads (128)
  SendCap,       \* sendTLPQ (8)
  MergeCap,      \* entries of sendTLPm a source can fill
  WriteRequests, \* what the user asks to write and
  ReadRequests,  \* to read: [addr, words], in words
  MaxWrites, MaxReads, MaxData, MaxReplies     \* bounds on what is asked

ASSUME SendAssumption ==
  /\ MaxBurst \in Nat \ {0} /\ PageWords \in Nat \ {0}
  /\ NumPages \in Nat \ {0} /\ BufPages \in [0 .. NumPages - 1 -> Nat]
  /\ WordCap \in Nat /\ WordCap >= MaxBurst
  /\ FifoCap \in Nat /\ WriteTags \in Nat /\ ReadTags \in Nat
  /\ CntMod \in Nat /\ CntMod > WordCap + MaxBurst
  /\ WriteRequests \subseteq [addr : Nat, words : Nat \ {0}]
  /\ ReadRequests \subseteq [addr : Nat, words : Nat \ {0}]

VARIABLES
  toWrite, toRead,     \* bus addresses asked for, in order
  writes, replies,     \* requests and MMIO replies made
  dmaWriteReqQ, sending,            \* dmaStartAddr and dmaSendWords
  dmaReadReqQ, reading,             \* dmaReadStartAddr and dmaReadWords
  freeWriteTagQ, freeWriteTagStageQ, busyWriteTagQ,   \* how many tags
  freeReadTagQ,
  dmaPageWriteReqQ, dmaPageReadReqQ,
  bufidxQ,             \* bufidxRequestedWriteQ with the answers of portB
  dmaWriteBufAddrQ, dmaReadBufAddrQ,
  dmaWriteWordQ, dmaWriteWordIn, dmaWriteWordOut,
  given,               \* words the user gave
  dmaWriteBuf, dataWordsRemain,
  sendTLPm,            \* single TLPs, per source
  sendTLPQ,
  wire,                \* the write TLP the link is in
  written, readOut     \* words and read words that have left, in order

userVars  == <<toWrite, toRead, writes, replies, given>>
writeReqs == <<dmaWriteReqQ, sending>>
readReqs  == <<dmaReadReqQ, reading>>
tagVars   == <<freeWriteTagQ, freeWriteTagStageQ, busyWriteTagQ, freeReadTagQ>>
pageVars  == <<dmaPageWriteReqQ, dmaPageReadReqQ, bufidxQ, dmaWriteBufAddrQ, dmaReadBufAddrQ>>
wordVars  == <<dmaWriteWordQ, dmaWriteWordIn, dmaWriteWordOut, dmaWriteBuf, dataWordsRemain>>
linkVars  == <<sendTLPm, sendTLPQ, wire, written, readOut>>
vars == <<userVars, writeReqs, readReqs, tagVars, pageVars, wordVars, linkVars>>

-----------------------------------------------------------------------------
Least(a, b) == IF a <= b THEN a ELSE b
Plus10(a, n) == IF a + n >= CntMod THEN (a + n) - CntMod ELSE a + n
Minus10(a, b) == IF a >= b THEN a - b ELSE (a + CntMod) - b

BusPage(a) == BufPages[(a \div PageWords) % NumPages]
BusAddr(a) == BusPage(a) * PageWords + (a % PageWords)
WordsAsked(r) == [i \in 1 .. r.words |-> BusAddr(r.addr + i - 1)]

(* The first burst of what is left of a request, cut at the page end.      *)
BurstIgnoresPage(s) == Least(s.words, MaxBurst)          \* mutants of BurstLen
BurstUncapped(s) == Least(s.words, PageWords - (s.addr % PageWords))
BurstLen(s) == Least(Least(s.words, MaxBurst), PageWords - (s.addr % PageWords))
AfterBurst(s) == [addr |-> s.addr + BurstLen(s), words |-> s.words - BurstLen(s)]
InPage(s) == [off |-> s.addr % PageWords, words |-> BurstLen(s)]

Sources == {"reply", "read"}
NoPacket == [left |-> 0, bus |-> 0, first |-> 0]

Init ==
  /\ toWrite = <<>> /\ toRead = <<>> /\ writes = 0 /\ replies = 0 /\ given = 0
  /\ dmaWriteReqQ = <<>> /\ sending = [addr |-> 0, words |-> 0]
  /\ dmaReadReqQ = <<>> /\ reading = [addr |-> 0, words |-> 0]
  /\ freeWriteTagQ = WriteTags /\ freeWriteTagStageQ = 0 /\ busyWriteTagQ = 0
  /\ freeReadTagQ = ReadTags
  /\ dmaPageWriteReqQ = <<>> /\ dmaPageReadReqQ = <<>> /\ bufidxQ = <<>>
  /\ dmaWriteBufAddrQ = <<>> /\ dmaReadBufAddrQ = <<>>
  /\ dmaWriteWordQ = <<>> /\ dmaWriteWordIn = 0 /\ dmaWriteWordOut = 0
  /\ dmaWriteBuf = 0 /\ dataWordsRemain = 0
  /\ sendTLPm = [s \in Sources |-> <<>>] /\ sendTLPQ = <<>>
  /\ wire = NoPacket /\ written = <<>> /\ readOut = <<>>

-----------------------------------------------------------------------------
(* The user.                                                               *)
dmaWriteReq(r) ==
  /\ writes < MaxWrites /\ Len(dmaWriteReqQ) < FifoCap
  /\ writes' = writes + 1
  /\ toWrite' = toWrite \o WordsAsked(r)
  /\ dmaWriteReqQ' = Append(dmaWriteReqQ, r)
  /\ UNCHANGED <<toRead, replies, given, sending, readReqs, tagVars, pageVars, wordVars,
                 linkVars>>

dmaWriteData ==
  /\ given < MaxData /\ Len(dmaWriteWordQ) < WordCap
  /\ given' = given + 1
  /\ dmaWriteWordQ' = Append(dmaWriteWordQ, given + 1)
  /\ dmaWriteWordIn' = Plus10(dmaWriteWordIn, 1)
  /\ UNCHANGED <<toWrite, toRead, writes, replies, writeReqs, readReqs, tagVars, pageVars,
                 dmaWriteWordOut, dmaWriteBuf, dataWordsRemain, linkVars>>

dmaReadReq(r) ==
  /\ Len(toRead) < MaxReads /\ Len(dmaReadReqQ) < FifoCap
  /\ toRead' = toRead \o WordsAsked(r)
  /\ dmaReadReqQ' = Append(dmaReadReqQ, r)
  /\ UNCHANGED <<toWrite, writes, replies, given, writeReqs, reading, tagVars, pageVars,
                 wordVars, linkVars>>

(* An MMIO load is answered: filterStatReadTLP, completeIORead, dataSend.  *)
reply ==
  /\ replies < MaxReplies /\ Len(sendTLPm["reply"]) < MergeCap
  /\ replies' = replies + 1
  /\ sendTLPm' = [sendTLPm EXCEPT !["reply"] = Append(@, [kind |-> "reply"])]
  /\ UNCHANGED <<toWrite, toRead, writes, given, writeReqs, readReqs, tagVars, pageVars,
                 wordVars, sendTLPQ, wire, written, readOut>>

-----------------------------------------------------------------------------
(* Requests are cut into bursts.                                           *)
splitDmaWriteReq ==
  /\ sending.words = 0 /\ dmaWriteReqQ # <<>>
  /\ sending' = Head(dmaWriteReqQ)
  /\ dmaWriteReqQ' = Tail(dmaWriteReqQ)
  /\ UNCHANGED <<userVars, readReqs, tagVars, pageVars, wordVars, linkVars>>

relayFreeWriteTag ==
  /\ freeWriteTagQ > 0 /\ freeWriteTagStageQ < FifoCap
  /\ freeWriteTagQ' = freeWriteTagQ - 1
  /\ freeWriteTagStageQ' = freeWriteTagStageQ + 1
  /\ UNCHANGED <<userVars, writeReqs, readReqs, busyWriteTagQ, freeReadTagQ, pageVars,
                 wordVars, linkVars>>

WriteSplits ==
  /\ sending.words > 0
  /\ freeWriteTagStageQ > 0 /\ busyWriteTagQ < WriteTags
  /\ Len(dmaPageWriteReqQ) < PageReqCap /\ Len(bufidxQ) < FifoCap

splitDmaWriteReq2 ==
  /\ WriteSplits
  /\ freeWriteTagStageQ' = freeWriteTagStageQ - 1
  /\ busyWriteTagQ' = busyWriteTagQ + 1
  /\ sending' = AfterBurst(sending)
  /\ dmaPageWriteReqQ' = Append(dmaPageWriteReqQ, InPage(sending))
  /\ bufidxQ' = Append(bufidxQ, [write |-> TRUE, page |-> BusPage(sending.addr)])
  /\ UNCHANGED <<userVars, dmaWriteReqQ, readReqs, freeWriteTagQ, freeReadTagQ,
                 dmaPageReadReqQ, dmaWriteBufAddrQ, dmaReadBufAddrQ, wordVars, linkVars>>

splitDmaReadReq ==
  /\ reading.words = 0 /\ dmaReadReqQ # <<>>
  /\ reading' = Head(dmaReadReqQ)
  /\ dmaReadReqQ' = Tail(dmaReadReqQ)
  /\ UNCHANGED <<userVars, writeReqs, tagVars, pageVars, wordVars, linkVars>>

(* Writes are the more urgent of the two.                                  *)
splitDmaReadReq2 ==
  /\ reading.words > 0 /\ ~WriteSplits
  /\ freeReadTagQ > 0
  /\ Len(dmaPageReadReqQ) < PageReqCap /\ Len(bufidxQ) < FifoCap
  /\ freeReadTagQ' = freeReadTagQ - 1
  /\ reading' = AfterBurst(reading)
  /\ dmaPageReadReqQ' = Append(dmaPageReadReqQ, InPage(reading))
  /\ bufidxQ' = Append(bufidxQ, [write |-> FALSE, page |-> BusPage(reading.addr)])
  /\ UNCHANGED <<userVars, writeReqs, dmaReadReqQ, freeWriteTagQ, freeWriteTagStageQ,
                 busyWriteTagQ, dmaPageWriteReqQ, dmaWriteBufAddrQ, dmaReadBufAddrQ,
                 wordVars, linkVars>>

(* A tag of a read comes back when its data has been flushed (DmaRead).    *)
readTagReturns ==
  /\ freeReadTagQ < ReadTags
  /\ freeReadTagQ' = freeReadTagQ + 1
  /\ UNCHANGED <<userVars, writeReqs, readReqs, freeWriteTagQ, freeWriteTagStageQ,
                 busyWriteTagQ, pageVars, wordVars, linkVars>>

AlwaysWrite(b) == TRUE                                   \* mutant of ForWrite
ForWrite(b) == b.write

relayBufIdxRead ==
  /\ bufidxQ # <<>>
  /\ LET b == Head(bufidxQ) IN
       \/ /\ ForWrite(b) /\ Len(dmaWriteBufAddrQ) < FifoCap
          /\ dmaWriteBufAddrQ' = Append(dmaWriteBufAddrQ, b.page)
          /\ UNCHANGED dmaReadBufAddrQ
       \/ /\ ~ForWrite(b) /\ Len(dmaReadBufAddrQ) < FifoCap
          /\ dmaReadBufAddrQ' = Append(dmaReadBufAddrQ, b.page)
          /\ UNCHANGED dmaWriteBufAddrQ
  /\ bufidxQ' = Tail(bufidxQ)
  /\ UNCHANGED <<userVars, writeReqs, readReqs, tagVars, dmaPageWriteReqQ,
                 dmaPageReadReqQ, wordVars, linkVars>>

-----------------------------------------------------------------------------
(* TLPs.  A write starts only when all its words are in dmaWriteWordQ and  *)
(* not promised to an earlier burst.                                       *)
SomeGiven(n) == Minus10(dmaWriteWordIn, dmaWriteWordOut) > 0   \* mutant of AllGiven
AllGiven(n) == Minus10(dmaWriteWordIn, dmaWriteWordOut) >= n

generateHeaderTLP ==
  /\ dataWordsRemain = 0
  /\ dmaPageWriteReqQ # <<>> /\ dmaWriteBufAddrQ # <<>> /\ dmaWriteWordQ # <<>>
  /\ Len(sendTLPQ) < SendCap
  /\ LET req == Head(dmaPageWriteReqQ) IN
       /\ AllGiven(req.words)
       /\ sendTLPQ' = Append(sendTLPQ,
            [kind |-> "write", bus |-> Head(dmaWriteBufAddrQ) * PageWords + req.off,
             words |-> req.words, first |-> Head(dmaWriteWordQ)])
       /\ dmaWriteWordOut' = Plus10(dmaWriteWordOut, req.words)
       /\ dataWordsRemain' = req.words
  /\ dmaWriteBuf' = Head(dmaWriteWordQ)
  /\ dmaWriteWordQ' = Tail(dmaWriteWordQ)
  /\ dmaPageWriteReqQ' = Tail(dmaPageWriteReqQ)
  /\ dmaWriteBufAddrQ' = Tail(dmaWriteBufAddrQ)
  /\ UNCHANGED <<userVars, writeReqs, readReqs, tagVars, dmaPageReadReqQ, bufidxQ,
                 dmaReadBufAddrQ, dmaWriteWordIn, sendTLPm, wire, written, readOut>>

generateDataTLP ==
  /\ dataWordsRemain > 0 /\ Len(sendTLPQ) < SendCap
  /\ dataWordsRemain' = dataWordsRemain - 1
  /\ \/ /\ dataWordsRemain > 1 /\ dmaWriteWordQ # <<>>
        /\ sendTLPQ' = Append(sendTLPQ, [kind |-> "data", rest |-> dmaWriteBuf,
                                         first |-> Head(dmaWriteWordQ)])
        /\ dmaWriteBuf' = Head(dmaWriteWordQ)
        /\ dmaWriteWordQ' = Tail(dmaWriteWordQ)
        /\ UNCHANGED <<busyWriteTagQ, freeWriteTagQ>>
     \/ /\ dataWordsRemain = 1 /\ freeWriteTagQ < WriteTags
        /\ sendTLPQ' = Append(sendTLPQ, [kind |-> "data", rest |-> dmaWriteBuf,
                                         first |-> 0])
        /\ busyWriteTagQ' = busyWriteTagQ - 1
        /\ freeWriteTagQ' = freeWriteTagQ + 1
        /\ UNCHANGED <<dmaWriteBuf, dmaWriteWordQ>>
  /\ UNCHANGED <<userVars, writeReqs, readReqs, freeWriteTagStageQ, freeReadTagQ, pageVars,
                 dmaWriteWordIn, dmaWriteWordOut, sendTLPm, wire, written, readOut>>

generateDmaReadTLP ==
  /\ dmaPageReadReqQ # <<>> /\ dmaReadBufAddrQ # <<>>
  /\ Len(sendTLPm["read"]) < MergeCap
  /\ LET req == Head(dmaPageReadReqQ) IN
       sendTLPm' = [sendTLPm EXCEPT !["read"] =
         Append(@, [kind |-> "read", bus |-> Head(dmaReadBufAddrQ) * PageWords + req.off,
                    words |-> req.words])]
  /\ dmaPageReadReqQ' = Tail(dmaPageReadReqQ)
  /\ dmaReadBufAddrQ' = Tail(dmaReadBufAddrQ)
  /\ UNCHANGED <<userVars, writeReqs, readReqs, tagVars, dmaPageWriteReqQ, bufidxQ,
                 dmaWriteBufAddrQ, wordVars, sendTLPQ, wire, written, readOut>>

AnyTime == TRUE                                      \* mutant of BetweenBursts
BetweenBursts == dataWordsRemain = 0

relayTLPm(s) ==
  /\ BetweenBursts
  /\ sendTLPm[s] # <<>> /\ Len(sendTLPQ) < SendCap
  /\ sendTLPQ' = Append(sendTLPQ, Head(sendTLPm[s]))
  /\ sendTLPm' = [sendTLPm EXCEPT ![s] = Tail(@)]
  /\ UNCHANGED <<userVars, writeReqs, readReqs, tagVars, pageVars, wordVars, wire, written,
                 readOut>>

(* The link takes a beat.  Every beat after the header of a write is taken *)
(* for its data until the length in the header is reached.                 *)
relayTLP ==
  /\ sendTLPQ # <<>>
  /\ sendTLPQ' = Tail(sendTLPQ)
  /\ LET b == Head(sendTLPQ) IN
       \/ /\ b.kind = "write"
          /\ wire' = [left |-> b.words, bus |-> b.bus, first |-> b.first]
          /\ UNCHANGED <<written, readOut>>
       \/ /\ b.kind = "data"
          /\ written' = Append(written, [bus |-> wire.bus, first |-> wire.first,
                                         rest |-> b.rest])
          /\ wire' = IF wire.left <= 1 THEN NoPacket
                     ELSE [left |-> wire.left - 1, bus |-> wire.bus + 1, first |-> b.first]
          /\ UNCHANGED readOut
       \/ /\ b.kind = "read"
          /\ readOut' = readOut \o [i \in 1 .. b.words |-> b.bus + i - 1]
          /\ UNCHANGED <<wire, written>>
       \/ /\ b.kind = "reply"
          /\ UNCHANGED <<wire, written, readOut>>
  /\ UNCHANGED <<userVars, writeReqs, readReqs, tagVars, pageVars, wordVars, sendTLPm>>

-----------------------------------------------------------------------------
Rules ==
  \/ splitDmaWriteReq \/ relayFreeWriteTag \/ splitDmaWriteReq2
  \/ splitDmaReadReq \/ splitDmaReadReq2 \/ relayBufIdxRead
  \/ generateHeaderTLP \/ generateDataTLP \/ generateDmaReadTLP
  \/ (\E s \in Sources : relayTLPm(s)) \/ relayTLP

User ==
  \/ \E r \in WriteRequests : dmaWriteReq(r)
  \/ \E r \in ReadRequests : dmaReadReq(r)
  \/ dmaWriteData

Next == User \/ reply \/ readTagReturns \/ Rules

Spec == Init /\ [][Next]_vars

(* Rules that stay able to fire fire; sendTLPm forgets no source (Merge2   *)
(* alternates); tags of reads come back.  Nobody has to ask for anything,  *)
(* and the user gives words for its writes only if UserGives is added.     *)
LazyUserSpec ==
  /\ Spec
  /\ WF_vars(splitDmaWriteReq) /\ WF_vars(relayFreeWriteTag) /\ WF_vars(splitDmaWriteReq2)
  /\ WF_vars(splitDmaReadReq) /\ WF_vars(splitDmaReadReq2) /\ WF_vars(relayBufIdxRead)
  /\ WF_vars(generateHeaderTLP) /\ WF_vars(generateDataTLP) /\ WF_vars(generateDmaReadTLP)
  /\ \A s \in Sources : WF_vars(relayTLPm(s))
  /\ WF_vars(relayTLP) /\ WF_vars(readTagReturns)
UserGives == WF_vars(dmaWriteData)

-----------------------------------------------------------------------------
(* Every variable has the values its register or queue can hold.           *)
Lengths == 0 .. MaxBurst
TypeOK ==
  /\ sending \in [addr : Nat, words : Nat] /\ reading \in [addr : Nat, words : Nat]
  /\ freeWriteTagQ \in 0 .. WriteTags /\ freeWriteTagStageQ \in 0 .. FifoCap
  /\ busyWriteTagQ \in 0 .. WriteTags /\ freeReadTagQ \in 0 .. ReadTags
  /\ dmaPageWriteReqQ \in Seq([off : 0 .. PageWords - 1, words : Lengths])
  /\ dmaPageReadReqQ \in Seq([off : 0 .. PageWords - 1, words : Lengths])
  /\ bufidxQ \in Seq([write : BOOLEAN, page : Nat])
  /\ dmaWriteBufAddrQ \in Seq(Nat) /\ dmaReadBufAddrQ \in Seq(Nat)
  /\ dmaWriteWordQ \in Seq(Nat)
  /\ dmaWriteWordIn \in 0 .. CntMod - 1 /\ dmaWriteWordOut \in 0 .. CntMod - 1
  /\ dmaWriteBuf \in Nat /\ dataWordsRemain \in Lengths
  /\ wire \in [left : Lengths, bus : Nat, first : Nat]
  /\ freeWriteTagQ + freeWriteTagStageQ + busyWriteTagQ = WriteTags

(* Once the header of a write is out, every word of the burst is there:    *)
(* no burst stops half-way, which would stop the link for everything       *)
(* behind it, whatever the 10-bit counters wrapped to.                     *)
BurstHasData == Len(dmaWriteWordQ) >= dataWordsRemain - 1

(* On the link nothing comes between the beats of a write, and data comes  *)
(* after a header only.                                                    *)
Framed ==
  sendTLPQ # <<>> => (Head(sendTLPQ).kind = "data" <=> wire.left > 0)

(* The n-th word the user gave is written whole, to the n-th address it    *)
(* asked for: bursts, pages, tags and reads in between do not move it.     *)
WrittenInPlace ==
  \A n \in 1 .. Len(written) :
    /\ n <= Len(toWrite)
    /\ written[n] = [bus |-> toWrite[n], first |-> n, rest |-> n]

(* Read requests go out for the addresses asked for, in that order, though *)
(* their page addresses come through the same port as those of writes.     *)
ReadInPlace == readOut = SubSeq(toRead, 1, Len(readOut))

(* No burst of either direction takes the page of the other.               *)
InPlace == WrittenInPlace /\ ReadInPlace

(* MMIO replies leave even if the user gives no data for its writes: the   *)
(* host may be waiting for the reply before it lets the user continue.     *)
RepliesLeave == sendTLPm["reply"] # <<>> ~> sendTLPm["reply"] = <<>>

(* Every write and read asked for leaves if the user gives its words.      *)
Everything ==
  /\ Len(written) = Len(toWrite) /\ Len(readOut) = Len(toRead)
EverythingLeaves == UserGives => (~Everything ~> Everything)
=============================================================================
