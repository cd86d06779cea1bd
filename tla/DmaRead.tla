------------------------------- MODULE DmaRead -------------------------------
(***************************************************************************)
(* The DMA read engine of src/PcieCtrl.bsv.  A request is cut into bursts  *)
(* that stay inside a page and get a tag each; the root complex answers    *)
(* the bursts in any order and in pieces; the pieces are put together in a *)
(* buffer and the bursts are handed to the user in the order of asking.    *)
(*                                                                         *)
(* The unit is the 16-byte word; the code counts 4-byte words and steps by *)
(* four.  A word of host memory is its bus address.  Two queues with a     *)
(* relay rule between them are one queue with the sum of their sizes, and  *)
(* a block RAM's response register belongs to the queue behind it.         *)
(***************************************************************************)
EXTENDS Naturals, Sequences, FiniteSets

CONSTANTS
  Tags,         \* tags for reads (0 .. 127)
  NoTag,
  MaxBurst,     \* dma_max_words: words in a burst (8)
  PageWords,    \* words in a page (256)
  NumPages,     \* entries of configBuffer for page addresses
  BufPages,     \* what they hold: page of the host buffer -> bus page
  OutBursts,    \* dmaReadOutQ holds OutBursts * MaxBurst words (8)
  CntMod,       \* 2^8: width of dmaReadOutCntUp and dmaReadOutCntDn
  FifoCap,      \* entries of an mkFIFO (2)
  PageReqCap,   \* entries of dmaPageReadReqQ (8)
  OrderedCap,   \* entries of orderedReadDoneTagQ (4)
  ScoreCap,     \* entries of readCompletionsb (4)
  WordCap,      \* entries of dmaReadWordQ and dmaReadWordRQ (130)
  LinkCap,      \* beats in tlpQ and the link when a completion may follow
  PipeCap,      \* tags in a shifter
  Requests,     \* what the user asks for: [addr, words], in words
  MaxRequests   \* bound: requests the user makes

ASSUME ReadAssumption ==
  /\ IsFiniteSet(Tags) /\ NoTag \notin Tags
  /\ MaxBurst \in Nat \ {0} /\ PageWords \in Nat \ {0}
  /\ NumPages \in Nat \ {0} /\ BufPages \in [0 .. NumPages - 1 -> Nat]
  /\ OutBursts \in Nat /\ OutBursts >= 2
  /\ CntMod \in Nat /\ CntMod > OutBursts * MaxBurst
  /\ Requests \subseteq [addr : Nat, words : Nat \ {0}]
  /\ MaxRequests \in Nat

VARIABLES
  asked, delivered,        \* words asked for, words handed over, in order
  requests,                \* requests made
  dmaReadReqQ, splitting,  \* splitting: dmaReadStartAddr and dmaReadWords
  freeReadTagQ, freeReadTagFQ,
  dmaPageReadReqQ, bufidxQ, dmaReadBufAddrQ,
  reads,                   \* bursts the root complex has not fully answered
  tlpQ, completionRecv,    \* beats; tag and words left of the completion
  dmaReadWordQ, readBurstQ,
  tagMap, readCompletionsb, burstUpdReqQ, tagWordsLeft,
  readReorder, readDoneTagQ, doneMap, doneShifter,
  doneTagMap, orderTagMap, \* one bit a tag, each turns when ...
  dmaReadTagOrderQ, orderShifter, curOrderTag,
  doneReorderedTagQ, orderedReadDoneTagQ,
  readFlushTag, dmaReadOutQ, dmaReadOutCntUp, dmaReadOutCntDn

askVars   == <<asked, requests, dmaReadReqQ>>
splitVars == <<splitting, dmaPageReadReqQ, bufidxQ, dmaReadBufAddrQ>>
linkVars  == <<reads, tlpQ, completionRecv, dmaReadWordQ, readBurstQ>>
joinVars  == <<readCompletionsb, burstUpdReqQ, tagWordsLeft, readReorder>>
doneVars  == <<readDoneTagQ, doneMap, doneShifter, doneTagMap>>
orderVars == <<orderTagMap, orderShifter, curOrderTag,
               doneReorderedTagQ, orderedReadDoneTagQ>>
outVars   == <<readFlushTag, dmaReadOutQ, dmaReadOutCntUp, dmaReadOutCntDn, delivered>>
vars == <<askVars, splitVars, linkVars, joinVars, doneVars, orderVars, outVars,
          freeReadTagQ, freeReadTagFQ, tagMap, dmaReadTagOrderQ>>

-----------------------------------------------------------------------------
Least(a, b) == IF a <= b THEN a ELSE b
Next8(a) == IF a + 1 = CntMod THEN 0 ELSE a + 1        \* of an 8-bit counter
Minus8(a, b) == IF a >= b THEN a - b ELSE (a + CntMod) - b

BusPage(a) == BufPages[(a \div PageWords) % NumPages]
BusAddr(a) == BusPage(a) * PageWords + (a % PageWords)
WordsAsked(r) == [i \in 1 .. r.words |-> BusAddr(r.addr + i - 1)]

(* The first burst of what is left of a request: at most MaxBurst words,   *)
(* none of them beyond the page.                                           *)
BurstUncapped(s) == Least(s.words, PageWords - (s.addr % PageWords))
BurstIgnoresPage(s) == Least(s.words, MaxBurst)        \* mutants of BurstLen
BurstLen(s) == Least(Least(s.words, MaxBurst), PageWords - (s.addr % PageWords))

Init ==
  /\ asked = <<>> /\ delivered = <<>> /\ requests = 0
  /\ dmaReadReqQ = <<>> /\ splitting = [addr |-> 0, words |-> 0]
  /\ freeReadTagQ \in {s \in [1 .. Cardinality(Tags) -> Tags] :
                         \A i, j \in DOMAIN s : s[i] = s[j] => i = j}
  /\ freeReadTagFQ = <<>>
  /\ dmaPageReadReqQ = <<>> /\ bufidxQ = <<>> /\ dmaReadBufAddrQ = <<>>
  /\ reads = {} /\ tlpQ = <<>> /\ completionRecv = [tag |-> NoTag, words |-> 0]
  /\ dmaReadWordQ = <<>> /\ readBurstQ = <<>>
  /\ tagMap = [t \in Tags |-> [req |-> 0, done |-> 0]]
  /\ readCompletionsb = <<>> /\ burstUpdReqQ = <<>>
  /\ tagWordsLeft = [tag |-> NoTag, off |-> 0, words |-> 0, ioff |-> 0, req |-> 0]
  /\ readReorder = [t \in Tags |-> [i \in 0 .. MaxBurst - 1 |-> 0]]
  /\ readDoneTagQ = <<>> /\ doneMap = [t \in Tags |-> 0] /\ doneShifter = <<>>
  /\ doneTagMap = [t \in Tags |-> FALSE] /\ orderTagMap = [t \in Tags |-> FALSE]
  /\ dmaReadTagOrderQ = <<>> /\ orderShifter = <<>> /\ curOrderTag = NoTag
  /\ doneReorderedTagQ = <<>> /\ orderedReadDoneTagQ = <<>>
  /\ readFlushTag = [tag |-> NoTag, words |-> 0, left |-> 0]
  /\ dmaReadOutQ = <<>> /\ dmaReadOutCntUp = 0 /\ dmaReadOutCntDn = 0

-----------------------------------------------------------------------------
(* Asking: the user's request is cut into bursts.                          *)
dmaReadReq(r) ==
  /\ requests < MaxRequests /\ Len(dmaReadReqQ) < FifoCap
  /\ requests' = requests + 1
  /\ dmaReadReqQ' = Append(dmaReadReqQ, r)
  /\ asked' = asked \o WordsAsked(r)
  /\ UNCHANGED <<splitVars, linkVars, joinVars, doneVars, orderVars, outVars,
                 freeReadTagQ, freeReadTagFQ, tagMap, dmaReadTagOrderQ>>

splitDmaReadReq ==
  /\ splitting.words = 0 /\ dmaReadReqQ # <<>>
  /\ splitting' = Head(dmaReadReqQ)
  /\ dmaReadReqQ' = Tail(dmaReadReqQ)
  /\ UNCHANGED <<asked, requests, dmaPageReadReqQ, bufidxQ, dmaReadBufAddrQ,
                 linkVars, joinVars, doneVars, orderVars, outVars,
                 freeReadTagQ, freeReadTagFQ, tagMap, dmaReadTagOrderQ>>

splitDmaReadReq2 ==
  /\ splitting.words > 0 /\ freeReadTagQ # <<>>
  /\ Len(dmaPageReadReqQ) < PageReqCap /\ Len(bufidxQ) < FifoCap
  /\ LET n == BurstLen(splitting)
         t == Head(freeReadTagQ) IN
       /\ splitting' = [addr |-> splitting.addr + n, words |-> splitting.words - n]
       /\ dmaPageReadReqQ' =
            Append(dmaPageReadReqQ,
                   [off |-> splitting.addr % PageWords, words |-> n, tag |-> t])
       /\ tagMap' = [tagMap EXCEPT ![t] = [req |-> n, done |-> 0]]
  /\ freeReadTagQ' = Tail(freeReadTagQ)
  /\ bufidxQ' = Append(bufidxQ, BusPage(splitting.addr))
  /\ UNCHANGED <<askVars, dmaReadBufAddrQ, linkVars, joinVars, doneVars, orderVars,
                 outVars, freeReadTagFQ, dmaReadTagOrderQ>>

relayBufIdxRead ==
  /\ bufidxQ # <<>> /\ Len(dmaReadBufAddrQ) < FifoCap
  /\ bufidxQ' = Tail(bufidxQ)
  /\ dmaReadBufAddrQ' = Append(dmaReadBufAddrQ, Head(bufidxQ))
  /\ UNCHANGED <<askVars, splitting, dmaPageReadReqQ, linkVars, joinVars, doneVars,
                 orderVars, outVars, freeReadTagQ, freeReadTagFQ, tagMap,
                 dmaReadTagOrderQ>>

generateDmaReadTLP ==
  /\ dmaPageReadReqQ # <<>> /\ dmaReadBufAddrQ # <<>>
  /\ Len(dmaReadTagOrderQ) < Cardinality(Tags)
  /\ LET req == Head(dmaPageReadReqQ) IN
       /\ dmaReadTagOrderQ' = Append(dmaReadTagOrderQ, req.tag)
       /\ reads' = reads \cup
            {[tag |-> req.tag, words |-> req.words,
              bus |-> Head(dmaReadBufAddrQ) * PageWords + req.off]}
  /\ dmaPageReadReqQ' = Tail(dmaPageReadReqQ)
  /\ dmaReadBufAddrQ' = Tail(dmaReadBufAddrQ)
  /\ UNCHANGED <<askVars, splitting, bufidxQ, tlpQ, completionRecv, dmaReadWordQ,
                 readBurstQ, joinVars, doneVars, orderVars, outVars,
                 freeReadTagQ, freeReadTagFQ, tagMap>>

-----------------------------------------------------------------------------
(* The root complex answers any burst with its next n words.  A burst      *)
(* whose tag was freed at the start of a flush is answered after that      *)
(* flush of at most MaxBurst cycles: a round trip takes far longer.        *)
RootComplex(t) ==
  /\ Len(tlpQ) < LinkCap
  /\ ~(readFlushTag.left > 0 /\ readFlushTag.tag = t)
  /\ \E r \in reads, n \in 1 .. MaxBurst :
       /\ r.tag = t /\ n <= r.words
       /\ tlpQ' = tlpQ \o <<[head |-> TRUE, tag |-> t, val |-> n]>>
                       \o [i \in 1 .. n |-> [head |-> FALSE, tag |-> t,
                                             val |-> r.bus + i - 1]]
       /\ reads' = (reads \ {r}) \cup
            (IF n = r.words THEN {}
             ELSE {[tag |-> t, words |-> r.words - n, bus |-> r.bus + n]})
  /\ UNCHANGED <<askVars, splitVars, completionRecv, dmaReadWordQ, readBurstQ,
                 joinVars, doneVars, orderVars, outVars,
                 freeReadTagQ, freeReadTagFQ, tagMap, dmaReadTagOrderQ>>

filterStatReadTLP ==
  /\ completionRecv.words = 0
  /\ tlpQ # <<>> /\ Len(readBurstQ) < 2 * FifoCap
  /\ LET h == Head(tlpQ) IN
       /\ completionRecv' = [tag |-> h.tag, words |-> h.val]
       /\ readBurstQ' = Append(readBurstQ, [tag |-> h.tag, words |-> h.val])
  /\ tlpQ' = Tail(tlpQ)
  /\ UNCHANGED <<askVars, splitVars, reads, dmaReadWordQ, joinVars, doneVars,
                 orderVars, outVars, freeReadTagQ, freeReadTagFQ, tagMap,
                 dmaReadTagOrderQ>>

procCompletionTLP ==
  /\ completionRecv.words > 0
  /\ tlpQ # <<>> /\ Len(dmaReadWordQ) < WordCap
  /\ completionRecv' = [completionRecv EXCEPT !.words = @ - 1]
  /\ dmaReadWordQ' = Append(dmaReadWordQ, Head(tlpQ).val)
  /\ tlpQ' = Tail(tlpQ)
  /\ UNCHANGED <<askVars, splitVars, reads, readBurstQ, joinVars, doneVars,
                 orderVars, outVars, freeReadTagQ, freeReadTagFQ, tagMap,
                 dmaReadTagOrderQ>>

-----------------------------------------------------------------------------
(* Joining: how much of the burst a piece follows is looked up in tagMap   *)
(* and written back one rule later; the scoreboard keeps a second piece of *)
(* the same burst from reading in between.                                 *)
NeverSearched(t) == FALSE                              \* mutant of Searched
Searched(t) == \E i \in DOMAIN readCompletionsb : readCompletionsb[i] = t

updateReadBurst1 ==
  /\ readBurstQ # <<>>
  /\ Len(readCompletionsb) < ScoreCap /\ Len(burstUpdReqQ) < FifoCap
  /\ LET b == Head(readBurstQ) IN
       /\ ~Searched(b.tag)
       /\ readCompletionsb' = Append(readCompletionsb, b.tag)
       /\ burstUpdReqQ' =
            Append(burstUpdReqQ, [tag |-> b.tag, words |-> b.words,
                                  req |-> tagMap[b.tag].req,
                                  done |-> tagMap[b.tag].done])
  /\ readBurstQ' = Tail(readBurstQ)
  /\ UNCHANGED <<askVars, splitVars, reads, tlpQ, completionRecv, dmaReadWordQ,
                 tagWordsLeft, readReorder, doneVars, orderVars, outVars,
                 freeReadTagQ, freeReadTagFQ, tagMap, dmaReadTagOrderQ>>

LeftUnscored == readCompletionsb                         \* mutant of Unscored
Unscored == Tail(readCompletionsb)

updateReadBurst2 ==
  /\ tagWordsLeft.words = 0 /\ burstUpdReqQ # <<>>
  /\ LET u == Head(burstUpdReqQ)
         n == Least(u.words, u.req - u.done) IN
       /\ tagWordsLeft' = [tag |-> u.tag, off |-> u.done, words |-> n,
                           ioff |-> 0, req |-> u.req]
       /\ tagMap' = [tagMap EXCEPT ![u.tag] = [req |-> u.req, done |-> u.done + n]]
  /\ burstUpdReqQ' = Tail(burstUpdReqQ)
  /\ readCompletionsb' = Unscored
  /\ UNCHANGED <<askVars, splitVars, linkVars, readReorder, doneVars, orderVars,
                 outVars, freeReadTagQ, freeReadTagFQ, dmaReadTagOrderQ>>

writeReadBuffer ==
  /\ tagWordsLeft.words > 0 /\ dmaReadWordQ # <<>>
  /\ LET c == tagWordsLeft
         at == c.off + c.ioff IN
       /\ IF c.words = 1 /\ at + 1 >= c.req
            THEN /\ Len(readDoneTagQ) < FifoCap
                 /\ readDoneTagQ' = Append(readDoneTagQ, [tag |-> c.tag, words |-> at + 1])
            ELSE UNCHANGED readDoneTagQ
       /\ tagWordsLeft' = [c EXCEPT !.words = @ - 1, !.ioff = @ + 1]
       /\ readReorder' = [readReorder EXCEPT ![c.tag][at] = Head(dmaReadWordQ)]
  /\ dmaReadWordQ' = Tail(dmaReadWordQ)
  /\ UNCHANGED <<askVars, splitVars, reads, tlpQ, completionRecv, readBurstQ,
                 readCompletionsb, burstUpdReqQ, doneMap, doneShifter, doneTagMap,
                 orderVars, outVars, freeReadTagQ, freeReadTagFQ, tagMap,
                 dmaReadTagOrderQ>>

-----------------------------------------------------------------------------
(* Ordering: a bit of doneTagMap turns when the burst is complete, the     *)
(* same bit of orderTagMap when its turn has come.                         *)
applyDoneMap ==
  /\ readDoneTagQ # <<>> /\ Len(doneShifter) < PipeCap
  /\ LET d == Head(readDoneTagQ) IN
       /\ doneMap' = [doneMap EXCEPT ![d.tag] = d.words]
       /\ doneShifter' = Append(doneShifter, d.tag)
  /\ readDoneTagQ' = Tail(readDoneTagQ)
  /\ UNCHANGED <<askVars, splitVars, linkVars, joinVars, doneTagMap, orderVars,
                 outVars, freeReadTagQ, freeReadTagFQ, tagMap, dmaReadTagOrderQ>>

procDoneShift ==
  /\ doneShifter # <<>>
  /\ doneTagMap' = [doneTagMap EXCEPT ![Head(doneShifter)] = ~@]
  /\ doneShifter' = Tail(doneShifter)
  /\ UNCHANGED <<askVars, splitVars, linkVars, joinVars, readDoneTagQ, doneMap,
                 orderVars, outVars, freeReadTagQ, freeReadTagFQ, tagMap,
                 dmaReadTagOrderQ>>

shiftOrder ==
  /\ dmaReadTagOrderQ # <<>> /\ Len(orderShifter) < PipeCap
  /\ orderShifter' = Append(orderShifter, Head(dmaReadTagOrderQ))
  /\ dmaReadTagOrderQ' = Tail(dmaReadTagOrderQ)
  /\ UNCHANGED <<askVars, splitVars, linkVars, joinVars, doneVars, orderTagMap,
                 curOrderTag, doneReorderedTagQ, orderedReadDoneTagQ, outVars,
                 freeReadTagQ, freeReadTagFQ, tagMap>>

(* curOrderTag remembers the bit that was not ready when it was first      *)
(* compared; the tag itself stays in the bypass queue meanwhile.           *)
Ready(t) == orderTagMap[t] # doneTagMap[t]

TurnFirstOnly(t) ==                                       \* mutant of Turned
  IF curOrderTag = NoTag THEN [orderTagMap EXCEPT ![t] = ~@] ELSE orderTagMap
Turned(t) == [orderTagMap EXCEPT ![t] = ~@]

compareOrder ==
  /\ orderShifter # <<>>
  /\ LET t == IF curOrderTag # NoTag THEN curOrderTag ELSE Head(orderShifter) IN
       \/ /\ Ready(t)
          /\ Len(doneReorderedTagQ) < FifoCap
          /\ orderTagMap' = Turned(t)
          /\ curOrderTag' = NoTag
          /\ doneReorderedTagQ' = Append(doneReorderedTagQ, Head(orderShifter))
          /\ orderShifter' = Tail(orderShifter)
       \/ /\ ~Ready(t) /\ curOrderTag = NoTag
          /\ curOrderTag' = t
          /\ UNCHANGED <<orderTagMap, doneReorderedTagQ, orderShifter>>
  /\ UNCHANGED <<askVars, splitVars, linkVars, joinVars, doneVars, orderedReadDoneTagQ,
                 outVars, freeReadTagQ, freeReadTagFQ, tagMap, dmaReadTagOrderQ>>

reqDoneTag ==
  /\ doneReorderedTagQ # <<>> /\ Len(orderedReadDoneTagQ) < OrderedCap
  /\ LET t == Head(doneReorderedTagQ) IN
       orderedReadDoneTagQ' =
         Append(orderedReadDoneTagQ, [tag |-> t, words |-> doneMap[t]])
  /\ doneReorderedTagQ' = Tail(doneReorderedTagQ)
  /\ UNCHANGED <<askVars, splitVars, linkVars, joinVars, doneVars, orderTagMap,
                 orderShifter, curOrderTag, outVars, freeReadTagQ, freeReadTagFQ,
                 tagMap, dmaReadTagOrderQ>>

-----------------------------------------------------------------------------
(* Handing over.  A flush starts only if its words will fit behind those   *)
(* already asked from readReorder, and frees the tag at once.              *)
RoomIgnored == TRUE                                    \* mutant of RoomForBurst
RoomForBurst ==
  Minus8(dmaReadOutCntUp, dmaReadOutCntDn) < (OutBursts - 1) * MaxBurst

flushReadTag ==
  \/ /\ readFlushTag.left = 0 /\ RoomForBurst
     /\ orderedReadDoneTagQ # <<>> /\ Len(freeReadTagFQ) < FifoCap
     /\ LET r == Head(orderedReadDoneTagQ) IN
          /\ dmaReadOutQ' = Append(dmaReadOutQ, readReorder[r.tag][0])
          /\ readFlushTag' = [tag |-> r.tag, words |-> r.words,
                              left |-> IF r.words > 1 THEN r.words - 1 ELSE 0]
          /\ freeReadTagFQ' = Append(freeReadTagFQ, r.tag)
     /\ orderedReadDoneTagQ' = Tail(orderedReadDoneTagQ)
     /\ dmaReadOutCntUp' = Next8(dmaReadOutCntUp)
     /\ UNCHANGED <<askVars, splitVars, linkVars, joinVars, doneVars, orderTagMap,
                    orderShifter, curOrderTag, doneReorderedTagQ, dmaReadOutCntDn,
                    delivered, freeReadTagQ, tagMap, dmaReadTagOrderQ>>
  \/ /\ readFlushTag.left > 0
     /\ LET f == readFlushTag IN
          /\ dmaReadOutQ' = Append(dmaReadOutQ, readReorder[f.tag][f.words - f.left])
          /\ readFlushTag' = [f EXCEPT !.left = @ - 1]
     /\ dmaReadOutCntUp' = Next8(dmaReadOutCntUp)
     /\ UNCHANGED <<askVars, splitVars, linkVars, joinVars, doneVars, orderVars,
                    dmaReadOutCntDn, delivered, freeReadTagQ, freeReadTagFQ, tagMap,
                    dmaReadTagOrderQ>>

relayFreeReadTag ==
  /\ freeReadTagFQ # <<>> /\ Len(freeReadTagQ) < Cardinality(Tags)
  /\ freeReadTagQ' = Append(freeReadTagQ, Head(freeReadTagFQ))
  /\ freeReadTagFQ' = Tail(freeReadTagFQ)
  /\ UNCHANGED <<askVars, splitVars, linkVars, joinVars, doneVars, orderVars, outVars,
                 tagMap, dmaReadTagOrderQ>>

dmaReadWord ==
  /\ dmaReadOutQ # <<>>
  /\ delivered' = Append(delivered, Head(dmaReadOutQ))
  /\ dmaReadOutQ' = Tail(dmaReadOutQ)
  /\ dmaReadOutCntDn' = Next8(dmaReadOutCntDn)
  /\ UNCHANGED <<askVars, splitVars, linkVars, joinVars, doneVars, orderVars,
                 readFlushTag, dmaReadOutCntUp, freeReadTagQ, freeReadTagFQ, tagMap,
                 dmaReadTagOrderQ>>

-----------------------------------------------------------------------------
Rules ==
  \/ splitDmaReadReq \/ splitDmaReadReq2 \/ relayBufIdxRead \/ generateDmaReadTLP
  \/ filterStatReadTLP \/ procCompletionTLP
  \/ updateReadBurst1 \/ updateReadBurst2 \/ writeReadBuffer
  \/ applyDoneMap \/ procDoneShift \/ shiftOrder \/ compareOrder \/ reqDoneTag
  \/ flushReadTag \/ relayFreeReadTag

Next ==
  \/ \E r \in Requests : dmaReadReq(r)
  \/ \E t \in Tags : RootComplex(t)
  \/ Rules
  \/ dmaReadWord

Spec == Init /\ [][Next]_vars

(* Every rule that stays able to fire fires, and the root complex answers  *)
(* every read.  The user may stop taking words, unless UserTakes is added.  *)
LazyUserSpec ==
  /\ Spec
  /\ WF_vars(splitDmaReadReq) /\ WF_vars(splitDmaReadReq2)
  /\ WF_vars(relayBufIdxRead) /\ WF_vars(generateDmaReadTLP)
  /\ WF_vars(filterStatReadTLP) /\ WF_vars(procCompletionTLP)
  /\ WF_vars(updateReadBurst1) /\ WF_vars(updateReadBurst2)
  /\ WF_vars(writeReadBuffer) /\ WF_vars(applyDoneMap) /\ WF_vars(procDoneShift)
  /\ WF_vars(shiftOrder) /\ WF_vars(compareOrder) /\ WF_vars(reqDoneTag)
  /\ WF_vars(flushReadTag) /\ WF_vars(relayFreeReadTag)
  /\ \A t \in Tags : SF_vars(RootComplex(t))
UserTakes == WF_vars(dmaReadWord)

-----------------------------------------------------------------------------
(* Every variable has the values its register, queue or memory can hold.   *)
Words == Nat
Lengths == 0 .. MaxBurst
Beat == [head : BOOLEAN, tag : Tags, val : Nat]
Burst == [tag : Tags, words : Lengths, bus : Nat]
AskTypeOK ==
  /\ asked \in Seq(Words) /\ delivered \in Seq(Words) /\ requests \in 0 .. MaxRequests
  /\ dmaReadReqQ \in Seq(Requests)
  /\ splitting \in [addr : Nat, words : Nat]
  /\ freeReadTagQ \in Seq(Tags) /\ freeReadTagFQ \in Seq(Tags)
  /\ dmaPageReadReqQ \in Seq([off : 0 .. PageWords - 1, words : Lengths, tag : Tags])
  /\ bufidxQ \in Seq(Nat) /\ dmaReadBufAddrQ \in Seq(Nat)
LinkTypeOK ==
  /\ reads \subseteq Burst
  /\ tlpQ \in Seq(Beat)
  /\ completionRecv \in [tag : Tags \cup {NoTag}, words : Nat]
  /\ dmaReadWordQ \in Seq(Words)
  /\ readBurstQ \in Seq([tag : Tags, words : Nat])
JoinTypeOK ==
  /\ tagMap \in [Tags -> [req : Lengths, done : Lengths]]
  /\ readCompletionsb \in Seq(Tags)
  /\ burstUpdReqQ \in Seq([tag : Tags, words : Nat, req : Lengths, done : Lengths])
  /\ tagWordsLeft \in [tag : Tags \cup {NoTag}, off : Lengths, words : Lengths,
                       ioff : Lengths, req : Lengths]
  /\ readReorder \in [Tags -> [0 .. MaxBurst - 1 -> Words]]
OrderTypeOK ==
  /\ readDoneTagQ \in Seq([tag : Tags, words : Lengths])
  /\ doneMap \in [Tags -> Lengths] /\ doneShifter \in Seq(Tags)
  /\ doneTagMap \in [Tags -> BOOLEAN] /\ orderTagMap \in [Tags -> BOOLEAN]
  /\ dmaReadTagOrderQ \in Seq(Tags) /\ orderShifter \in Seq(Tags)
  /\ curOrderTag \in Tags \cup {NoTag}
  /\ doneReorderedTagQ \in Seq(Tags)
  /\ orderedReadDoneTagQ \in Seq([tag : Tags, words : Lengths])
OutTypeOK ==
  /\ readFlushTag \in [tag : Tags \cup {NoTag}, words : Lengths, left : 0 .. MaxBurst - 1]
  /\ dmaReadOutQ \in Seq(Words)
  /\ dmaReadOutCntUp \in 0 .. CntMod - 1 /\ dmaReadOutCntDn \in 0 .. CntMod - 1
TypeOK == AskTypeOK /\ LinkTypeOK /\ JoinTypeOK /\ OrderTypeOK /\ OutTypeOK

(* What the user has asked for comes back word for word in the order of    *)
(* asking: bursts answered out of order and in pieces, reused tags and     *)
(* pages that are not adjacent on the bus cannot be told from one memory   *)
(* that answers each request at once.                                      *)
Pending == SubSeq(asked, Len(delivered) + 1, Len(asked))
Ordered == INSTANCE OrderedRead
             WITH Requests <- Requests, WordsOf <- WordsAsked,
                  pending <- Pending, delivered <- delivered
ReadsInOrder == Ordered!ReadSpec

(* The words asked from readReorder always fit in dmaReadOutQ, so a flush  *)
(* never stops half-way, whatever the 8-bit counters wrapped to and even   *)
(* if the user takes nothing: its tag is already free and its half of      *)
(* readReorder may be overwritten by the next burst of that tag.           *)
OutputFits == Len(dmaReadOutQ) + readFlushTag.left <= OutBursts * MaxBurst

(* A burst that is complete and whose turn has not come is still waiting   *)
(* in the order queues: no bit is left over from one use of a tag to make  *)
(* its next use count as complete before its words have come.              *)
InOrderQueues(t) ==
  \E q \in {dmaReadTagOrderQ, orderShifter} : \E i \in DOMAIN q : q[i] = t
DoneTagsWait == \A t \in Tags : Ready(t) => InOrderQueues(t)

(* The link empties although the user takes no word: completions never     *)
(* wait for the user, who may be waiting for MMIO that comes through the   *)
(* same link behind them.                                                  *)
LinkDrains == tlpQ # <<>> ~> tlpQ = <<>>

(* Every word asked for is handed over if the user keeps taking words.     *)
WordsDelivered == UserTakes => (asked # delivered ~> asked = delivered)
=============================================================================
