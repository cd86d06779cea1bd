--------------------------- MODULE DmaReadProofs ---------------------------
(***************************************************************************)
(* Theorems about DmaRead, for every number of tags, burst and page size,  *)
(* depth of the queues and requests that ReadAssumption allows.            *)
(***************************************************************************)
EXTENDS DmaRead, SequenceTheorems, FiniteSetTheorems, TLAPS

(* A queue stays a queue when an entry is put in or taken out.             *)
LEMMA SeqTypes ==
  ASSUME NEW S, NEW s \in Seq(S)
  PROVE  /\ \A x \in S : Append(s, x) \in Seq(S)
         /\ s # <<>> => Head(s) \in S /\ Tail(s) \in Seq(S)
BY AppendProperties, HeadTailProperties

(* A burst has at least one word, at most MaxBurst, and no more than asked.*)
LEMMA BurstLenType ==
  ASSUME NEW s \in [addr : Nat, words : Nat], s.words > 0
  PROVE  BurstLen(s) \in 1 .. MaxBurst /\ BurstLen(s) <= s.words
<1>1. s.words \in Nat /\ s.addr \in Nat /\ MaxBurst \in Nat \ {0} /\ PageWords \in Nat \ {0}
  BY ReadAssumption
<1>2. s.addr % PageWords \in 0 .. PageWords - 1
  BY <1>1
<1> QED  BY <1>1, <1>2 DEF BurstLen, Least

(* A host address has an offset in its page and a bus address.             *)
LEMMA BusTypes ==
  ASSUME NEW a \in Nat
  PROVE  /\ BusPage(a) \in Nat /\ BusAddr(a) \in Nat
         /\ a % PageWords \in 0 .. PageWords - 1
<1>1. PageWords \in Nat \ {0} /\ NumPages \in Nat \ {0}
  BY ReadAssumption
<1>2. a \div PageWords \in Nat /\ a % PageWords \in 0 .. PageWords - 1
  BY <1>1
<1>3. (a \div PageWords) % NumPages \in 0 .. NumPages - 1
  BY <1>1, <1>2
<1>4. BusPage(a) \in Nat
  BY <1>3, ReadAssumption DEF BusPage
<1> QED  BY <1>1, <1>2, <1>4 DEF BusAddr

-----------------------------------------------------------------------------
(***************************************************************************)
(* The inductive invariant.  The bound on dmaReadOutQ rests on the length  *)
(* of every flush, which comes from doneMap, where writeReadBuffer put the *)
(* length that splitDmaReadReq2 gave the burst: Joined says that the       *)
(* pieces of a burst never add up to more than that.                       *)
(***************************************************************************)
Upd == {u \in [tag : Tags, words : Nat, req : Lengths, done : Lengths] : u.done <= u.req}
Joined ==
  /\ \A t \in Tags : tagMap[t].done <= tagMap[t].req
  /\ burstUpdReqQ \in Seq(Upd) /\ Len(readCompletionsb) = Len(burstUpdReqQ)
  /\ tagWordsLeft.words > 0 =>
       /\ tagWordsLeft.tag \in Tags
       /\ tagWordsLeft.off + tagWordsLeft.ioff + tagWordsLeft.words <= tagWordsLeft.req
Flushing == readFlushTag.left > 0 =>
  readFlushTag.tag \in Tags /\ readFlushTag.left < readFlushTag.words
Counted == Minus8(dmaReadOutCntUp, dmaReadOutCntDn) = Len(dmaReadOutQ)

JoinInv == JoinTypeOK /\ Joined
OutInv == OutTypeOK /\ Flushing /\ Counted /\ OutputFits
ReadInv == AskTypeOK /\ LinkTypeOK /\ JoinInv /\ OrderTypeOK /\ OutInv

(* A part of the invariant holds as long as its variables keep still.      *)
LEMMA Frames ==
  /\ AskTypeOK /\ UNCHANGED <<askVars, splitVars, freeReadTagQ, freeReadTagFQ, delivered>>
       => AskTypeOK'
  /\ LinkTypeOK /\ UNCHANGED linkVars => LinkTypeOK'
  /\ JoinInv /\ UNCHANGED <<tagMap, joinVars>> => JoinInv'
  /\ OrderTypeOK /\ UNCHANGED <<doneVars, orderVars, dmaReadTagOrderQ>> => OrderTypeOK'
  /\ OutInv /\ UNCHANGED <<readFlushTag, dmaReadOutQ, dmaReadOutCntUp, dmaReadOutCntDn>>
       => OutInv'
<1>1. AskTypeOK /\ UNCHANGED <<askVars, splitVars, freeReadTagQ, freeReadTagFQ, delivered>>
        => AskTypeOK'
  BY DEF AskTypeOK, askVars, splitVars
<1>2. LinkTypeOK /\ UNCHANGED linkVars => LinkTypeOK'
  BY DEF LinkTypeOK, linkVars
<1>3. JoinInv /\ UNCHANGED <<tagMap, joinVars>> => JoinInv'
  BY DEF JoinInv, JoinTypeOK, Joined, joinVars
<1>4. OrderTypeOK /\ UNCHANGED <<doneVars, orderVars, dmaReadTagOrderQ>> => OrderTypeOK'
  BY DEF OrderTypeOK, doneVars, orderVars
<1>5. OutInv /\ UNCHANGED <<readFlushTag, dmaReadOutQ, dmaReadOutCntUp, dmaReadOutCntDn>>
        => OutInv'
  BY DEF OutInv, OutTypeOK, Flushing, Counted, OutputFits
<1> QED  BY <1>1, <1>2, <1>3, <1>4, <1>5

(* Asking and cutting into bursts.                                         *)
LEMMA AskSteps ==
  ASSUME ReadInv,
         \/ \E r \in Requests : dmaReadReq(r)
         \/ splitDmaReadReq \/ splitDmaReadReq2 \/ relayBufIdxRead \/ generateDmaReadTLP
  PROVE  ReadInv'
<1>1. AskTypeOK /\ LinkTypeOK /\ JoinInv /\ OrderTypeOK /\ OutInv
  BY DEF ReadInv
<1>a. Requests \subseteq [addr : Nat, words : Nat \ {0}]
  BY ReadAssumption
<1>2. ASSUME NEW r \in Requests, dmaReadReq(r) PROVE ReadInv'
  <2>1. r \in [addr : Nat, words : Nat \ {0}] /\ r \in Requests
    BY <1>2, <1>a
  <2>2. WordsAsked(r) \in Seq(Nat)
    <3>1. \A i \in 1 .. r.words : BusAddr(r.addr + i - 1) \in Nat
      <4> TAKE i \in 1 .. r.words
      <4>1. r.addr + i - 1 \in Nat
        BY <2>1
      <4> QED  BY <4>1, BusTypes
    <3>2. WordsAsked(r) \in [1 .. r.words -> Nat] /\ r.words \in Nat
      BY <3>1, <2>1 DEF WordsAsked
    <3> QED  BY <3>2, SeqDef
  <2>3. asked' \in Seq(Nat)
    BY <1>1, <1>2, <2>2, ConcatProperties DEF dmaReadReq, AskTypeOK, Words
  <2>4. dmaReadReqQ' \in Seq(Requests)
    BY <1>1, <1>2, SeqTypes DEF dmaReadReq, AskTypeOK
  <2>5. requests' \in 0 .. MaxRequests
    BY <1>1, <1>2, ReadAssumption DEF dmaReadReq, AskTypeOK
  <2>6. AskTypeOK'
    BY <1>1, <1>2, <2>3, <2>4, <2>5 DEF dmaReadReq, AskTypeOK, Words, splitVars, outVars
  <2> QED  BY <1>1, <1>2, <2>6, Frames DEF dmaReadReq, ReadInv, outVars
<1>3. ASSUME splitDmaReadReq PROVE ReadInv'
  <2>1. Head(dmaReadReqQ) \in Requests /\ dmaReadReqQ' \in Seq(Requests)
    BY <1>1, <1>3, SeqTypes DEF splitDmaReadReq, AskTypeOK
  <2>2. splitting' \in [addr : Nat, words : Nat]
    BY <2>1, <1>3, <1>a DEF splitDmaReadReq
  <2>3. AskTypeOK'
    BY <1>1, <1>3, <2>1, <2>2 DEF splitDmaReadReq, AskTypeOK, outVars
  <2> QED  BY <1>1, <1>3, <2>3, Frames DEF splitDmaReadReq, ReadInv, outVars
<1>4. ASSUME splitDmaReadReq2 PROVE ReadInv'
  <2> DEFINE n == BurstLen(splitting)
             t == Head(freeReadTagQ)
             page == [off |-> splitting.addr % PageWords, words |-> n, tag |-> t]
  <2>0. MaxBurst \in Nat
    BY ReadAssumption
  <2>1. splitting \in [addr : Nat, words : Nat] /\ splitting.words > 0
    BY <1>1, <1>4 DEF splitDmaReadReq2, AskTypeOK
  <2>2. n \in 1 .. MaxBurst /\ n <= splitting.words
    BY <2>1, BurstLenType
  <2>3. BusPage(splitting.addr) \in Nat /\ splitting.addr % PageWords \in 0 .. PageWords - 1
    BY <2>1, BusTypes
  <2>4. t \in Tags /\ freeReadTagQ' \in Seq(Tags)
    BY <1>1, <1>4, SeqTypes DEF splitDmaReadReq2, AskTypeOK
  <2> HIDE DEF n, t
  <2>5. /\ splitting' = [addr |-> splitting.addr + n, words |-> splitting.words - n]
        /\ dmaPageReadReqQ' = Append(dmaPageReadReqQ, page)
        /\ tagMap' = [tagMap EXCEPT ![t] = [req |-> n, done |-> 0]]
        /\ bufidxQ' = Append(bufidxQ, BusPage(splitting.addr))
    BY <1>4 DEF splitDmaReadReq2, n, t
  <2>6. splitting' \in [addr : Nat, words : Nat]
    BY <2>0, <2>1, <2>2, <2>5
  <2>7. page \in [off : 0 .. PageWords - 1, words : Lengths, tag : Tags]
    BY <2>0, <2>2, <2>3, <2>4 DEF Lengths
  <2>8. dmaPageReadReqQ' \in Seq([off : 0 .. PageWords - 1, words : Lengths, tag : Tags])
    BY <1>1, <2>5, <2>7, SeqTypes DEF AskTypeOK
  <2>9. bufidxQ' \in Seq(Nat)
    BY <1>1, <2>3, <2>5, SeqTypes DEF AskTypeOK
  <2>10. AskTypeOK'
    BY <1>1, <1>4, <2>4, <2>6, <2>8, <2>9 DEF splitDmaReadReq2, AskTypeOK, askVars, outVars
  <2>11. JoinInv'
    <3>1. [req |-> n, done |-> 0] \in [req : Lengths, done : Lengths]
      BY <2>0, <2>2 DEF Lengths
    <3>2. tagMap' \in [Tags -> [req : Lengths, done : Lengths]]
      BY <1>1, <2>5, <3>1 DEF JoinInv, JoinTypeOK
    <3>3. \A u \in Tags : tagMap'[u].done <= tagMap'[u].req
      BY <1>1, <2>2, <2>5 DEF JoinInv, JoinTypeOK, Joined
    <3> QED  BY <1>1, <1>4, <3>2, <3>3 DEF splitDmaReadReq2, JoinInv, JoinTypeOK, Joined, joinVars
  <2> QED  BY <1>1, <1>4, <2>10, <2>11, Frames DEF splitDmaReadReq2, ReadInv, outVars
<1>5. ASSUME relayBufIdxRead PROVE ReadInv'
  <2>1. bufidxQ' \in Seq(Nat) /\ dmaReadBufAddrQ' \in Seq(Nat)
    BY <1>1, <1>5, SeqTypes DEF relayBufIdxRead, AskTypeOK
  <2>2. AskTypeOK'
    BY <1>1, <1>5, <2>1 DEF relayBufIdxRead, AskTypeOK, askVars, outVars
  <2> QED  BY <1>1, <1>5, <2>2, Frames DEF relayBufIdxRead, ReadInv, outVars
<1>6. ASSUME generateDmaReadTLP PROVE ReadInv'
  <2> DEFINE req == Head(dmaPageReadReqQ)
             bus == Head(dmaReadBufAddrQ)
             r == [tag |-> req.tag, words |-> req.words, bus |-> bus * PageWords + req.off]
  <2>1. /\ req \in [off : 0 .. PageWords - 1, words : Lengths, tag : Tags]
        /\ dmaPageReadReqQ' \in Seq([off : 0 .. PageWords - 1, words : Lengths, tag : Tags])
        /\ bus \in Nat /\ dmaReadBufAddrQ' \in Seq(Nat)
    BY <1>1, <1>6, SeqTypes DEF generateDmaReadTLP, AskTypeOK
  <2> HIDE DEF req, bus
  <2>2. bus * PageWords + req.off \in Nat
    <3>1. PageWords \in Nat /\ bus \in Nat
      BY <2>1, ReadAssumption
    <3>2. bus * PageWords \in Nat
      BY <3>1
    <3>3. req.off \in Nat
      BY <2>1, <3>1
    <3> HIDE DEF r
    <3> QED  BY <3>2, <3>3
  <2>3. r \in Burst
    BY <2>1, <2>2 DEF Burst
  <2> HIDE DEF r
  <2>4. reads' = reads \cup {r} /\ dmaReadTagOrderQ' = Append(dmaReadTagOrderQ, req.tag)
    BY <1>6 DEF generateDmaReadTLP, req, bus, r
  <2>5. LinkTypeOK'
    BY <1>1, <1>6, <2>3, <2>4 DEF generateDmaReadTLP, LinkTypeOK
  <2>6. dmaReadTagOrderQ' \in Seq(Tags)
    BY <1>1, <2>1, <2>4, SeqTypes DEF OrderTypeOK
  <2>7. OrderTypeOK'
    BY <1>1, <1>6, <2>6 DEF generateDmaReadTLP, OrderTypeOK, doneVars, orderVars
  <2>8. AskTypeOK'
    BY <1>1, <1>6, <2>1 DEF generateDmaReadTLP, AskTypeOK, askVars, outVars
  <2> QED  BY <1>1, <1>6, <2>5, <2>7, <2>8, Frames DEF generateDmaReadTLP, ReadInv, outVars
<1> QED  BY <1>2, <1>3, <1>4, <1>5, <1>6

(* The root complex answers, and the answers leave the link.               *)
LEMMA LinkSteps ==
  ASSUME ReadInv,
         \/ \E t \in Tags : RootComplex(t)
         \/ filterStatReadTLP \/ procCompletionTLP
  PROVE  ReadInv'
<1>1. AskTypeOK /\ LinkTypeOK /\ JoinInv /\ OrderTypeOK /\ OutInv
  BY DEF ReadInv
<1>2. ASSUME NEW t \in Tags, RootComplex(t) PROVE ReadInv'
  <2>1. PICK r \in reads, n \in 1 .. MaxBurst :
          /\ r.tag = t /\ n <= r.words
          /\ tlpQ' = tlpQ \o <<[head |-> TRUE, tag |-> t, val |-> n]>>
                          \o [i \in 1 .. n |-> [head |-> FALSE, tag |-> t,
                                                val |-> r.bus + i - 1]]
          /\ reads' = (reads \ {r}) \cup
               (IF n = r.words THEN {}
                ELSE {[tag |-> t, words |-> r.words - n, bus |-> r.bus + n]})
    BY <1>2 DEF RootComplex
  <2>2. /\ MaxBurst \in Nat /\ n \in Nat /\ r.bus \in Nat /\ r.words \in 0 .. MaxBurst
    BY <1>1, <2>1, ReadAssumption DEF LinkTypeOK, Burst, Lengths
  <2>3. reads' \subseteq Burst
    <3>1. n # r.words => [tag |-> t, words |-> r.words - n, bus |-> r.bus + n] \in Burst
      BY <2>1, <2>2 DEF Burst, Lengths
    <3> QED  BY <1>1, <2>1, <3>1 DEF LinkTypeOK
  <2> DEFINE head == [head |-> TRUE, tag |-> t, val |-> n]
             data == [i \in 1 .. n |-> [head |-> FALSE, tag |-> t, val |-> r.bus + i - 1]]
  <2>4. <<head>> \in Seq(Beat)
    BY <2>2 DEF Beat
  <2>5. data \in Seq(Beat)
    <3>1. \A i \in 1 .. n : r.bus + i - 1 \in Nat
      BY <2>2
    <3>2. data \in [1 .. n -> Beat]
      BY <3>1 DEF Beat
    <3> QED  BY <2>2, <3>2, SeqDef
  <2> HIDE DEF head, data
  <2>6. tlpQ' \in Seq(Beat)
    <3>1. tlpQ' = (tlpQ \o <<head>>) \o data
      BY <2>1 DEF head, data
    <3> QED  BY <1>1, <2>4, <2>5, <3>1, ConcatProperties DEF LinkTypeOK
  <2>7. LinkTypeOK'
    BY <1>1, <1>2, <2>3, <2>6 DEF RootComplex, LinkTypeOK
  <2> QED  BY <1>1, <1>2, <2>7, Frames DEF RootComplex, ReadInv, outVars
<1>3. ASSUME filterStatReadTLP PROVE ReadInv'
  <2>1. Head(tlpQ) \in Beat /\ tlpQ' \in Seq(Beat)
    BY <1>1, <1>3, SeqTypes DEF filterStatReadTLP, LinkTypeOK
  <2>2. [tag |-> Head(tlpQ).tag, words |-> Head(tlpQ).val] \in [tag : Tags, words : Nat]
    BY <2>1 DEF Beat
  <2>3. readBurstQ' \in Seq([tag : Tags, words : Nat])
    BY <1>1, <1>3, <2>2, SeqTypes DEF filterStatReadTLP, LinkTypeOK
  <2>4. completionRecv' \in [tag : Tags \cup {NoTag}, words : Nat]
    BY <1>3, <2>2 DEF filterStatReadTLP
  <2>5. LinkTypeOK'
    BY <1>1, <1>3, <2>1, <2>3, <2>4 DEF filterStatReadTLP, LinkTypeOK
  <2> QED  BY <1>1, <1>3, <2>5, Frames DEF filterStatReadTLP, ReadInv, outVars
<1>4. ASSUME procCompletionTLP PROVE ReadInv'
  <2>1. Head(tlpQ) \in Beat /\ tlpQ' \in Seq(Beat)
    BY <1>1, <1>4, SeqTypes DEF procCompletionTLP, LinkTypeOK
  <2>2. dmaReadWordQ' \in Seq(Words)
    <3>1. Head(tlpQ).val \in Words
      BY <2>1 DEF Beat, Words
    <3> QED  BY <1>1, <1>4, <3>1, SeqTypes DEF procCompletionTLP, LinkTypeOK
  <2>3. completionRecv' \in [tag : Tags \cup {NoTag}, words : Nat]
    <3>1. /\ completionRecv.words \in Nat /\ completionRecv.words > 0
          /\ completionRecv \in [tag : Tags \cup {NoTag}, words : Nat]
          /\ completionRecv' = [completionRecv EXCEPT !.words = completionRecv.words - 1]
      BY <1>1, <1>4 DEF procCompletionTLP, LinkTypeOK
    <3>2. completionRecv.words - 1 \in Nat
      BY <3>1
    <3> QED  BY <3>1, <3>2
  <2>4. LinkTypeOK'
    BY <1>1, <1>4, <2>1, <2>2, <2>3 DEF procCompletionTLP, LinkTypeOK
  <2> QED  BY <1>1, <1>4, <2>4, Frames DEF procCompletionTLP, ReadInv, outVars
<1> QED  BY <1>2, <1>3, <1>4

(* Pieces are joined.                                                      *)
LEMMA JoinSteps ==
  ASSUME ReadInv, updateReadBurst1 \/ updateReadBurst2 \/ writeReadBuffer
  PROVE  ReadInv'
<1>1. AskTypeOK /\ LinkTypeOK /\ JoinInv /\ OrderTypeOK /\ OutInv
  BY DEF ReadInv
<1>0. MaxBurst \in Nat
  BY ReadAssumption
<1>2. ASSUME updateReadBurst1 PROVE ReadInv'
  <2> DEFINE b == Head(readBurstQ)
             u == [tag |-> b.tag, words |-> b.words,
                   req |-> tagMap[b.tag].req, done |-> tagMap[b.tag].done]
  <2>1. b \in [tag : Tags, words : Nat] /\ readBurstQ' \in Seq([tag : Tags, words : Nat])
    BY <1>1, <1>2, SeqTypes DEF updateReadBurst1, LinkTypeOK
  <2>2. tagMap[b.tag] \in [req : Lengths, done : Lengths] /\ tagMap[b.tag].done <= tagMap[b.tag].req
    BY <1>1, <2>1 DEF JoinInv, JoinTypeOK, Joined
  <2>3. u \in Upd /\ u \in [tag : Tags, words : Nat, req : Lengths, done : Lengths]
    BY <2>1, <2>2 DEF Upd
  <2> HIDE DEF u
  <2>4. burstUpdReqQ' = Append(burstUpdReqQ, u) /\ readCompletionsb' = Append(readCompletionsb, b.tag)
    BY <1>2 DEF updateReadBurst1, u
  <2>5. /\ burstUpdReqQ' \in Seq(Upd)
        /\ burstUpdReqQ' \in Seq([tag : Tags, words : Nat, req : Lengths, done : Lengths])
        /\ readCompletionsb' \in Seq(Tags)
    BY <1>1, <2>1, <2>3, <2>4, SeqTypes DEF JoinInv, JoinTypeOK, Joined
  <2>8. Len(readCompletionsb') = Len(burstUpdReqQ')
    BY <1>1, <2>1, <2>3, <2>4, AppendProperties DEF JoinInv, JoinTypeOK, Joined
  <2>6. JoinInv'
    BY <1>1, <1>2, <2>5, <2>8 DEF updateReadBurst1, JoinInv, JoinTypeOK, Joined
  <2>7. LinkTypeOK'
    BY <1>1, <1>2, <2>1 DEF updateReadBurst1, LinkTypeOK
  <2> QED  BY <1>1, <1>2, <2>6, <2>7, Frames DEF updateReadBurst1, ReadInv, outVars
<1>3. ASSUME updateReadBurst2 PROVE ReadInv'
  <2> DEFINE u == Head(burstUpdReqQ)
             n == Least(u.words, u.req - u.done)
  <2>1. /\ u \in Upd /\ burstUpdReqQ' \in Seq(Upd)
        /\ burstUpdReqQ' \in Seq([tag : Tags, words : Nat, req : Lengths, done : Lengths])
    BY <1>1, <1>3, SeqTypes DEF updateReadBurst2, JoinInv, JoinTypeOK, Joined
  <2>2. readCompletionsb' \in Seq(Tags) /\ Len(readCompletionsb') = Len(burstUpdReqQ')
    <3>1. /\ readCompletionsb \in Seq(Tags) /\ burstUpdReqQ \in Seq(Upd)
          /\ Len(readCompletionsb) = Len(burstUpdReqQ) /\ burstUpdReqQ # <<>>
          /\ readCompletionsb' = Tail(readCompletionsb)
          /\ burstUpdReqQ' = Tail(burstUpdReqQ)
      BY <1>1, <1>3 DEF updateReadBurst2, Unscored, JoinInv, JoinTypeOK, Joined
    <3>2. readCompletionsb # <<>>
      BY <3>1, EmptySeq, LenProperties
    <3> QED  BY <3>1, <3>2, HeadTailProperties
  <2>3. /\ u.tag \in Tags /\ u.words \in Nat /\ u.req \in 0 .. MaxBurst /\ u.done \in 0 .. MaxBurst
        /\ u.done <= u.req
    BY <2>1 DEF Upd, Lengths
  <2> HIDE DEF u
  <2>4. n \in 0 .. MaxBurst /\ u.done + n <= u.req
    BY <1>0, <2>3 DEF Least
  <2> HIDE DEF n
  <2>5. /\ tagWordsLeft' = [tag |-> u.tag, off |-> u.done, words |-> n, ioff |-> 0, req |-> u.req]
        /\ tagMap' = [tagMap EXCEPT ![u.tag] = [req |-> u.req, done |-> u.done + n]]
        /\ UNCHANGED readReorder
    BY <1>3 DEF updateReadBurst2, u, n
  <2>6. u.done + n \in 0 .. MaxBurst
    BY <1>0, <2>3, <2>4
  <2>7. /\ tagMap' \in [Tags -> [req : Lengths, done : Lengths]]
        /\ \A t \in Tags : tagMap'[t].done <= tagMap'[t].req
    <3>1. [req |-> u.req, done |-> u.done + n] \in [req : Lengths, done : Lengths]
      BY <2>3, <2>6 DEF Lengths
    <3> QED  BY <1>1, <2>4, <2>5, <3>1 DEF JoinInv, JoinTypeOK, Joined
  <2>8. /\ tagWordsLeft' \in [tag : Tags \cup {NoTag}, off : Lengths, words : Lengths,
                              ioff : Lengths, req : Lengths]
        /\ tagWordsLeft'.tag \in Tags
        /\ tagWordsLeft'.off + tagWordsLeft'.ioff + tagWordsLeft'.words <= tagWordsLeft'.req
    BY <1>0, <2>3, <2>4, <2>5 DEF Lengths
  <2>9. JoinInv'
    BY <1>1, <2>1, <2>2, <2>5, <2>7, <2>8 DEF JoinInv, JoinTypeOK, Joined
  <2> QED  BY <1>1, <1>3, <2>9, Frames DEF updateReadBurst2, ReadInv, outVars
<1>4. ASSUME writeReadBuffer PROVE ReadInv'
  <2> DEFINE c == tagWordsLeft
             at == c.off + c.ioff
  <2>1. /\ c.tag \in Tags
        /\ c.off \in 0 .. MaxBurst /\ c.words \in 1 .. MaxBurst /\ c.ioff \in 0 .. MaxBurst
        /\ c.req \in 0 .. MaxBurst
        /\ c.off + c.ioff + c.words <= c.req
    BY <1>0, <1>1, <1>4 DEF writeReadBuffer, JoinInv, JoinTypeOK, Joined, Lengths
  <2>2. Head(dmaReadWordQ) \in Words /\ dmaReadWordQ' \in Seq(Words)
    BY <1>1, <1>4, SeqTypes DEF writeReadBuffer, LinkTypeOK
  <2>3. at + 1 \in 1 .. MaxBurst
    BY <1>0, <2>1
  <2>4. readDoneTagQ' \in Seq([tag : Tags, words : Lengths])
    <3>0. at + 1 \in Lengths
      BY <1>0, <2>3 DEF Lengths
    <3> HIDE DEF at
    <3>1. [tag |-> c.tag, words |-> at + 1] \in [tag : Tags, words : Lengths]
      BY <2>1, <3>0
    <3>2. \/ readDoneTagQ' = Append(readDoneTagQ, [tag |-> c.tag, words |-> at + 1])
          \/ UNCHANGED readDoneTagQ
      BY <1>4 DEF writeReadBuffer, at
    <3>3. readDoneTagQ \in Seq([tag : Tags, words : Lengths])
      BY <1>1 DEF OrderTypeOK
    <3> HIDE DEF c
    <3>4. Append(readDoneTagQ, [tag |-> c.tag, words |-> at + 1])
            \in Seq([tag : Tags, words : Lengths])
      BY <3>1, <3>3, SeqTypes
    <3> QED  BY <3>2, <3>3, <3>4
  <2>5. OrderTypeOK'
    BY <1>1, <1>4, <2>4 DEF writeReadBuffer, OrderTypeOK, orderVars
  <2>6. /\ tagWordsLeft' = [tag |-> c.tag, off |-> c.off, words |-> c.words - 1,
                            ioff |-> c.ioff + 1, req |-> c.req]
    BY <1>1, <1>4 DEF writeReadBuffer, JoinInv, JoinTypeOK
  <2>7. /\ tagWordsLeft' \in [tag : Tags \cup {NoTag}, off : Lengths, words : Lengths,
                              ioff : Lengths, req : Lengths]
        /\ tagWordsLeft'.tag \in Tags
        /\ tagWordsLeft'.off + tagWordsLeft'.ioff + tagWordsLeft'.words <= tagWordsLeft'.req
    BY <1>0, <2>1, <2>6 DEF Lengths
  <2>8. readReorder' \in [Tags -> [0 .. MaxBurst - 1 -> Words]]
    <3>1. readReorder' = [readReorder EXCEPT ![c.tag] =
                            [readReorder[c.tag] EXCEPT ![at] = Head(dmaReadWordQ)]]
      BY <1>4 DEF writeReadBuffer
    <3>2. readReorder[c.tag] \in [0 .. MaxBurst - 1 -> Words]
      BY <1>1, <2>1 DEF JoinInv, JoinTypeOK
    <3> HIDE DEF at
    <3>3. [readReorder[c.tag] EXCEPT ![at] = Head(dmaReadWordQ)] \in [0 .. MaxBurst - 1 -> Words]
      BY <2>2, <3>2
    <3> QED  BY <1>1, <3>1, <3>3 DEF JoinInv, JoinTypeOK
  <2>9. JoinInv'
    BY <1>1, <1>4, <2>7, <2>8 DEF writeReadBuffer, JoinInv, JoinTypeOK, Joined
  <2>10. LinkTypeOK'
    BY <1>1, <1>4, <2>2 DEF writeReadBuffer, LinkTypeOK
  <2> QED  BY <1>1, <1>4, <2>5, <2>9, <2>10, Frames DEF writeReadBuffer, ReadInv, outVars
<1> QED  BY <1>2, <1>3, <1>4

(* Bursts are put in order.                                                *)
LEMMA OrderSteps ==
  ASSUME ReadInv,
         applyDoneMap \/ procDoneShift \/ shiftOrder \/ compareOrder \/ reqDoneTag
  PROVE  ReadInv'
<1>1. AskTypeOK /\ LinkTypeOK /\ JoinInv /\ OrderTypeOK /\ OutInv
  BY DEF ReadInv
<1>2. ASSUME applyDoneMap PROVE ReadInv'
  <2>1. /\ Head(readDoneTagQ) \in [tag : Tags, words : Lengths]
        /\ readDoneTagQ' \in Seq([tag : Tags, words : Lengths])
    BY <1>1, <1>2, SeqTypes DEF applyDoneMap, OrderTypeOK
  <2>2. doneShifter' \in Seq(Tags)
    BY <1>1, <1>2, <2>1, SeqTypes DEF applyDoneMap, OrderTypeOK
  <2>3. doneMap' \in [Tags -> Lengths]
    BY <1>1, <1>2, <2>1 DEF applyDoneMap, OrderTypeOK
  <2>4. OrderTypeOK'
    BY <1>1, <1>2, <2>1, <2>2, <2>3 DEF applyDoneMap, OrderTypeOK, orderVars
  <2> QED  BY <1>1, <1>2, <2>4, Frames DEF applyDoneMap, ReadInv, outVars
<1>3. ASSUME procDoneShift PROVE ReadInv'
  <2>1. doneShifter' \in Seq(Tags)
    BY <1>1, <1>3, SeqTypes DEF procDoneShift, OrderTypeOK
  <2>2. doneTagMap' \in [Tags -> BOOLEAN]
    BY <1>1, <1>3 DEF procDoneShift, OrderTypeOK
  <2>3. OrderTypeOK'
    BY <1>1, <1>3, <2>1, <2>2 DEF procDoneShift, OrderTypeOK, orderVars
  <2> QED  BY <1>1, <1>3, <2>3, Frames DEF procDoneShift, ReadInv, outVars
<1>4. ASSUME shiftOrder PROVE ReadInv'
  <2>1. Head(dmaReadTagOrderQ) \in Tags /\ dmaReadTagOrderQ' \in Seq(Tags)
    BY <1>1, <1>4, SeqTypes DEF shiftOrder, OrderTypeOK
  <2>2. orderShifter' \in Seq(Tags)
    BY <1>1, <1>4, <2>1, SeqTypes DEF shiftOrder, OrderTypeOK
  <2>3. OrderTypeOK'
    BY <1>1, <1>4, <2>1, <2>2 DEF shiftOrder, OrderTypeOK, doneVars
  <2> QED  BY <1>1, <1>4, <2>3, Frames DEF shiftOrder, ReadInv, outVars
<1>5. ASSUME compareOrder PROVE ReadInv'
  <2> DEFINE t == IF curOrderTag # NoTag THEN curOrderTag ELSE Head(orderShifter)
  <2>1. Head(orderShifter) \in Tags /\ Tail(orderShifter) \in Seq(Tags)
    BY <1>1, <1>5, SeqTypes DEF compareOrder, OrderTypeOK
  <2>2. t \in Tags
    BY <1>1, <2>1 DEF OrderTypeOK
  <2> HIDE DEF t
  <2>3. \/ /\ orderTagMap' = Turned(t)
           /\ curOrderTag' = NoTag
           /\ doneReorderedTagQ' = Append(doneReorderedTagQ, Head(orderShifter))
           /\ orderShifter' = Tail(orderShifter)
        \/ /\ curOrderTag' = t
           /\ UNCHANGED <<orderTagMap, doneReorderedTagQ, orderShifter>>
    BY <1>5 DEF compareOrder, t
  <2>4. Turned(t) \in [Tags -> BOOLEAN]
    BY <1>1 DEF OrderTypeOK, Turned
  <2>5. Append(doneReorderedTagQ, Head(orderShifter)) \in Seq(Tags)
    BY <1>1, <2>1, SeqTypes DEF OrderTypeOK
  <2>6. /\ orderTagMap' \in [Tags -> BOOLEAN] /\ curOrderTag' \in Tags \cup {NoTag}
        /\ doneReorderedTagQ' \in Seq(Tags) /\ orderShifter' \in Seq(Tags)
    BY <1>1, <2>1, <2>2, <2>3, <2>4, <2>5 DEF OrderTypeOK
  <2>7. OrderTypeOK'
    BY <1>1, <1>5, <2>6 DEF compareOrder, OrderTypeOK, doneVars
  <2> QED  BY <1>1, <1>5, <2>7, Frames DEF compareOrder, ReadInv, outVars
<1>6. ASSUME reqDoneTag PROVE ReadInv'
  <2>1. Head(doneReorderedTagQ) \in Tags /\ doneReorderedTagQ' \in Seq(Tags)
    BY <1>1, <1>6, SeqTypes DEF reqDoneTag, OrderTypeOK
  <2>2. [tag |-> Head(doneReorderedTagQ), words |-> doneMap[Head(doneReorderedTagQ)]]
          \in [tag : Tags, words : Lengths]
    BY <1>1, <2>1 DEF OrderTypeOK
  <2>3. orderedReadDoneTagQ' \in Seq([tag : Tags, words : Lengths])
    BY <1>1, <1>6, <2>2, SeqTypes DEF reqDoneTag, OrderTypeOK
  <2>4. OrderTypeOK'
    BY <1>1, <1>6, <2>1, <2>3 DEF reqDoneTag, OrderTypeOK, doneVars
  <2> QED  BY <1>1, <1>6, <2>4, Frames DEF reqDoneTag, ReadInv, outVars
<1> QED  BY <1>2, <1>3, <1>4, <1>5, <1>6

(* One more word up, one more word down: the difference of the two         *)
(* wrapping counters follows the length of the queue.                      *)
LEMMA CounterSteps ==
  ASSUME NEW u \in 0 .. CntMod - 1, NEW d \in 0 .. CntMod - 1
  PROVE  /\ Next8(u) \in 0 .. CntMod - 1
         /\ Minus8(u, d) \in 0 .. CntMod - 1
         /\ Minus8(u, d) + 1 < CntMod => Minus8(Next8(u), d) = Minus8(u, d) + 1
         /\ Minus8(u, d) > 0 => Minus8(u, Next8(d)) = Minus8(u, d) - 1
<1>1. CntMod \in Nat /\ CntMod > 0
  BY ReadAssumption
<1> QED  BY <1>1 DEF Next8, Minus8

(* The capacity of dmaReadOutQ, its credit limit and the counters' width.  *)
LEMMA Capacity ==
  /\ MaxBurst \in Nat \ {0} /\ CntMod \in Nat
  /\ OutBursts * MaxBurst \in Nat /\ CntMod > OutBursts * MaxBurst
  /\ (OutBursts - 1) * MaxBurst + MaxBurst = OutBursts * MaxBurst
<1>1. /\ MaxBurst \in Nat \ {0} /\ OutBursts \in Nat /\ CntMod \in Nat
      /\ CntMod > OutBursts * MaxBurst
  BY ReadAssumption
<1> QED  BY <1>1

(* Words are asked from readReorder and handed over.                       *)
LEMMA OutSteps ==
  ASSUME ReadInv, flushReadTag \/ dmaReadWord \/ relayFreeReadTag
  PROVE  ReadInv'
<1>1. AskTypeOK /\ LinkTypeOK /\ JoinInv /\ OrderTypeOK /\ OutInv
  BY DEF ReadInv
<1> DEFINE cap == OutBursts * MaxBurst
           len == Len(dmaReadOutQ)
<1>2. /\ MaxBurst \in Nat \ {0} /\ CntMod \in Nat /\ cap \in Nat /\ CntMod > cap
      /\ (OutBursts - 1) * MaxBurst + MaxBurst = cap
  BY Capacity
<1>3. /\ dmaReadOutQ \in Seq(Words) /\ len \in Nat
      /\ dmaReadOutCntUp \in 0 .. CntMod - 1 /\ dmaReadOutCntDn \in 0 .. CntMod - 1
      /\ readFlushTag.left \in 0 .. MaxBurst - 1 /\ readFlushTag.words \in 0 .. MaxBurst
      /\ Minus8(dmaReadOutCntUp, dmaReadOutCntDn) = len
      /\ len + readFlushTag.left <= cap
  BY <1>1, <1>2, LenProperties
  DEF OutInv, OutTypeOK, Flushing, Counted, OutputFits, Lengths
<1>4. ASSUME NEW w \in Words, NEW left \in 0 .. MaxBurst - 1, len + 1 + left <= cap,
             NEW f \in [tag : Tags \cup {NoTag}, words : Lengths, left : 0 .. MaxBurst - 1],
             f.left = left, left > 0 => f.tag \in Tags /\ left < f.words,
             dmaReadOutQ' = Append(dmaReadOutQ, w), readFlushTag' = f,
             dmaReadOutCntUp' = Next8(dmaReadOutCntUp), UNCHANGED dmaReadOutCntDn
      PROVE  OutInv'
  <2>1. dmaReadOutQ' \in Seq(Words) /\ Len(dmaReadOutQ') = len + 1
    BY <1>3, <1>4, AppendProperties
  <2> HIDE DEF cap, len
  <2>2. len + 1 < CntMod
    BY <1>2, <1>3, <1>4
  <2>3. /\ dmaReadOutCntUp' \in 0 .. CntMod - 1
        /\ Minus8(dmaReadOutCntUp', dmaReadOutCntDn') = len + 1
    BY <1>3, <1>4, <2>2, CounterSteps
  <2>4. OutTypeOK'
    BY <1>3, <1>4, <2>1, <2>3 DEF OutTypeOK
  <2>5. Flushing'
    BY <1>4 DEF Flushing
  <2>6. Counted' /\ OutputFits'
    BY <1>4, <2>1, <2>3 DEF Counted, OutputFits, cap
  <2> QED  BY <2>4, <2>5, <2>6 DEF OutInv
<1>5. ASSUME NEW t \in Tags, NEW i \in 0 .. MaxBurst - 1 PROVE readReorder[t][i] \in Words
  BY <1>1, <1>5 DEF JoinInv, JoinTypeOK
<1>6. ASSUME flushReadTag!1 PROVE ReadInv'
  <2> DEFINE r == Head(orderedReadDoneTagQ)
             left == IF r.words > 1 THEN r.words - 1 ELSE 0
             f == [tag |-> r.tag, words |-> r.words, left |-> left]
  <2>1. /\ r \in [tag : Tags, words : Lengths]
        /\ orderedReadDoneTagQ' \in Seq([tag : Tags, words : Lengths])
    BY <1>1, <1>6, SeqTypes DEF OrderTypeOK
  <2>2. r.tag \in Tags /\ r.words \in Lengths /\ r.words \in 0 .. MaxBurst
    BY <2>1 DEF Lengths
  <2>3. freeReadTagFQ' \in Seq(Tags)
    BY <1>1, <1>6, <2>2, SeqTypes DEF AskTypeOK
  <2>4. /\ dmaReadOutQ' = Append(dmaReadOutQ, readReorder[r.tag][0]) /\ readFlushTag' = f
        /\ dmaReadOutCntUp' = Next8(dmaReadOutCntUp) /\ UNCHANGED dmaReadOutCntDn
    BY <1>6
  <2> HIDE DEF r
  <2>5. /\ left \in 0 .. MaxBurst - 1
        /\ left > 0 => left < r.words
    BY <1>2, <2>2
  <2>6. readReorder[r.tag][0] \in Words
    <3>1. 0 \in 0 .. MaxBurst - 1
      BY <1>2
    <3> QED  BY <1>5, <2>2, <3>1
  <2>7. len + 1 + left <= cap
    <3>1. len < (OutBursts - 1) * MaxBurst
      BY <1>3, <1>6 DEF RoomForBurst
    <3>2. (OutBursts - 1) * MaxBurst \in Int
      BY ReadAssumption
    <3> DEFINE limit == (OutBursts - 1) * MaxBurst
    <3> HIDE DEF cap, len, left, limit
    <3>3. len < limit /\ limit \in Int /\ limit + MaxBurst = cap
      BY <1>2, <3>1, <3>2 DEF limit
    <3> QED  BY <1>2, <1>3, <2>5, <3>3
  <2>8. f \in [tag : Tags \cup {NoTag}, words : Lengths, left : 0 .. MaxBurst - 1]
    <3> HIDE DEF left
    <3> QED  BY <2>2, <2>5
  <2>9. f.left = left /\ f.tag = r.tag /\ f.words = r.words
    OBVIOUS
  <2> HIDE DEF f, left, cap, len
  <2>10. OutInv'
    BY <1>4, <2>2, <2>4, <2>5, <2>6, <2>7, <2>8, <2>9
  <2>11. OrderTypeOK'
    BY <1>1, <1>6, <2>1 DEF OrderTypeOK, doneVars
  <2>12. AskTypeOK'
    BY <1>1, <1>6, <2>3 DEF AskTypeOK, askVars, splitVars
  <2> QED  BY <1>1, <1>6, <2>10, <2>11, <2>12, Frames DEF ReadInv
<1>7. ASSUME flushReadTag!2 PROVE ReadInv'
  <2> DEFINE f == readFlushTag
             g == [tag |-> f.tag, words |-> f.words, left |-> f.left - 1]
  <2>1. /\ f.left > 0 /\ f.tag \in Tags /\ f.left < f.words
        /\ f \in [tag : Tags \cup {NoTag}, words : Lengths, left : 0 .. MaxBurst - 1]
    BY <1>1, <1>7 DEF OutInv, OutTypeOK, Flushing
  <2>2. /\ f.words - f.left \in 0 .. MaxBurst - 1
        /\ f.left - 1 \in 0 .. MaxBurst - 1
        /\ f.words \in Lengths /\ f.left - 1 < f.words
    BY <1>2, <1>3, <2>1 DEF Lengths
  <2>3. readReorder[f.tag][f.words - f.left] \in Words
    BY <1>5, <2>1, <2>2
  <2>4. /\ dmaReadOutQ' = Append(dmaReadOutQ, readReorder[f.tag][f.words - f.left])
        /\ readFlushTag' = g
        /\ dmaReadOutCntUp' = Next8(dmaReadOutCntUp) /\ UNCHANGED dmaReadOutCntDn
    BY <1>7, <2>1
  <2>5. g \in [tag : Tags \cup {NoTag}, words : Lengths, left : 0 .. MaxBurst - 1]
    BY <2>1, <2>2
  <2>6. g.left = f.left - 1 /\ g.tag = f.tag /\ g.words = f.words
    OBVIOUS
  <2>7. len + 1 + (f.left - 1) <= cap
    <3> HIDE DEF cap, len
    <3> QED  BY <1>2, <1>3
  <2> HIDE DEF g, cap, len
  <2>8. OutInv'
    BY <1>4, <2>1, <2>2, <2>3, <2>4, <2>5, <2>6, <2>7
  <2> QED  BY <1>1, <1>7, <2>8, Frames DEF ReadInv
<1>8. ASSUME dmaReadWord PROVE ReadInv'
  <2>1. /\ Head(dmaReadOutQ) \in Words /\ dmaReadOutQ' \in Seq(Words)
        /\ Len(dmaReadOutQ') = len - 1 /\ len > 0
    BY <1>3, <1>8, HeadTailProperties, EmptySeq, LenProperties DEF dmaReadWord
  <2>2. delivered' \in Seq(Words)
    BY <1>1, <1>8, <2>1, SeqTypes DEF dmaReadWord, AskTypeOK
  <2>3. /\ dmaReadOutCntDn' = Next8(dmaReadOutCntDn)
        /\ UNCHANGED <<dmaReadOutCntUp, readFlushTag>>
    BY <1>8 DEF dmaReadWord
  <2> HIDE DEF len, cap
  <2>4. /\ dmaReadOutCntDn' \in 0 .. CntMod - 1
        /\ Minus8(dmaReadOutCntUp', dmaReadOutCntDn') = len - 1
    BY <1>3, <2>1, <2>3, CounterSteps
  <2>5. OutTypeOK'
    BY <1>1, <2>1, <2>3, <2>4 DEF OutInv, OutTypeOK
  <2>6. Counted'
    BY <2>1, <2>4 DEF Counted
  <2>9. len - 1 + readFlushTag.left <= cap
    BY <1>2, <1>3
  <2>10. OutputFits'
    BY <2>1, <2>3, <2>9 DEF OutputFits, cap
  <2>7. OutInv'
    BY <1>1, <2>3, <2>5, <2>6, <2>10 DEF OutInv, Flushing
  <2>8. AskTypeOK'
    BY <1>1, <1>8, <2>2 DEF dmaReadWord, AskTypeOK, askVars, splitVars
  <2> QED  BY <1>1, <1>8, <2>7, <2>8, Frames DEF dmaReadWord, ReadInv
<1>9. ASSUME relayFreeReadTag PROVE ReadInv'
  <2>1. freeReadTagQ' \in Seq(Tags) /\ freeReadTagFQ' \in Seq(Tags)
    BY <1>1, <1>9, SeqTypes DEF relayFreeReadTag, AskTypeOK
  <2>2. AskTypeOK'
    BY <1>1, <1>9, <2>1 DEF relayFreeReadTag, AskTypeOK, askVars, splitVars, outVars
  <2> QED  BY <1>1, <1>9, <2>2, Frames DEF relayFreeReadTag, ReadInv, outVars
<1> QED  BY <1>6, <1>7, <1>8, <1>9 DEF flushReadTag

-----------------------------------------------------------------------------
(* Every step preserves the invariant.                                     *)
LEMMA ReadStep == ReadInv /\ [Next]_vars => ReadInv'
<1> SUFFICES ASSUME ReadInv, [Next]_vars PROVE ReadInv'
  OBVIOUS
<1>1. ASSUME UNCHANGED vars PROVE ReadInv'
  <2>1. UNCHANGED <<askVars, splitVars, linkVars, joinVars, doneVars, orderVars, outVars,
                    freeReadTagQ, freeReadTagFQ, tagMap, dmaReadTagOrderQ>>
    BY <1>1 DEF vars
  <2> QED  BY <2>1, Frames DEF ReadInv, outVars
<1> QED  BY <1>1, AskSteps, LinkSteps, JoinSteps, OrderSteps, OutSteps DEF Next, Rules

(* The invariant holds at the start.                                       *)
LEMMA ReadStart == Init => ReadInv
<1> SUFFICES ASSUME Init PROVE ReadInv
  OBVIOUS
<1>1. /\ MaxBurst \in Nat \ {0} /\ CntMod \in Nat /\ CntMod > OutBursts * MaxBurst
      /\ OutBursts * MaxBurst \in Nat /\ MaxRequests \in Nat
      /\ Cardinality(Tags) \in Nat
  BY Capacity, ReadAssumption, FS_CardinalityType
<1>2. freeReadTagQ \in Seq(Tags)
  <2>1. freeReadTagQ \in [1 .. Cardinality(Tags) -> Tags]
    BY DEF Init
  <2> QED  BY <1>1, <2>1, SeqDef
<1>3. AskTypeOK
  BY <1>1, <1>2 DEF Init, AskTypeOK
<1>4. LinkTypeOK
  BY <1>1 DEF Init, LinkTypeOK
<1>5. JoinInv
  <2>1. 0 \in Lengths /\ 0 \in Words
    BY <1>1 DEF Lengths, Words
  <2> QED  BY <2>1 DEF Init, JoinInv, JoinTypeOK, Joined
<1>6. OrderTypeOK
  <2>1. 0 \in Lengths
    BY <1>1 DEF Lengths
  <2> QED  BY <2>1 DEF Init, OrderTypeOK
<1>7. OutInv
  <2>1. 0 \in Lengths /\ 0 \in 0 .. MaxBurst - 1 /\ 0 \in 0 .. CntMod - 1
    BY <1>1 DEF Lengths
  <2> QED  BY <1>1, <2>1 DEF Init, OutInv, OutTypeOK, Flushing, Counted, OutputFits, Minus8
<1> QED  BY <1>3, <1>4, <1>5, <1>6, <1>7 DEF ReadInv

(* Every register, queue and memory of the DMA read engine keeps values it *)
(* can hold: no piece of a completion makes writeReadBuffer count past the *)
(* end of its burst, and no flush is longer than a burst.                  *)
THEOREM ReadTypeCorrect == Spec => []TypeOK
<1>1. ReadInv => TypeOK
  BY DEF ReadInv, JoinInv, OutInv, TypeOK
<1> QED  BY <1>1, ReadStart, ReadStep, PTL DEF Spec

(* flushReadTag never asks readReorder for more words than dmaReadOutQ has *)
(* room for, whatever the sizes and however the counters wrap.             *)
THEOREM OutputAlwaysFits == Spec => []OutputFits
<1>1. ReadInv => OutputFits
  BY DEF ReadInv, OutInv
<1> QED  BY <1>1, ReadStart, ReadStep, PTL DEF Spec

-----------------------------------------------------------------------------
(***************************************************************************)
(* The words on their way.  What has happened so far is told by a record g *)
(* of sequences that only grow: asks, the requests; bursts, what they were *)
(* cut into; pieces and words, what the root complex has answered, in the  *)
(* order of the link.  A queue holds consecutive entries of one of them,   *)
(* so that an entry put in or taken out moves a number of g and no more.   *)
(***************************************************************************)
Stages == {"idle", "wait", "done", "passing", "ready"}
AskEntry   == [addr : Nat, words : Nat \ {0}, start : Nat]
BurstEntry == [tag : Tags, base : Nat, words : 1 .. MaxBurst, start : Nat]
PieceEntry == [tag : Tags, place : Nat, words : Nat \ {0}, start : Nat]
WordEntry  == [tag : Tags, place : Nat, piece : Nat]
Ghost ==
  [asks   : Seq(AskEntry),
   taken  : Nat,                                \* asks that are being cut
   bursts : Seq(BurstEntry),
   cur    : [Tags -> Nat],                      \* the burst that has a tag
   sent   : Nat, turned : Nat, read : Nat, flushed : Nat,   \* of the bursts
   stage  : [Tags -> Stages], recv : [Tags -> Nat],
   pieces : Seq(PieceEntry),
   joined : Nat,                                \* pieces looked up in tagMap
   words  : Seq(WordEntry),
   written : Nat]                               \* words put into readReorder

(* The entries of s, laid end to end, cover 1 .. n.                        *)
End(s, i) == IF i = 0 THEN 0 ELSE s[i].start + s[i].words
Tiles(s, n) ==
  /\ End(s, Len(s)) = n
  /\ \A i \in 1 .. Len(s) : s[i].start = End(s, i - 1) /\ End(s, i) <= n
  /\ \A i, j \in 1 .. Len(s) : i < j => End(s, i) <= s[j].start

Mine(g, t) == g.bursts[g.cur[t]]

(* Requests, and what is cut of them.                                      *)
Cut(g) ==
  LET end == End(g.bursts, Len(g.bursts)) IN
  /\ Tiles(g.asks, Len(asked)) /\ Tiles(g.bursts, end)
  /\ g.taken + Len(dmaReadReqQ) = Len(g.asks)
  /\ \A i \in 1 .. Len(dmaReadReqQ) :
       LET a == g.asks[g.taken + i] IN
         /\ dmaReadReqQ[i] = [addr |-> a.addr, words |-> a.words]
         /\ \A k \in 1 .. a.words : asked[a.start + k] = BusAddr(a.addr + k - 1)
  /\ end + splitting.words = End(g.asks, g.taken)
  /\ \A k \in 1 .. splitting.words : asked[end + k] = BusAddr(splitting.addr + k - 1)
  /\ \A i \in 1 .. Len(g.bursts) : \A k \in 1 .. g.bursts[i].words :
       asked[g.bursts[i].start + k] = g.bursts[i].base + (k - 1)

(* The queues that keep the bursts in order.                               *)
InOrder(g) ==
  /\ g.read = g.flushed + Len(orderedReadDoneTagQ)
  /\ g.turned = g.read + Len(doneReorderedTagQ)
  /\ g.sent = g.turned + Len(orderShifter) + Len(dmaReadTagOrderQ)
  /\ \A k \in 1 .. Len(orderedReadDoneTagQ) :
       /\ orderedReadDoneTagQ[k].tag = g.bursts[g.flushed + k].tag
       /\ orderedReadDoneTagQ[k].words = g.bursts[g.flushed + k].words
  /\ \A k \in 1 .. Len(doneReorderedTagQ) : doneReorderedTagQ[k] = g.bursts[g.read + k].tag
  /\ \A k \in 1 .. Len(orderShifter) : orderShifter[k] = g.bursts[g.turned + k].tag
  /\ \A k \in 1 .. Len(dmaReadTagOrderQ) :
       dmaReadTagOrderQ[k] = g.bursts[g.turned + Len(orderShifter) + k].tag
  /\ curOrderTag # NoTag => orderShifter # <<>> /\ curOrderTag = Head(orderShifter)

Pages == dmaReadBufAddrQ \o bufidxQ
Paged(g) ==
  /\ Len(g.bursts) = g.sent + Len(dmaPageReadReqQ) /\ Len(Pages) = Len(dmaPageReadReqQ)
  /\ \A k \in 1 .. Len(dmaPageReadReqQ) :
       /\ dmaPageReadReqQ[k].tag = g.bursts[g.sent + k].tag
       /\ dmaPageReadReqQ[k].words = g.bursts[g.sent + k].words
       /\ g.bursts[g.sent + k].base = Pages[k] * PageWords + dmaPageReadReqQ[k].off

(* A tag belongs to one burst until that is flushed.                       *)
Free == freeReadTagQ \o freeReadTagFQ
Owned(g) ==
  /\ \A i \in 1 .. Len(g.bursts) : i > g.flushed => g.cur[g.bursts[i].tag] = i
  /\ \A t \in Tags : g.cur[t] <= Len(g.bursts) /\ (g.cur[t] > 0 => Mine(g, t).tag = t)
  /\ \A k \in 1 .. Len(Free) : g.cur[Free[k]] <= g.flushed
  /\ \A j, k \in 1 .. Len(Free) : Free[j] = Free[k] => j = k

(* How far a burst is.                                                     *)
Staged(g) ==
  /\ \A t \in Tags :
       /\ g.stage[t] # "idle" => g.turned < g.cur[t] /\ g.cur[t] <= g.sent
       /\ Ready(t) <=> g.stage[t] = "ready"
       /\ g.cur[t] > g.flushed => tagMap[t].req = Mine(g, t).words
       /\ g.cur[t] > g.sent => g.recv[t] = 0 /\ tagMap[t].done = 0
       /\ \/ g.stage[t] \in {"passing", "ready"}
          \/ g.read < g.cur[t] /\ g.cur[t] <= g.turned
          => doneMap[t] = Mine(g, t).words
  /\ \A k \in 1 .. Len(readDoneTagQ) :
       /\ g.stage[readDoneTagQ[k].tag] = "done"
       /\ readDoneTagQ[k].words = Mine(g, readDoneTagQ[k].tag).words
  /\ \A j, k \in 1 .. Len(readDoneTagQ) : readDoneTagQ[j].tag = readDoneTagQ[k].tag => j = k
  /\ \A k \in 1 .. Len(doneShifter) : g.stage[doneShifter[k]] = "passing"
  /\ \A j, k \in 1 .. Len(doneShifter) : doneShifter[j] = doneShifter[k] => j = k

Reading(g) == \A r \in reads :
  /\ g.stage[r.tag] = "wait" /\ r.words > 0
  /\ g.recv[r.tag] + r.words = Mine(g, r.tag).words
  /\ r.bus = Mine(g, r.tag).base + g.recv[r.tag]

(* What the root complex has answered.                                     *)
Answered(g) ==
  /\ Tiles(g.pieces, Len(g.words))
  /\ \A m \in 1 .. Len(g.pieces) : \A k \in 1 .. g.pieces[m].words :
       g.words[g.pieces[m].start + k] =
         [tag |-> g.pieces[m].tag, place |-> g.pieces[m].place + (k - 1), piece |-> m]
  /\ \A k \in 1 .. Len(g.words) :
       LET m == g.words[k].piece IN
         m \in 1 .. Len(g.pieces) /\ g.pieces[m].start < k /\ k <= End(g.pieces, m)

(* ... on the link,                                                        *)
Value(g, k) == Mine(g, g.words[k].tag).base + g.words[k].place
Got(g)    == g.written + Len(dmaReadWordQ)
Headed(g) == g.joined + Len(burstUpdReqQ) + Len(readBurstQ)
Linked(g) ==
  /\ Headed(g) <= Len(g.pieces)
  /\ Got(g) + completionRecv.words = End(g.pieces, Headed(g))
  /\ completionRecv.words > 0 => completionRecv.words <= g.pieces[Headed(g)].words
  /\ Len(tlpQ) + Got(g) + Headed(g) = Len(g.words) + Len(g.pieces)
  /\ \A m \in 1 .. Len(g.pieces) : m > Headed(g) =>
       LET e == tlpQ[(g.pieces[m].start + m) - (Got(g) + Headed(g))] IN
         e.tag = g.pieces[m].tag /\ e.val = g.pieces[m].words
  /\ \A k \in 1 .. Len(g.words) : k > Got(g) =>
       tlpQ[(k + g.words[k].piece) - (Got(g) + Headed(g))].val = Value(g, k)
  /\ \A k \in 1 .. Len(dmaReadWordQ) : dmaReadWordQ[k] = Value(g, g.written + k)

(* ... and on the way into readReorder.                                    *)
Joining(g) ==
  LET c == tagWordsLeft
      P == g.pieces IN
  /\ g.written + c.words = End(P, g.joined)
  /\ c.words > 0 =>
       /\ c.tag = P[g.joined].tag /\ P[g.joined].start <= g.written
       /\ c.off + c.ioff = P[g.joined].place + (g.written - P[g.joined].start)
       /\ c.req = Mine(g, c.tag).words
       /\ tagMap[c.tag].done = c.off + c.ioff + c.words
  /\ \A k \in 1 .. Len(burstUpdReqQ) :
       LET u == burstUpdReqQ[k] IN
         /\ u.tag = P[g.joined + k].tag /\ u.words = P[g.joined + k].words
         /\ u.done = P[g.joined + k].place /\ u.done = tagMap[u.tag].done
         /\ u.req = Mine(g, u.tag).words
         /\ readCompletionsb[k] = u.tag
  /\ \A j, k \in 1 .. Len(burstUpdReqQ) :
       burstUpdReqQ[j].tag = burstUpdReqQ[k].tag => j = k
  /\ \A k \in 1 .. Len(readBurstQ) :
       LET m == g.joined + Len(burstUpdReqQ) + k IN
         readBurstQ[k].tag = P[m].tag /\ readBurstQ[k].words = P[m].words

(* The words of a tag come in the order of their places and without a gap. *)
Written(t) ==
  tagMap[t].done - (IF tagWordsLeft.words > 0 /\ tagWordsLeft.tag = t THEN tagWordsLeft.words ELSE 0)
Coming(g) ==
  /\ \A k \in 1 .. Len(g.words) : k > g.written =>
       LET w == g.words[k] IN
         g.stage[w.tag] = "wait" /\ Written(w.tag) <= w.place /\ w.place < g.recv[w.tag]
  /\ \A j, k \in 1 .. Len(g.words) :
       g.written < j /\ j < k /\ g.words[j].tag = g.words[k].tag
         => g.words[j].place < g.words[k].place
  /\ \A t \in Tags : g.stage[t] = "wait" =>
       /\ g.recv[t] <= Mine(g, t).words /\ Written(t) \in 0 .. g.recv[t]
       /\ \A i \in 0 .. MaxBurst : Written(t) <= i /\ i < g.recv[t] =>
            \E k \in 1 .. Len(g.words) :
              k > g.written /\ g.words[k].tag = t /\ g.words[k].place = i

(* What readReorder holds of a burst.                                      *)
Holds(g, t, n) == \A i \in 0 .. MaxBurst - 1 :
                    i < n => readReorder[t][i] = Mine(g, t).base + i
Kept(g) == \A t \in Tags :
  /\ g.stage[t] = "wait" => Holds(g, t, Written(t))
  /\ g.stage[t] \in {"done", "passing", "ready"} => Holds(g, t, Mine(g, t).words)
  /\ g.flushed < g.cur[t] /\ g.cur[t] <= g.turned => Holds(g, t, Mine(g, t).words)

(* What is handed over.                                                    *)
Flushed(g) ==
  LET f == readFlushTag
      end == End(g.bursts, g.flushed) IN
  /\ Len(delivered) + Len(dmaReadOutQ) + f.left = end
  /\ \A k \in 1 .. Len(dmaReadOutQ) : dmaReadOutQ[k] = asked[Len(delivered) + k]
  /\ f.left > 0 =>
       /\ f.words <= end
       /\ \A i \in 0 .. MaxBurst - 1 : f.words - f.left <= i /\ i < f.words =>
            readReorder[f.tag][i] = asked[(end - f.words) + i + 1]
       /\ \A k \in 1 .. Len(g.words) : k > g.written => g.words[k].tag # f.tag

Told(g) ==
  /\ Cut(g) /\ InOrder(g) /\ Paged(g) /\ Owned(g) /\ Staged(g) /\ Reading(g)
  /\ Answered(g) /\ Linked(g) /\ Joining(g) /\ Coming(g) /\ Kept(g) /\ Flushed(g)

(* Entries of a sequence after an entry is put in, or taken out.           *)
LEMMA PutIn ==
  ASSUME NEW S, NEW s \in Seq(S), NEW x \in S
  PROVE  /\ Append(s, x) \in Seq(S) /\ Len(Append(s, x)) = Len(s) + 1 /\ Len(s) \in Nat
         /\ \A i \in 1 .. Len(s) : Append(s, x)[i] = s[i]
         /\ Append(s, x)[Len(s) + 1] = x
BY AppendProperties, LenProperties

(* The entries that stay when the first is taken out.                      *)
LEMMA TakenOut ==
  ASSUME NEW S, NEW s \in Seq(S), s # <<>>
  PROVE  /\ Tail(s) \in Seq(S) /\ Len(Tail(s)) = Len(s) - 1 /\ Len(s) \in Nat \ {0}
         /\ \A i \in 1 .. Len(s) - 1 : Tail(s)[i] = s[i + 1]
         /\ Head(s) = s[1] /\ s[1] \in S
<1>1. Len(s) \in Nat /\ Len(s) # 0
  BY LenProperties, EmptySeq
<1> QED  BY <1>1, HeadTailProperties, ElementOfSeq

Spans(S) == \A x \in S : x.start \in Nat /\ x.words \in Nat

(* Where the entries that cover 1 .. n end.                                *)
LEMMA Ends ==
  ASSUME NEW S, Spans(S),
         NEW s \in Seq(S), NEW n, Tiles(s, n)
  PROVE  /\ n \in Nat /\ End(s, Len(s)) = n /\ End(s, 0) = 0 /\ Len(s) \in Nat
         /\ \A i \in 1 .. Len(s) : /\ s[i] \in S /\ s[i].start \in Nat /\ s[i].words \in Nat
                                   /\ End(s, i) = s[i].start + s[i].words
                                   /\ s[i].start = End(s, i - 1)
                                   /\ End(s, i) <= n
         /\ \A i \in 0 .. Len(s) : End(s, i) \in 0 .. n
         /\ \A i, j \in 0 .. Len(s) : i <= j => End(s, i) <= End(s, j)
<1>1. Len(s) \in Nat /\ \A i \in 1 .. Len(s) : s[i] \in S
  BY LenProperties, ElementOfSeq
<1>2. End(s, 0) = 0 /\ End(s, Len(s)) = n
  BY DEF End, Tiles
<1>3. \A i \in 1 .. Len(s) : /\ s[i] \in S /\ s[i].start \in Nat /\ s[i].words \in Nat
                             /\ End(s, i) = s[i].start + s[i].words
                             /\ s[i].start = End(s, i - 1)
                             /\ End(s, i) <= n
  BY <1>1 DEF End, Tiles, Spans
<1>4. n \in Nat
  <2>1. CASE Len(s) = 0
    BY <1>2, <2>1
  <2>2. CASE Len(s) # 0
    <3>1. Len(s) \in 1 .. Len(s)
      BY <1>1, <2>2
    <3> QED  BY <1>2, <1>3, <3>1
  <2> QED  BY <2>1, <2>2
<1>5. \A i \in 0 .. Len(s) : End(s, i) \in 0 .. n
  <2> TAKE i \in 0 .. Len(s)
  <2>1. CASE i = 0
    BY <1>2, <1>4, <2>1
  <2>2. CASE i # 0
    <3>1. i \in 1 .. Len(s)
      BY <1>1, <2>2
    <3>2. /\ s[i].start \in Nat /\ s[i].words \in Nat
          /\ End(s, i) = s[i].start + s[i].words /\ End(s, i) <= n
      BY <1>3, <3>1
    <3> QED  BY <1>4, <3>2
  <2> QED  BY <2>1, <2>2
<1>6. \A i, j \in 0 .. Len(s) : i <= j => End(s, i) <= End(s, j)
  <2> SUFFICES ASSUME NEW i \in 0 .. Len(s), NEW j \in 0 .. Len(s), i <= j
               PROVE  End(s, i) <= End(s, j)
    OBVIOUS
  <2>1. CASE i = 0
    BY <1>2, <1>5, <2>1
  <2>2. CASE i = j
    BY <1>5, <2>2
  <2>3. CASE i # 0 /\ i # j
    <3>1. i \in 1 .. Len(s) /\ j \in 1 .. Len(s) /\ i < j
      BY <1>1, <2>3
    <3>2. End(s, i) <= s[j].start
      BY <3>1 DEF Tiles
    <3>3. /\ s[j].start \in Nat /\ s[j].words \in Nat /\ End(s, j) = s[j].start + s[j].words
          /\ End(s, i) \in 0 .. n
      BY <1>3, <1>5, <3>1
    <3> QED  BY <1>4, <3>2, <3>3, SMTT(40)
  <2> QED  BY <2>1, <2>2, <2>3
<1> QED  BY <1>1, <1>2, <1>3, <1>4, <1>5, <1>6

(* Entries that cover 1 .. n cover more when one is put behind them.       *)
LEMMA TilesAppend ==
  ASSUME NEW S, Spans(S),
         NEW s \in Seq(S), NEW n, Tiles(s, n), NEW x \in S, x.start = n
  PROVE  /\ Tiles(Append(s, x), n + x.words)
         /\ \A i \in 0 .. Len(s) : End(Append(s, x), i) = End(s, i)
         /\ End(Append(s, x), Len(s) + 1) = n + x.words
<1> DEFINE u == Append(s, x)
           e == n + x.words
<1>0. /\ n \in Nat /\ Len(s) \in Nat /\ End(s, Len(s)) = n
      /\ \A i \in 1 .. Len(s) : /\ s[i].start \in Nat /\ s[i].words \in Nat
                                /\ s[i].start = End(s, i - 1)
                                /\ End(s, i) <= n
      /\ \A i \in 0 .. Len(s) : End(s, i) \in 0 .. n
  BY Ends, SMTT(40)
<1>00. x.words \in Nat /\ x.start = n
  BY DEF Spans
<1>1. /\ Len(u) = Len(s) + 1 /\ \A i \in 1 .. Len(s) : u[i] = s[i]
      /\ u[Len(s) + 1] = x
  BY PutIn
<1> HIDE DEF u
<1>6. Len(u) = Len(s) + 1 /\ Len(s) \in Nat
  BY <1>0, <1>1
<1>2. \A i \in 0 .. Len(s) : End(u, i) = End(s, i)
  BY <1>0, <1>1 DEF End
<1>3. End(u, Len(s) + 1) = e
  BY <1>0, <1>00, <1>1 DEF End
<1>4. \A i \in 1 .. Len(u) : u[i].start = End(u, i - 1) /\ End(u, i) <= e
  <2> TAKE i \in 1 .. Len(u)
  <2>1. CASE i = Len(s) + 1
    BY <1>0, <1>00, <1>1, <1>2, <1>3, <2>1
  <2>2. CASE i # Len(s) + 1
    <3>1. i \in 1 .. Len(s) /\ i - 1 \in 0 .. Len(s) /\ i \in 0 .. Len(s)
      BY <1>0, <1>1, <2>2
    <3> QED  BY <1>0, <1>00, <1>1, <1>2, <3>1, SMTT(40)
  <2> QED  BY <2>1, <2>2
<1>5. \A i, j \in 1 .. Len(u) : i < j => End(u, i) <= u[j].start
  <2> SUFFICES ASSUME NEW i \in 1 .. Len(s) + 1, NEW j \in 1 .. Len(s) + 1, i < j
               PROVE  End(u, i) <= u[j].start
    BY <1>6
  <2>1. i \in 1 .. Len(s) /\ i \in 0 .. Len(s)
    BY <1>6
  <2>2. CASE j = Len(s) + 1
    BY <1>0, <1>00, <1>1, <1>2, <2>1, <2>2
  <2>3. CASE j # Len(s) + 1
    <3>1. j \in 1 .. Len(s)
      BY <1>6, <2>3
    <3>2. End(s, i) <= s[j].start
      BY <2>1, <3>1 DEF Tiles
    <3> QED  BY <1>1, <1>2, <2>1, <3>1, <3>2
  <2> QED  BY <2>2, <2>3
<1> QED  BY <1>1, <1>2, <1>3, <1>4, <1>5 DEF Tiles, u

(* The types of the fields of g ...                                        *)
LEMMA GhostTypes ==
  ASSUME NEW g \in Ghost
  PROVE  /\ g.asks \in Seq(AskEntry) /\ g.bursts \in Seq(BurstEntry)
         /\ g.pieces \in Seq(PieceEntry) /\ g.words \in Seq(WordEntry)
         /\ g.taken \in Nat /\ g.sent \in Nat /\ g.turned \in Nat /\ g.read \in Nat
         /\ g.flushed \in Nat /\ g.joined \in Nat /\ g.written \in Nat
         /\ g.cur \in [Tags -> Nat] /\ g.recv \in [Tags -> Nat] /\ g.stage \in [Tags -> Stages]
BY DEF Ghost

(* ... and of their entries.                                               *)
LEMMA EntryTypes ==
  /\ Spans(AskEntry) /\ Spans(BurstEntry) /\ Spans(PieceEntry)
  /\ MaxBurst \in Nat \ {0}
  /\ \A x \in AskEntry : x.start \in Nat /\ x.words \in Nat /\ x.words > 0 /\ x.addr \in Nat
  /\ \A x \in BurstEntry : /\ x.start \in Nat /\ x.words \in Nat /\ x.words \in 1 .. MaxBurst
                           /\ x.tag \in Tags /\ x.base \in Nat
  /\ \A x \in PieceEntry : /\ x.start \in Nat /\ x.words \in Nat /\ x.words > 0
                           /\ x.tag \in Tags /\ x.place \in Nat
  /\ \A x \in WordEntry : x.tag \in Tags /\ x.place \in Nat /\ x.piece \in Nat
<1>1. MaxBurst \in Nat \ {0}
  BY ReadAssumption
<1> QED  BY <1>1 DEF Spans, AskEntry, BurstEntry, PieceEntry, WordEntry

(* A part holds on as long as what it is about keeps still.                *)
LEMMA CutFrame ==
  ASSUME NEW g, NEW h, Cut(g),
         h.asks = g.asks, h.bursts = g.bursts, h.taken = g.taken,
         UNCHANGED <<asked, dmaReadReqQ, splitting>>
  PROVE  Cut(h)'
BY SMTT(40) DEF Cut

(* InOrder holds while the order queues keep still.                        *)
LEMMA InOrderFrame ==
  ASSUME NEW g, NEW h, InOrder(g),
         h.bursts = g.bursts, h.read = g.read, h.flushed = g.flushed,
         h.turned = g.turned, h.sent = g.sent,
         UNCHANGED <<orderedReadDoneTagQ, doneReorderedTagQ, orderShifter,
                     dmaReadTagOrderQ, curOrderTag>>
  PROVE  InOrder(h)'
BY ZenonT(40) DEF InOrder

(* Paged holds while no burst waits or leaves for its page.                *)
LEMMA PagedFrame ==
  ASSUME NEW g, NEW h, Paged(g), h.bursts = g.bursts, h.sent = g.sent,
         UNCHANGED <<dmaPageReadReqQ, dmaReadBufAddrQ, bufidxQ>>
  PROVE  Paged(h)'
BY DEF Paged, Pages

(* Owned holds while no tag is taken or freed.                             *)
LEMMA OwnedFrame ==
  ASSUME NEW g, NEW h, Owned(g),
         h.bursts = g.bursts, h.cur = g.cur, h.flushed = g.flushed,
         UNCHANGED <<freeReadTagQ, freeReadTagFQ>>
  PROVE  Owned(h)'
BY DEF Owned, Free, Mine

(* Staged holds while no burst changes its stage.                          *)
LEMMA StagedFrame ==
  ASSUME NEW g, NEW h, Staged(g),
         h.bursts = g.bursts, h.cur = g.cur, h.flushed = g.flushed, h.stage = g.stage,
         h.turned = g.turned, h.sent = g.sent, h.read = g.read, h.recv = g.recv,
         UNCHANGED <<orderTagMap, doneTagMap, tagMap, doneMap, readDoneTagQ, doneShifter>>
  PROVE  Staged(h)'
BY DEF Staged, Mine, Ready

(* Reading holds while nothing is sent or answered.                        *)
LEMMA ReadingFrame ==
  ASSUME NEW g, NEW h, Reading(g), LinkTypeOK,
         h.bursts = g.bursts, h.cur = g.cur, h.recv = g.recv,
         \A t \in Tags : g.stage[t] = "wait" => h.stage[t] = "wait",
         UNCHANGED reads
  PROVE  Reading(h)'
BY DEF Reading, Mine, LinkTypeOK, Burst

(* Answered is about g alone.                                              *)
LEMMA AnsweredFrame ==
  ASSUME NEW g, NEW h, Answered(g), h.pieces = g.pieces, h.words = g.words
  PROVE  Answered(h)'
BY SMTT(40) DEF Answered

(* Linked holds while no beat moves.                                       *)
LEMMA LinkedFrame ==
  ASSUME NEW g, NEW h, Linked(g),
         h.bursts = g.bursts, h.cur = g.cur, h.pieces = g.pieces, h.words = g.words,
         h.joined = g.joined, h.written = g.written,
         UNCHANGED <<dmaReadWordQ, burstUpdReqQ, readBurstQ, completionRecv, tlpQ>>
  PROVE  Linked(h)'
BY ZenonT(40) DEF Linked, Got, Headed, Value, Mine

(* Joining holds while no piece is looked up or written.                   *)
LEMMA JoiningFrame ==
  ASSUME NEW g, NEW h, Joining(g),
         h.bursts = g.bursts, h.cur = g.cur, h.pieces = g.pieces,
         h.joined = g.joined, h.written = g.written,
         UNCHANGED <<tagWordsLeft, tagMap, burstUpdReqQ, readCompletionsb, readBurstQ>>
  PROVE  Joining(h)'
BY DEF Joining, Mine

(* Coming holds while no word is answered or written.                      *)
LEMMA ComingFrame ==
  ASSUME NEW g \in Ghost, NEW h, Coming(g),
         h.bursts = g.bursts, h.cur = g.cur, h.words = g.words,
         h.recv = g.recv, h.written = g.written,
         \A t \in Tags : h.stage[t] = "wait" <=> g.stage[t] = "wait",
         UNCHANGED <<tagMap, tagWordsLeft>>
  PROVE  Coming(h)'
<1>1. \A k \in 1 .. Len(g.words) : g.words[k].tag \in Tags
  BY GhostTypes, EntryTypes, ElementOfSeq
<1>2. \A t : Written(t)' = Written(t)
  BY DEF Written
<1> QED  BY <1>1, <1>2 DEF Coming, Mine

(* Kept holds while readReorder and the stages keep still.                 *)
LEMMA KeptFrame ==
  ASSUME NEW g, NEW h, Kept(g),
         h.bursts = g.bursts, h.cur = g.cur, h.flushed = g.flushed, h.turned = g.turned,
         \A t \in Tags : /\ h.stage[t] = "wait" => g.stage[t] = "wait"
                         /\ h.stage[t] \in {"done", "passing", "ready"} =>
                              g.stage[t] \in {"done", "passing", "ready"},
         UNCHANGED <<tagMap, tagWordsLeft, readReorder>>
  PROVE  Kept(h)'
<1>2. \A t : Written(t)' = Written(t)
  BY DEF Written
<1> QED  BY <1>2 DEF Kept, Holds, Mine

(* Flushed holds while nothing is flushed or handed over.                  *)
LEMMA FlushedFrame ==
  ASSUME NEW g, NEW h, Flushed(g),
         h.bursts = g.bursts, h.flushed = g.flushed, h.words = g.words, h.written = g.written,
         UNCHANGED <<readFlushTag, delivered, dmaReadOutQ, asked, readReorder>>
  PROVE  Flushed(h)'
BY DEF Flushed

(* An entry that moves from one queue into the one before it leaves the    *)
(* concatenation of both as it was.                                        *)
LEMMA Moved ==
  ASSUME NEW S, NEW a \in Seq(S), NEW b \in Seq(S), b # <<>>
  PROVE  Append(a, Head(b)) \o Tail(b) = a \o b
<1> DEFINE c == Append(a, Head(b))
           d == Tail(b)
<1>1. /\ c \in Seq(S) /\ Len(c) = Len(a) + 1 /\ Len(a) \in Nat
      /\ \A i \in 1 .. Len(a) : c[i] = a[i]
      /\ c[Len(a) + 1] = b[1]
  BY PutIn, TakenOut
<1>2. /\ d \in Seq(S) /\ Len(d) = Len(b) - 1 /\ Len(b) \in Nat \ {0}
      /\ \A i \in 1 .. Len(b) - 1 : d[i] = b[i + 1]
  BY TakenOut
<1> HIDE DEF c, d
<1>3. /\ c \o d \in Seq(S) /\ Len(c \o d) = Len(c) + Len(d)
      /\ \A i \in 1 .. Len(c) + Len(d) :
           (c \o d)[i] = IF i <= Len(c) THEN c[i] ELSE d[i - Len(c)]
  BY <1>1, <1>2, ConcatProperties, ZenonT(40)
<1>4. /\ a \o b \in Seq(S) /\ Len(a \o b) = Len(a) + Len(b)
      /\ \A i \in 1 .. Len(a) + Len(b) :
           (a \o b)[i] = IF i <= Len(a) THEN a[i] ELSE b[i - Len(a)]
  BY ConcatProperties
<1>5. Len(c \o d) = Len(a \o b)
  BY <1>1, <1>2, <1>3, <1>4
<1>6. ASSUME NEW i \in 1 .. Len(a) + Len(b) PROVE (c \o d)[i] = (a \o b)[i]
  <2>1. (c \o d)[i] = IF i <= Len(c) THEN c[i] ELSE d[i - Len(c)]
    BY <1>1, <1>2, <1>3
  <2>2. (a \o b)[i] = IF i <= Len(a) THEN a[i] ELSE b[i - Len(a)]
    BY <1>4
  <2>3. CASE i <= Len(a)
    BY <1>1, <2>1, <2>2, <2>3
  <2>4. CASE i = Len(a) + 1
    BY <1>1, <2>1, <2>2, <2>4
  <2>5. CASE i > Len(a) + 1
    <3>1. i - Len(c) \in 1 .. Len(b) - 1 /\ (i - Len(c)) + 1 = i - Len(a) /\ ~(i <= Len(c))
      BY <1>1, <1>2, <2>5
    <3>2. d[i - Len(c)] = b[i - Len(a)]
      BY <1>2, <3>1
    <3> QED  BY <1>1, <2>1, <2>2, <2>5, <3>1, <3>2
  <2> QED  BY <1>1, <1>2, <2>3, <2>4, <2>5
<1>7. Len(c \o d) = Len(a \o b) /\ Len(a \o b) = Len(a) + Len(b)
  BY <1>4, <1>5
<1>8. c \o d = a \o b
  BY <1>3, <1>4, <1>6, <1>7, SeqEqual
<1> QED  BY <1>8 DEF c, d

(* The rest of the first of two queues in a row ...                        *)
LEMMA TailConcat ==
  ASSUME NEW S, NEW a \in Seq(S), NEW b \in Seq(S), a # <<>>
  PROVE  Tail(a) \o b = Tail(a \o b)
<1> DEFINE c == Tail(a)
           d == a \o b
<1>1. /\ c \in Seq(S) /\ Len(c) = Len(a) - 1 /\ Len(a) \in Nat \ {0} /\ Len(b) \in Nat
      /\ \A i \in 1 .. Len(a) - 1 : c[i] = a[i + 1]
  BY TakenOut, LenProperties
<1>2. /\ d \in Seq(S) /\ Len(d) = Len(a) + Len(b)
      /\ \A i \in 1 .. Len(a) + Len(b) :
           d[i] = IF i <= Len(a) THEN a[i] ELSE b[i - Len(a)]
  BY ConcatProperties
<1> HIDE DEF c, d
<1>3. d # <<>>
  BY <1>1, <1>2, EmptySeq
<1>4. /\ Tail(d) \in Seq(S) /\ Len(Tail(d)) = Len(d) - 1
      /\ \A i \in 1 .. Len(d) - 1 : Tail(d)[i] = d[i + 1]
  BY <1>2, <1>3, TakenOut
<1>5. /\ c \o b \in Seq(S) /\ Len(c \o b) = Len(c) + Len(b)
      /\ \A i \in 1 .. Len(c) + Len(b) :
           (c \o b)[i] = IF i <= Len(c) THEN c[i] ELSE b[i - Len(c)]
  BY <1>1, ConcatProperties
<1>6. Len(c \o b) = Len(Tail(d)) /\ Len(c \o b) = Len(c) + Len(b) /\ Len(Tail(d)) = Len(c) + Len(b)
  <2>1. Len(c \o b) = Len(c) + Len(b) /\ Len(Tail(d)) = Len(d) - 1 /\ Len(d) = Len(a) + Len(b) /\ Len(c) = Len(a) - 1
    BY <1>1, <1>2, <1>4, <1>5
  <2>2. Len(a) \in Nat /\ Len(b) \in Nat
    BY <1>1
  <2> QED  BY <2>1, <2>2
<1>7. ASSUME NEW i \in 1 .. Len(c) + Len(b) PROVE (c \o b)[i] = Tail(d)[i]
  <2>0. Len(a) \in Nat /\ Len(b) \in Nat /\ Len(c) = Len(a) - 1 /\ Len(d) - 1 = Len(c) + Len(b) /\ Len(d) = Len(a) + Len(b)
    <3>1. Len(a) \in Nat /\ Len(b) \in Nat /\ Len(c) = Len(a) - 1 /\ Len(d) = Len(a) + Len(b)
      BY <1>1, <1>2
    <3> QED  BY <3>1
  <2>1. (c \o b)[i] = IF i <= Len(c) THEN c[i] ELSE b[i - Len(c)]
    BY <1>5
  <2>2. Tail(d)[i] = d[i + 1]
    BY <1>4, <2>0
  <2>3. i + 1 \in 1 .. Len(a) + Len(b) /\ i \in Nat
    BY <2>0
  <2>4. d[i + 1] = IF i + 1 <= Len(a) THEN a[i + 1] ELSE b[(i + 1) - Len(a)]
    BY <1>2, <2>3
  <2>5. CASE i <= Len(c)
    <3>1. i \in 1 .. Len(a) - 1 /\ i + 1 <= Len(a)
      BY <2>0, <2>5
    <3> QED  BY <1>1, <2>1, <2>2, <2>4, <2>5, <3>1
  <2>6. CASE ~(i <= Len(c))
    <3>1. ~(i + 1 <= Len(a)) /\ (i + 1) - Len(a) = i - Len(c)
      BY <2>0, <2>3, <2>6
    <3> QED  BY <2>1, <2>2, <2>4, <2>6, <3>1
  <2> QED  BY <2>5, <2>6
<1>8. c \o b = Tail(d)
  BY <1>4, <1>5, <1>6, <1>7, SeqEqual, ZenonT(40)
<1> QED  BY <1>8 DEF c, d

(* ... and an entry put into the second.                                   *)
LEMMA AppendConcat ==
  ASSUME NEW S, NEW a \in Seq(S), NEW b \in Seq(S), NEW x \in S
  PROVE  a \o Append(b, x) = Append(a \o b, x)
<1>1. <<x>> \in Seq(S)
  OBVIOUS
<1>2. (a \o b) \in Seq(S)
  BY ConcatProperties
<1>3. Append(b, x) = b \o <<x>> /\ Append(a \o b, x) = (a \o b) \o <<x>>
  BY <1>2, AppendIsConcat
<1> QED  BY <1>1, <1>3, ConcatAssociative

(* The numbers of g are in order.                                          *)
LEMMA Bounds ==
  ASSUME ReadInv, NEW g \in Ghost, Told(g)
  PROVE  /\ g.flushed <= g.read /\ g.read <= g.turned /\ g.turned <= g.sent
         /\ g.sent <= Len(g.bursts) /\ Len(g.bursts) \in Nat
         /\ g.sent = g.turned + Len(orderShifter) + Len(dmaReadTagOrderQ)
         /\ Tiles(g.bursts, End(g.bursts, Len(g.bursts)))
         /\ \A i \in 0 .. Len(g.bursts) :
              End(g.bursts, i) \in Nat /\ End(g.bursts, i) <= End(g.bursts, Len(g.bursts))
         /\ End(g.bursts, Len(g.bursts)) \in Nat
         /\ End(g.bursts, Len(g.bursts)) <= Len(asked)
         /\ End(g.bursts, g.flushed) \in Nat
         /\ End(g.bursts, g.flushed) <= Len(asked)
<1>1. AskTypeOK /\ OrderTypeOK
  BY DEF ReadInv
<1>2. /\ Len(orderedReadDoneTagQ) \in Nat /\ Len(doneReorderedTagQ) \in Nat
      /\ Len(orderShifter) \in Nat /\ Len(dmaReadTagOrderQ) \in Nat
      /\ Len(dmaPageReadReqQ) \in Nat /\ Len(g.bursts) \in Nat
      /\ Len(asked) \in Nat /\ splitting.words \in Nat /\ Len(dmaReadReqQ) \in Nat
  BY <1>1, GhostTypes, LenProperties DEF AskTypeOK, OrderTypeOK
<1>3. /\ g.flushed \in Nat /\ g.read \in Nat /\ g.turned \in Nat /\ g.sent \in Nat
      /\ g.taken \in Nat
  BY GhostTypes
<1>4. /\ g.read = g.flushed + Len(orderedReadDoneTagQ)
      /\ g.turned = g.read + Len(doneReorderedTagQ)
      /\ g.sent = g.turned + Len(orderShifter) + Len(dmaReadTagOrderQ)
      /\ Len(g.bursts) = g.sent + Len(dmaPageReadReqQ)
  BY DEF Told, InOrder, Paged
<1>5. /\ g.flushed <= g.read /\ g.read <= g.turned /\ g.turned <= g.sent
      /\ g.sent <= Len(g.bursts) /\ g.flushed \in 0 .. Len(g.bursts)
  <2> DEFINE a == Len(orderedReadDoneTagQ)
             b == Len(doneReorderedTagQ)
             c == Len(orderShifter)
             d == Len(dmaReadTagOrderQ)
             p == Len(dmaPageReadReqQ)
             l == Len(g.bursts)
  <2>a. a \in Nat /\ b \in Nat /\ c \in Nat /\ d \in Nat /\ p \in Nat /\ l \in Nat
    BY <1>2
  <2>b. g.read = g.flushed + a /\ g.turned = g.read + b /\ g.sent = g.turned + c + d /\ l = g.sent + p
    BY <1>4
  <2> HIDE DEF a, b, c, d, p, l
  <2>1. g.flushed <= g.read
    BY <1>3, <2>a, <2>b
  <2>2. g.read <= g.turned
    BY <1>3, <2>a, <2>b
  <2>3. g.turned <= g.sent
    BY <1>3, <2>a, <2>b
  <2>4. g.sent <= l
    BY <1>3, <2>a, <2>b
  <2>5. g.flushed <= l
    BY <1>3, <2>a, <2>1, <2>2, <2>3, <2>4
  <2> QED  BY <1>3, <2>a, <2>1, <2>2, <2>3, <2>4, <2>5 DEF l
<1> DEFINE n == End(g.bursts, Len(g.bursts))
           e == End(g.asks, g.taken)
<1>6. /\ Tiles(g.asks, Len(asked)) /\ Tiles(g.bursts, n)
      /\ g.taken + Len(dmaReadReqQ) = Len(g.asks) /\ n + splitting.words = e
  BY DEF Told, Cut
<1> HIDE DEF n, e
<1>7. /\ n \in Nat
      /\ \A i \in 0 .. Len(g.bursts) : End(g.bursts, i) \in 0 .. n
  BY <1>6, Ends, GhostTypes, EntryTypes
<1>8. \A i \in 0 .. Len(g.asks) : End(g.asks, i) \in 0 .. Len(asked)
  BY <1>6, Ends, GhostTypes, EntryTypes
<1>9. g.taken \in 0 .. Len(g.asks)
  BY <1>2, <1>3, <1>6
<1>10. e \in 0 .. Len(asked)
  BY <1>8, <1>9 DEF e
<1>11. n <= Len(asked)
  BY <1>2, <1>6, <1>7, <1>10
<1>12. End(g.bursts, g.flushed) \in 0 .. n
  BY <1>5, <1>7
<1>13. \A i \in 0 .. Len(g.bursts) : End(g.bursts, i) \in Nat /\ End(g.bursts, i) <= n
  BY <1>7
<1>14. End(g.bursts, g.flushed) \in Nat /\ End(g.bursts, g.flushed) <= Len(asked)
  BY <1>2, <1>7, <1>11, <1>12
<1> QED  BY <1>2, <1>4, <1>5, <1>6, <1>7, <1>11, <1>13, <1>14 DEF n

(* A page number moves on: both queues together stay the same.             *)
LEMMA RelayBufIdxTold ==
  ASSUME ReadInv, NEW g \in Ghost, Told(g), relayBufIdxRead
  PROVE  Told(g)'
<1>1. AskTypeOK /\ LinkTypeOK
  BY DEF ReadInv
<1>2. Paged(g)'
  <2>1. Pages' = Pages
    BY <1>1, Moved DEF AskTypeOK, relayBufIdxRead, Pages
  <2> QED  BY <2>1 DEF Told, Paged, relayBufIdxRead
<1> QED
  BY <1>1, <1>2, CutFrame, InOrderFrame, OwnedFrame, StagedFrame, ReadingFrame, AnsweredFrame,
     LinkedFrame, JoiningFrame, ComingFrame, KeptFrame, FlushedFrame
  DEF relayBufIdxRead, Told, askVars, linkVars, joinVars, doneVars, orderVars, outVars

(* A tag moves on from dmaReadTagOrderQ into orderShifter.                 *)
LEMMA ShiftOrderTold ==
  ASSUME ReadInv, NEW g \in Ghost, Told(g), shiftOrder
  PROVE  Told(g)'
<1>1. AskTypeOK /\ LinkTypeOK /\ OrderTypeOK
  BY DEF ReadInv
<1>2. InOrder(g)'
  <2> DEFINE x == dmaReadTagOrderQ[1]
             a == Len(orderShifter)
             b == Len(dmaReadTagOrderQ)
  <2>1. /\ a \in Nat /\ orderShifter' = Append(orderShifter, x)
        /\ Len(orderShifter') = a + 1 /\ orderShifter'[a + 1] = x
        /\ \A i \in 1 .. a : orderShifter'[i] = orderShifter[i]
    BY <1>1, PutIn, TakenOut DEF OrderTypeOK, shiftOrder
  <2>2. /\ b \in Nat \ {0} /\ Len(dmaReadTagOrderQ') = b - 1
        /\ \A i \in 1 .. b - 1 : dmaReadTagOrderQ'[i] = dmaReadTagOrderQ[i + 1]
    BY <1>1, TakenOut DEF OrderTypeOK, shiftOrder
  <2> HIDE DEF a, b
  <2>3. /\ g.sent = g.turned + a + b /\ g.turned \in Nat
        /\ \A k \in 1 .. a : orderShifter[k] = g.bursts[g.turned + k].tag
        /\ \A k \in 1 .. b : dmaReadTagOrderQ[k] = g.bursts[g.turned + a + k].tag
        /\ curOrderTag # NoTag => orderShifter # <<>> /\ curOrderTag = Head(orderShifter)
    BY GhostTypes DEF Told, InOrder, a, b
  <2>9. /\ g.sent = g.turned + a + b /\ g.turned \in Nat /\ a \in Nat /\ b \in Nat \ {0}
        /\ Len(orderShifter') = a + 1 /\ Len(dmaReadTagOrderQ') = b - 1
    BY <2>1, <2>2, <2>3
  <2>4. g.sent = g.turned + Len(orderShifter') + Len(dmaReadTagOrderQ')
    BY <2>9
  <2>5. \A k \in 1 .. Len(orderShifter') : orderShifter'[k] = g.bursts[g.turned + k].tag
    <3>1. x = g.bursts[g.turned + a + 1].tag
      BY <2>2, <2>3
    <3>2. g.turned + a + 1 = g.turned + (a + 1)
      BY <2>9
    <3> QED  BY <2>1, <2>3, <3>1, <3>2
  <2>6. \A k \in 1 .. Len(dmaReadTagOrderQ') :
          dmaReadTagOrderQ'[k] = g.bursts[g.turned + Len(orderShifter') + k].tag
    <3> TAKE k \in 1 .. Len(dmaReadTagOrderQ')
    <3>0. k \in 1 .. b - 1 /\ k + 1 \in 1 .. b /\ k \in Nat
      BY <2>9
    <3>1. k \in 1 .. b - 1 /\ k + 1 \in 1 .. b
          /\ g.turned + a + (k + 1) = g.turned + Len(orderShifter') + k
      BY <2>9, <3>0, SMTT(40)
    <3>2. dmaReadTagOrderQ'[k] = dmaReadTagOrderQ[k + 1]
      BY <2>2, <3>1
    <3>3. dmaReadTagOrderQ[k + 1] = g.bursts[g.turned + a + (k + 1)].tag
      BY <2>3, <3>1
    <3> QED  BY <3>1, <3>2, <3>3
  <2>7. orderShifter # <<>> => orderShifter' # <<>> /\ Head(orderShifter') = Head(orderShifter)
    <3> SUFFICES ASSUME orderShifter # <<>> PROVE orderShifter' # <<>> /\ Head(orderShifter') = Head(orderShifter)
      OBVIOUS
    <3>1. orderShifter' \in Seq(Tags) /\ orderShifter \in Seq(Tags)
      BY <1>1, <2>1, SeqTypes, TakenOut DEF OrderTypeOK, shiftOrder
    <3>2. Head(orderShifter) = orderShifter[1] /\ a > 0
      BY <3>1, TakenOut DEF a
    <3>3. orderShifter' # <<>>
      BY <2>1, <3>1, EmptySeq
    <3>4. Head(orderShifter') = orderShifter'[1]
      BY <3>1, <3>3, TakenOut
    <3> QED  BY <2>1, <3>2, <3>3, <3>4
  <2>8. UNCHANGED <<orderedReadDoneTagQ, doneReorderedTagQ, curOrderTag>>
    BY DEF shiftOrder, outVars
  <2> QED  BY <2>3, <2>4, <2>5, <2>6, <2>7, <2>8 DEF Told, InOrder
<1> QED
  BY <1>1, <1>2, CutFrame, PagedFrame, OwnedFrame, StagedFrame, ReadingFrame, AnsweredFrame,
     LinkedFrame, JoiningFrame, ComingFrame, KeptFrame, FlushedFrame
  DEF shiftOrder, Told, askVars, splitVars, linkVars, joinVars, doneVars, outVars

(* A free tag moves on: both queues together stay the same.                *)
LEMMA RelayFreeTold ==
  ASSUME ReadInv, NEW g \in Ghost, Told(g), relayFreeReadTag
  PROVE  Told(g)'
<1>1. AskTypeOK /\ LinkTypeOK
  BY DEF ReadInv
<1>2. Owned(g)'
  <2>1. Free' = Free
    BY <1>1, Moved DEF AskTypeOK, relayFreeReadTag, Free
  <2> QED  BY <2>1 DEF Told, Owned, Mine
<1> QED
  BY <1>1, <1>2, CutFrame, InOrderFrame, PagedFrame, StagedFrame, ReadingFrame, AnsweredFrame,
     LinkedFrame, JoiningFrame, ComingFrame, KeptFrame, FlushedFrame
  DEF relayFreeReadTag, Told, askVars, splitVars, linkVars, joinVars, doneVars, orderVars, outVars

(* The user takes a word: it is the next one asked for.                    *)
LEMMA DmaReadWordTold ==
  ASSUME ReadInv, NEW g \in Ghost, Told(g), dmaReadWord
  PROVE  /\ Told(g)'
         /\ Len(delivered) < Len(asked) /\ Head(dmaReadOutQ) = asked[Len(delivered) + 1]
<1>1. AskTypeOK /\ LinkTypeOK /\ OutTypeOK
  BY DEF ReadInv, OutInv
<1> DEFINE d == Len(delivered)
           n == Len(dmaReadOutQ)
           x == dmaReadOutQ[1]
<1>2. /\ n \in Nat \ {0} /\ Len(dmaReadOutQ') = n - 1
      /\ \A i \in 1 .. n - 1 : dmaReadOutQ'[i] = dmaReadOutQ[i + 1]
      /\ Head(dmaReadOutQ) = x /\ x \in Words
  BY <1>1, TakenOut DEF OutTypeOK, dmaReadWord
<1>3. d \in Nat /\ Len(delivered') = d + 1
  BY <1>1, <1>2, PutIn DEF AskTypeOK, dmaReadWord
<1> HIDE DEF d, n, x
<1>4. /\ d + n + readFlushTag.left = End(g.bursts, g.flushed)
      /\ \A k \in 1 .. n : dmaReadOutQ[k] = asked[d + k]
  BY DEF Told, Flushed, d, n
<1>5. Flushed(g)'
  <2>1. Len(delivered') + Len(dmaReadOutQ') + readFlushTag.left = End(g.bursts, g.flushed)
    <3>1. readFlushTag.left \in Nat
      BY <1>1, EntryTypes DEF OutTypeOK
    <3> QED  BY <1>2, <1>3, <1>4, <3>1
  <2>2. \A k \in 1 .. Len(dmaReadOutQ') : dmaReadOutQ'[k] = asked[Len(delivered') + k]
    <3> TAKE k \in 1 .. Len(dmaReadOutQ')
    <3>1. k \in 1 .. n - 1 /\ k + 1 \in 1 .. n /\ d + (k + 1) = Len(delivered') + k
      BY <1>2, <1>3
    <3>2. dmaReadOutQ'[k] = dmaReadOutQ[k + 1] /\ dmaReadOutQ[k + 1] = asked[d + (k + 1)]
      BY <1>2, <1>4, <3>1
    <3> QED  BY <3>1, <3>2
  <2>3. UNCHANGED <<readFlushTag, asked, readReorder>>
    BY DEF dmaReadWord, askVars, joinVars
  <2> QED  BY <2>1, <2>2, <2>3 DEF Told, Flushed
<1>6. d < Len(asked) /\ x = asked[d + 1]
  <2>1. 1 \in 1 .. n
    BY <1>2
  <2>2. x = asked[d + 1]
    BY <1>4, <2>1 DEF x
  <2>3. End(g.bursts, g.flushed) <= Len(asked) /\ Len(asked) \in Nat /\ End(g.bursts, g.flushed) \in Nat
    BY Bounds, LenProperties DEF ReadInv, AskTypeOK
  <2>4. readFlushTag.left \in Nat
    BY <1>1, EntryTypes DEF OutTypeOK
  <2>5. d + n + readFlushTag.left = End(g.bursts, g.flushed) /\ n \in Nat \ {0}
    BY <1>2, <1>4
  <2>6. d < Len(asked)
    BY <1>3, <2>3, <2>4, <2>5
  <2> QED  BY <2>2, <2>6
<1>7. Told(g)'
  BY <1>1, <1>5, CutFrame, InOrderFrame, PagedFrame, OwnedFrame, StagedFrame, ReadingFrame, AnsweredFrame,
     LinkedFrame, JoiningFrame, ComingFrame, KeptFrame
  DEF dmaReadWord, Told, askVars, splitVars, linkVars, joinVars, doneVars, orderVars
<1> QED  BY <1>2, <1>6, <1>7 DEF d, x

(* A request is an ask more, for the words that asked grows by.            *)
LEMMA DmaReadReqTold ==
  ASSUME ReadInv, NEW g \in Ghost, Told(g), NEW r \in Requests, dmaReadReq(r)
  PROVE  \E h \in Ghost : Told(h)'
<1>1. AskTypeOK /\ LinkTypeOK /\ OutTypeOK
  BY DEF ReadInv, OutInv
<1>2. r.addr \in Nat /\ r.words \in Nat \ {0}
  BY ReadAssumption
<1> DEFINE n == Len(asked)
           a == [addr |-> r.addr, words |-> r.words, start |-> n]
           asks == Append(g.asks, a)
<1>3. n \in Nat /\ asked \in Seq(Nat)
  BY <1>1, LenProperties DEF AskTypeOK, Words
<1>4. /\ Len(asked') = n + r.words
      /\ \A j \in 1 .. n : asked'[j] = asked[j]
      /\ \A k \in 1 .. r.words : asked'[n + k] = BusAddr(r.addr + k - 1)
  <2> DEFINE w == WordsAsked(r)
  <2>1. \A i \in 1 .. r.words : BusAddr(r.addr + i - 1) \in Nat
    <3> TAKE i \in 1 .. r.words
    <3>1. r.addr + i - 1 \in Nat
      BY <1>2
    <3> QED  BY <3>1, BusTypes
  <2>2. w \in [1 .. r.words -> Nat] /\ \A k \in 1 .. r.words : w[k] = BusAddr(r.addr + k - 1)
    BY <2>1 DEF WordsAsked
  <2>3. w \in Seq(Nat) /\ Len(w) = r.words
    BY <1>2, <2>2, SeqDef, LenProperties, SMTT(40)
  <2>4. asked' = asked \o w
    BY DEF dmaReadReq
  <2> HIDE DEF w, n
  <2>5. /\ Len(asked') = n + r.words
        /\ \A i \in 1 .. n + r.words : asked'[i] = IF i <= n THEN asked[i] ELSE w[i - n]
    BY <1>3, <2>3, <2>4, ConcatProperties DEF n
  <2>6. \A j \in 1 .. n : asked'[j] = asked[j]
    <3> TAKE j \in 1 .. n
    <3>1. j \in 1 .. n + r.words /\ j <= n
      BY <1>2, <1>3
    <3> QED  BY <2>5, <3>1
  <2>7. \A k \in 1 .. r.words : asked'[n + k] = BusAddr(r.addr + k - 1)
    <3> TAKE k \in 1 .. r.words
    <3>1. n + k \in 1 .. n + r.words /\ ~(n + k <= n) /\ (n + k) - n = k
      BY <1>2, <1>3
    <3> QED  BY <2>2, <2>5, <3>1
  <2> QED  BY <2>5, <2>6, <2>7
<1>5. a \in AskEntry /\ a.words = r.words /\ a.addr = r.addr /\ a.start = n
  BY <1>2, <1>3 DEF AskEntry
<1> HIDE DEF a, n
<1>6. /\ asks \in Seq(AskEntry) /\ Len(asks) = Len(g.asks) + 1 /\ Len(g.asks) \in Nat
      /\ \A i \in 1 .. Len(g.asks) : asks[i] = g.asks[i]
      /\ asks[Len(g.asks) + 1] = a
  BY <1>5, GhostTypes, PutIn
<1>7. /\ Tiles(g.asks, n) /\ g.taken + Len(dmaReadReqQ) = Len(g.asks)
  BY DEF Told, Cut, n
<1>8. /\ Tiles(asks, n + r.words)
      /\ \A i \in 0 .. Len(g.asks) : End(asks, i) = End(g.asks, i)
  BY <1>5, <1>7, TilesAppend, GhostTypes, EntryTypes
<1> HIDE DEF asks
<1>h. PICK h : h = [g EXCEPT !.asks = asks]
  OBVIOUS
<1>9. /\ h \in Ghost /\ h.asks = asks /\ h.taken = g.taken /\ h.bursts = g.bursts /\ h.cur = g.cur
      /\ h.sent = g.sent /\ h.turned = g.turned /\ h.read = g.read /\ h.flushed = g.flushed
      /\ h.stage = g.stage /\ h.recv = g.recv /\ h.pieces = g.pieces /\ h.joined = g.joined
      /\ h.words = g.words /\ h.written = g.written
  BY <1>6, <1>h DEF Ghost
<1> DEFINE end == End(g.bursts, Len(g.bursts))
           q == Len(dmaReadReqQ)
<1>10. /\ q \in Nat /\ Len(dmaReadReqQ') = q + 1 /\ dmaReadReqQ'[q + 1] = r
       /\ \A i \in 1 .. q : dmaReadReqQ'[i] = dmaReadReqQ[i]
  BY <1>1, PutIn DEF AskTypeOK, dmaReadReq
<1>a. Len(dmaReadReqQ') = q + 1 /\ q \in Nat /\ Len(asks) = Len(g.asks) + 1 /\ Len(g.asks) \in Nat
  BY <1>6, <1>10
<1>11. /\ g.taken \in Nat /\ splitting.words \in Nat
       /\ end \in Nat /\ end <= n
       /\ \A i \in 0 .. Len(g.bursts) : End(g.bursts, i) \in 0 .. end
       /\ \A i \in 1 .. Len(g.bursts) : /\ g.bursts[i].start \in Nat /\ g.bursts[i].words \in Nat
                                        /\ End(g.bursts, i) = g.bursts[i].start + g.bursts[i].words
  <2>1. Tiles(g.bursts, end) /\ end \in Nat /\ end <= n
    BY Bounds DEF n
  <2>2. g.taken \in Nat /\ splitting.words \in Nat
    BY <1>1, GhostTypes DEF AskTypeOK
  <2> HIDE DEF end, n
  <2>3. g.bursts \in Seq(BurstEntry) /\ Spans(BurstEntry)
    BY GhostTypes, EntryTypes
  <2>4. \A i \in 0 .. Len(g.bursts) : End(g.bursts, i) \in 0 .. end
    BY <2>1, <2>3, Ends
  <2>5. \A i \in 1 .. Len(g.bursts) : /\ g.bursts[i].start \in Nat /\ g.bursts[i].words \in Nat
                                       /\ End(g.bursts, i) = g.bursts[i].start + g.bursts[i].words
    BY <2>1, <2>3, Ends
  <2> QED  BY <2>1, <2>2, <2>4, <2>5
<1> HIDE DEF end, q
<1>12. /\ \A i \in 0 .. Len(g.asks) : End(g.asks, i) \in 0 .. n
       /\ \A i \in 1 .. Len(g.asks) : /\ g.asks[i].start \in Nat /\ g.asks[i].words \in Nat
                                      /\ End(g.asks, i) = g.asks[i].start + g.asks[i].words
  <2>1. Tiles(g.asks, n) /\ g.asks \in Seq(AskEntry) /\ Spans(AskEntry)
    BY <1>7, GhostTypes, EntryTypes
  <2>2. \A i \in 0 .. Len(g.asks) : End(g.asks, i) \in 0 .. n
    BY <2>1, Ends
  <2>3. \A i \in 1 .. Len(g.asks) : /\ g.asks[i].start \in Nat /\ g.asks[i].words \in Nat
                                      /\ End(g.asks, i) = g.asks[i].start + g.asks[i].words
    BY <2>1, Ends
  <2> QED  BY <2>2, <2>3
<1>13. /\ \A i \in 1 .. q :
            LET b == g.asks[g.taken + i] IN
              /\ dmaReadReqQ[i] = [addr |-> b.addr, words |-> b.words]
              /\ \A k \in 1 .. b.words : asked[b.start + k] = BusAddr(b.addr + k - 1)
       /\ end + splitting.words = End(g.asks, g.taken)
       /\ \A k \in 1 .. splitting.words : asked[end + k] = BusAddr(splitting.addr + k - 1)
       /\ \A i \in 1 .. Len(g.bursts) : \A k \in 1 .. g.bursts[i].words :
            asked[g.bursts[i].start + k] = g.bursts[i].base + (k - 1)
  BY DEF Told, Cut, q, end
<1>14. g.taken \in 0 .. Len(g.asks) /\ g.taken + q = Len(g.asks) /\ g.taken \in Nat
  <2>1. g.taken + q = Len(g.asks) /\ g.taken \in Nat
    BY <1>7, <1>11 DEF q
  <2> QED  BY <1>a, <2>1
<1>15. UNCHANGED splitting
  BY DEF dmaReadReq, splitVars
<1>20. Cut(h)'
  <2>1. Tiles(asks, Len(asked')) /\ Tiles(g.bursts, end)
    BY <1>4, <1>8, Bounds DEF end
  <2>2. g.taken + Len(dmaReadReqQ') = Len(asks)
    BY <1>a, <1>14
  <2>3. ASSUME NEW i \in 1 .. Len(dmaReadReqQ')
        PROVE  LET b == asks[g.taken + i] IN
              /\ dmaReadReqQ'[i] = [addr |-> b.addr, words |-> b.words]
              /\ \A k \in 1 .. b.words : asked'[b.start + k] = BusAddr(b.addr + k - 1)
    <3>1. CASE i \in 1 .. q
      <4> DEFINE b == g.asks[g.taken + i]
      <4>1. g.taken + i \in 1 .. Len(g.asks)
        BY <1>a, <1>14, <3>1
      <4>2. asks[g.taken + i] = b
        BY <1>6, <4>1
      <4>3. dmaReadReqQ'[i] = [addr |-> b.addr, words |-> b.words]
        BY <1>10, <1>13, <3>1
      <4>4. b.start \in Nat /\ b.words \in Nat /\ b.start + b.words <= n
        <5>1. g.taken + i \in 0 .. Len(g.asks)
          BY <4>1
        <5>2. End(g.asks, g.taken + i) \in 0 .. n
          BY <1>12, <5>1
        <5> QED  BY <1>12, <4>1, <5>2
      <4>5. \A k \in 1 .. b.words : asked[b.start + k] = BusAddr(b.addr + k - 1)
        BY <1>13, <3>1
      <4> HIDE DEF b
      <4>6. \A k \in 1 .. b.words : asked'[b.start + k] = BusAddr(b.addr + k - 1)
        <5> TAKE k \in 1 .. b.words
        <5>1. b.start + k \in 1 .. n
          BY <1>3, <4>4
        <5> QED  BY <1>4, <4>5, <5>1
      <4> QED  BY <4>2, <4>3, <4>6
    <3>2. CASE i = q + 1
      <4>1. g.taken + i = Len(g.asks) + 1
        BY <1>a, <1>14, <3>2
      <4>2. r = [addr |-> r.addr, words |-> r.words]
        BY ReadAssumption
      <4> QED  BY <1>4, <1>5, <1>6, <1>10, <3>2, <4>1, <4>2
    <3> QED  BY <1>10, <3>1, <3>2
  <2>4. end + splitting.words = End(asks, g.taken)
    BY <1>8, <1>13, <1>14
  <2>5. \A k \in 1 .. splitting.words : asked'[end + k] = BusAddr(splitting.addr + k - 1)
    <3> TAKE k \in 1 .. splitting.words
    <3>1. End(g.asks, g.taken) \in 0 .. n
      BY <1>12, <1>14
    <3>3. end + splitting.words = End(g.asks, g.taken) /\ end \in Nat /\ splitting.words \in Nat
      BY <1>11, <1>13
    <3>2. end + k \in 1 .. n
      BY <1>3, <3>1, <3>3
    <3> QED  BY <1>4, <1>13, <3>2
  <2>6. \A i \in 1 .. Len(g.bursts) : \A k \in 1 .. g.bursts[i].words :
            asked'[g.bursts[i].start + k] = g.bursts[i].base + (k - 1)
    <3> TAKE i \in 1 .. Len(g.bursts)
    <3> TAKE k \in 1 .. g.bursts[i].words
    <3>1. /\ End(g.bursts, i) \in 0 .. end /\ g.bursts[i].start \in Nat /\ g.bursts[i].words \in Nat
          /\ End(g.bursts, i) = g.bursts[i].start + g.bursts[i].words
      BY <1>11
    <3>3. end \in Nat /\ end <= n
      BY <1>11
    <3> DEFINE b == g.bursts[i].start
               w == g.bursts[i].words
    <3>4. /\ End(g.bursts, i) \in 0 .. end /\ b \in Nat /\ w \in Nat
          /\ End(g.bursts, i) = b + w /\ k \in 1 .. w
      BY <3>1
    <3> HIDE DEF b, w
    <3>2. b + k \in 1 .. n
      BY <1>3, <3>3, <3>4, SMTT(40)
    <3> QED  BY <1>4, <1>13, <3>2 DEF b
  <2>7. /\ h.asks = asks /\ h.taken = g.taken /\ h.bursts = g.bursts
        /\ splitting' = splitting
    BY <1>9, <1>15
  <2>8. End(h.bursts, Len(h.bursts)) = end
    BY <2>7 DEF end
  <2>9. /\ Tiles(h.asks, Len(asked')) /\ Tiles(h.bursts, end)
        /\ h.taken + Len(dmaReadReqQ') = Len(h.asks)
        /\ end + splitting'.words = End(h.asks, h.taken)
        /\ \A k \in 1 .. splitting'.words : asked'[end + k] = BusAddr(splitting'.addr + k - 1)
    BY <2>1, <2>2, <2>4, <2>5, <2>7
  <2>10. \A i \in 1 .. Len(h.bursts) : \A k \in 1 .. h.bursts[i].words :
            asked'[h.bursts[i].start + k] = h.bursts[i].base + (k - 1)
    BY <2>6, <2>7
  <2>11. \A i \in 1 .. Len(dmaReadReqQ') :
            LET b == h.asks[h.taken + i] IN
              /\ dmaReadReqQ'[i] = [addr |-> b.addr, words |-> b.words]
              /\ \A k \in 1 .. b.words : asked'[b.start + k] = BusAddr(b.addr + k - 1)
    BY <2>3, <2>7, ZenonT(40)
  <2> QED  BY <2>8, <2>9, <2>10, <2>11, ZenonT(40) DEF Cut
<1>21. Flushed(h)'
  <2> DEFINE e == End(g.bursts, g.flushed)
             f == readFlushTag
  <2>1. /\ e \in Nat /\ e <= n
    BY Bounds DEF n
  <2>2. /\ Len(delivered) + Len(dmaReadOutQ) + f.left = e
        /\ \A k \in 1 .. Len(dmaReadOutQ) : dmaReadOutQ[k] = asked[Len(delivered) + k]
        /\ f.left > 0 =>
            /\ f.words <= e
            /\ \A i \in 0 .. MaxBurst - 1 : f.words - f.left <= i /\ i < f.words =>
                 readReorder[f.tag][i] = asked[(e - f.words) + i + 1]
            /\ \A k \in 1 .. Len(g.words) : k > g.written => g.words[k].tag # f.tag
    BY DEF Told, Flushed
  <2>3. f.left \in Nat /\ f.words \in Nat /\ Len(delivered) \in Nat /\ Len(dmaReadOutQ) \in Nat
    BY <1>1, EntryTypes, LenProperties DEF AskTypeOK, OutTypeOK, Lengths
  <2> HIDE DEF e
  <2>4. \A k \in 1 .. Len(dmaReadOutQ) : dmaReadOutQ[k] = asked'[Len(delivered) + k]
    <3> TAKE k \in 1 .. Len(dmaReadOutQ)
    <3>1. Len(delivered) + k \in 1 .. n
      BY <1>3, <2>1, <2>2, <2>3, SMTT(40)
    <3> QED  BY <1>4, <2>2, <3>1
  <2>5. f.left > 0 => \A i \in 0 .. MaxBurst - 1 : f.words - f.left <= i /\ i < f.words =>
          readReorder[f.tag][i] = asked'[(e - f.words) + i + 1]
    <3> SUFFICES ASSUME f.left > 0, NEW i \in 0 .. MaxBurst - 1, f.words - f.left <= i, i < f.words
                 PROVE  readReorder[f.tag][i] = asked'[(e - f.words) + i + 1]
      OBVIOUS
    <3>1. readReorder[f.tag][i] = asked[(e - f.words) + i + 1] /\ f.words <= e
      BY <2>2
    <3>3. i \in Nat /\ n \in Nat
      BY <1>3, EntryTypes
    <3>2. (e - f.words) + i + 1 \in 1 .. n
      BY <2>1, <2>3, <3>1, <3>3, SMTT(40)
    <3> QED  BY <1>4, <3>1, <3>2
  <2>6. UNCHANGED <<readFlushTag, delivered, dmaReadOutQ, readReorder>>
    BY DEF dmaReadReq, outVars, joinVars
  <2> QED  BY <1>9, <2>2, <2>4, <2>5, <2>6 DEF Flushed, e
<1>22. Told(h)'
  BY <1>1, <1>9, <1>20, <1>21, InOrderFrame, PagedFrame, OwnedFrame, StagedFrame, ReadingFrame,
     AnsweredFrame, LinkedFrame, JoiningFrame, ComingFrame, KeptFrame
  DEF dmaReadReq, Told, splitVars, linkVars, joinVars, doneVars, orderVars
<1> QED  BY <1>9, <1>22

(* The next request is cut: its words are those that follow the bursts.    *)
LEMMA SplitDmaReadReqTold ==
  ASSUME ReadInv, NEW g \in Ghost, Told(g), splitDmaReadReq
  PROVE  \E h \in Ghost : Told(h)'
<1>1. AskTypeOK /\ LinkTypeOK
  BY DEF ReadInv
<1> DEFINE j == g.taken + 1
           h == [g EXCEPT !.taken = j]
           end == End(g.bursts, Len(g.bursts))
           q == Len(dmaReadReqQ)
           a == g.asks[j]
<1>2. g.taken \in Nat /\ j \in Nat
  BY GhostTypes
<1> HIDE DEF j
<1>3. /\ h \in Ghost /\ h.asks = g.asks /\ h.taken = j /\ h.bursts = g.bursts /\ h.cur = g.cur
      /\ h.sent = g.sent /\ h.turned = g.turned /\ h.read = g.read /\ h.flushed = g.flushed
      /\ h.stage = g.stage /\ h.recv = g.recv /\ h.pieces = g.pieces /\ h.joined = g.joined
      /\ h.words = g.words /\ h.written = g.written
  BY <1>2 DEF Ghost
<1> HIDE DEF h
<1>4. /\ q \in Nat \ {0} /\ Len(dmaReadReqQ') = q - 1 /\ splitting' = dmaReadReqQ[1]
      /\ \A i \in 1 .. q - 1 : dmaReadReqQ'[i] = dmaReadReqQ[i + 1]
  BY <1>1, TakenOut DEF AskTypeOK, splitDmaReadReq
<1>5. /\ \A i \in 1 .. q :
            LET b == g.asks[g.taken + i] IN
              /\ dmaReadReqQ[i] = [addr |-> b.addr, words |-> b.words]
              /\ \A k \in 1 .. b.words : asked[b.start + k] = BusAddr(b.addr + k - 1)
      /\ end + splitting.words = End(g.asks, g.taken)
      /\ g.taken + q = Len(g.asks) /\ Tiles(g.asks, Len(asked))
  BY DEF Told, Cut
<1> HIDE DEF q, end
<1>6. j = g.taken + 1 /\ j \in 1 .. Len(g.asks) /\ j - 1 = g.taken
  BY <1>2, <1>4, <1>5, SMTT(40) DEF j
<1>7. /\ a.start = End(g.asks, g.taken) /\ a.start + a.words = End(g.asks, j)
      /\ a.start \in Nat /\ a.words \in Nat
  BY <1>5, <1>6, Ends, GhostTypes, EntryTypes, SMTT(40)
<1>8. end = a.start
  <2>1. splitting.words = 0 /\ end \in Nat
    BY Bounds DEF splitDmaReadReq, end
  <2> QED  BY <1>5, <1>7, <2>1
<1>9. splitting' = [addr |-> a.addr, words |-> a.words]
  <2>1. 1 \in 1 .. q
    BY <1>4
  <2> QED  BY <1>4, <1>5, <2>1 DEF j
<1>10. \A k \in 1 .. a.words : asked[a.start + k] = BusAddr(a.addr + k - 1)
  <2>1. 1 \in 1 .. q
    BY <1>4
  <2> QED  BY <1>5, <2>1 DEF j
<1>11. Cut(h)'
  <2>1. j + Len(dmaReadReqQ') = Len(g.asks)
    BY <1>2, <1>4, <1>5, <1>6
  <2>2. ASSUME NEW i \in 1 .. Len(dmaReadReqQ')
        PROVE  LET b == g.asks[j + i] IN
              /\ dmaReadReqQ'[i] = [addr |-> b.addr, words |-> b.words]
              /\ \A k \in 1 .. b.words : asked[b.start + k] = BusAddr(b.addr + k - 1)
    <3>2. q \in Nat \ {0} /\ Len(dmaReadReqQ') = q - 1
      BY <1>4
    <3>3. i \in 1 .. q - 1 /\ i + 1 \in 1 .. q /\ i \in Nat
      BY <3>2
    <3>1. i \in 1 .. q - 1 /\ i + 1 \in 1 .. q /\ g.taken + (i + 1) = j + i
      BY <1>2, <1>6, <3>3, SMTT(40)
    <3>4. dmaReadReqQ'[i] = dmaReadReqQ[i + 1]
      BY <1>4, <3>1
    <3>5. LET b == g.asks[g.taken + (i + 1)] IN
              /\ dmaReadReqQ[i + 1] = [addr |-> b.addr, words |-> b.words]
              /\ \A k \in 1 .. b.words : asked[b.start + k] = BusAddr(b.addr + k - 1)
      BY <1>5, <3>1
    <3> QED  BY <3>1, <3>4, <3>5
  <2> HIDE DEF a
  <2>3. end + splitting'.words = End(g.asks, j)
    BY <1>7, <1>8, <1>9
  <2>4. \A k \in 1 .. splitting'.words : asked[end + k] = BusAddr(splitting'.addr + k - 1)
    BY <1>8, <1>9, <1>10
  <2>5. UNCHANGED asked
    BY DEF splitDmaReadReq
  <2> QED  BY <1>3, <2>1, <2>2, <2>3, <2>4, <2>5 DEF Told, Cut, end
<1>12. Told(h)'
  BY <1>1, <1>3, <1>11, InOrderFrame, PagedFrame, OwnedFrame, StagedFrame, ReadingFrame,
     AnsweredFrame, LinkedFrame, JoiningFrame, ComingFrame, KeptFrame, FlushedFrame
  DEF splitDmaReadReq, Told, linkVars, joinVars, doneVars, orderVars, outVars
<1> QED  BY <1>3, <1>12

(* Inside a page the addresses on the bus follow each other too.           *)
LEMMA InOnePage ==
  ASSUME NEW a \in Nat, NEW i \in Nat, (a % PageWords) + i < PageWords
  PROVE  BusAddr(a + i) = BusAddr(a) + i
<1>0. PageWords \in Nat \ {0}
  BY ReadAssumption
<1>1. ASSUME NEW P \in Nat \ {0}, (a % P) + i < P
      PROVE  (a + i) \div P = a \div P /\ (a + i) % P = (a % P) + i
  BY <1>1
<1>2. (a + i) \div PageWords = a \div PageWords /\ (a + i) % PageWords = (a % PageWords) + i
  BY <1>0, <1>1
<1>3. BusPage(a + i) = BusPage(a)
  BY <1>2 DEF BusPage
<1>4. BusPage(a) * PageWords \in Nat /\ a % PageWords \in Nat
  <2>1. BusPage(a) \in Nat /\ a % PageWords \in Nat
    BY BusTypes, <1>0
  <2>2. \A x, y \in Nat : x * y \in Nat
    OBVIOUS
  <2> QED  BY <1>0, <2>1, <2>2
<1> DEFINE p == BusPage(a) * PageWords
           o == a % PageWords
<1>5. BusAddr(a + i) = p + (o + i) /\ BusAddr(a) = p + o
  BY <1>2, <1>3 DEF BusAddr
<1> HIDE DEF p, o
<1> QED  BY <1>4, <1>5 DEF p, o

(* The entries of g, and where the pieces end.                             *)
LEMMA Entries ==
  ASSUME NEW g \in Ghost
  PROVE  /\ Len(g.asks) \in Nat /\ Len(g.bursts) \in Nat /\ Len(g.pieces) \in Nat /\ Len(g.words) \in Nat
         /\ \A i \in 1 .. Len(g.bursts) :
              /\ g.bursts[i].tag \in Tags /\ g.bursts[i].base \in Nat
              /\ g.bursts[i].words \in 1 .. MaxBurst /\ g.bursts[i].start \in Nat
         /\ \A m \in 1 .. Len(g.pieces) :
              /\ g.pieces[m].tag \in Tags /\ g.pieces[m].place \in Nat
              /\ g.pieces[m].words \in Nat /\ g.pieces[m].words > 0 /\ g.pieces[m].start \in Nat
         /\ \A k \in 1 .. Len(g.words) :
              g.words[k].tag \in Tags /\ g.words[k].place \in Nat /\ g.words[k].piece \in Nat
<1>1. /\ Len(g.asks) \in Nat /\ Len(g.bursts) \in Nat /\ Len(g.pieces) \in Nat /\ Len(g.words) \in Nat
  BY GhostTypes, LenProperties
<1>2. /\ \A i \in 1 .. Len(g.bursts) : g.bursts[i] \in BurstEntry
      /\ \A m \in 1 .. Len(g.pieces) : g.pieces[m] \in PieceEntry
      /\ \A k \in 1 .. Len(g.words) : g.words[k] \in WordEntry
  BY GhostTypes, ElementOfSeq
<1> QED  BY <1>1, <1>2, EntryTypes

(* The pieces cover the words that were answered.                          *)
LEMMA PieceEnds ==
  ASSUME NEW g \in Ghost, Answered(g)
  PROVE  /\ End(g.pieces, 0) = 0 /\ End(g.pieces, Len(g.pieces)) = Len(g.words)
         /\ \A m \in 1 .. Len(g.pieces) :
              /\ g.pieces[m].start = End(g.pieces, m - 1)
              /\ End(g.pieces, m) = g.pieces[m].start + g.pieces[m].words
              /\ End(g.pieces, m) <= Len(g.words)
         /\ \A i \in 0 .. Len(g.pieces) : End(g.pieces, i) \in 0 .. Len(g.words)
         /\ \A i, j \in 0 .. Len(g.pieces) : i <= j => End(g.pieces, i) <= End(g.pieces, j)
<1>1. Tiles(g.pieces, Len(g.words)) /\ g.pieces \in Seq(PieceEntry) /\ Spans(PieceEntry)
  BY GhostTypes, EntryTypes DEF Answered
<1> QED  BY <1>1, Ends, SMTT(40)

(* Every word that is still to be put into readReorder is a word of a      *)
(* burst that waits for it, and so is every piece that is still to come.   *)
LEMMA Waits ==
  ASSUME ReadInv, NEW g \in Ghost, Told(g)
  PROVE  /\ \A k \in 1 .. Len(g.words) : k > g.written => g.stage[g.words[k].tag] = "wait"
         /\ \A m \in 1 .. Len(g.pieces) : m > g.joined => g.stage[g.pieces[m].tag] = "wait"
         /\ tagWordsLeft.words > 0 =>
              /\ g.joined \in 1 .. Len(g.pieces) /\ tagWordsLeft.tag \in Tags
              /\ g.stage[tagWordsLeft.tag] = "wait"
         /\ g.joined \in 0 .. Len(g.pieces)
         /\ g.written <= Got(g) /\ Got(g) <= Len(g.words)
         /\ g.joined <= Headed(g) /\ Headed(g) <= Len(g.pieces)
         /\ g.written <= End(g.pieces, g.joined)
         /\ Len(g.pieces) \in Nat /\ Len(g.words) \in Nat /\ Got(g) \in Nat /\ Headed(g) \in Nat
         /\ Len(burstUpdReqQ) \in Nat /\ Len(readBurstQ) \in Nat /\ Len(dmaReadWordQ) \in Nat
<1>1. LinkTypeOK /\ JoinTypeOK /\ Joined
  BY DEF ReadInv, JoinInv
<1>2. /\ Len(burstUpdReqQ) \in Nat /\ Len(readBurstQ) \in Nat /\ Len(dmaReadWordQ) \in Nat
      /\ Len(g.pieces) \in Nat /\ Len(g.words) \in Nat
      /\ g.joined \in Nat /\ g.written \in Nat
      /\ completionRecv.words \in Nat /\ tagWordsLeft.words \in Nat
  <2>1. Len(burstUpdReqQ) \in Nat /\ Len(readBurstQ) \in Nat /\ Len(dmaReadWordQ) \in Nat
    BY <1>1, LenProperties DEF LinkTypeOK, JoinTypeOK
  <2>2. completionRecv.words \in Nat
    BY <1>1 DEF LinkTypeOK
  <2>3. tagWordsLeft.words \in Nat
    BY <1>1, EntryTypes DEF JoinTypeOK, Lengths
  <2> QED  BY <2>1, <2>2, <2>3, Entries, GhostTypes
<1>0. g.joined \in Nat /\ g.written \in Nat
  BY GhostTypes
<1>3. /\ Headed(g) <= Len(g.pieces)
      /\ Got(g) + completionRecv.words = End(g.pieces, Headed(g))
  BY DEF Told, Linked
<1>4. g.written + tagWordsLeft.words = End(g.pieces, g.joined)
  BY DEF Told, Joining
<1>5. /\ Got(g) \in Nat /\ Headed(g) \in Nat /\ g.written <= Got(g) /\ g.joined <= Headed(g)
  <2>1. Got(g) = g.written + Len(dmaReadWordQ)
    BY DEF Got
  <2>2. Headed(g) = g.joined + Len(burstUpdReqQ) + Len(readBurstQ)
    BY DEF Headed
  <2> DEFINE w == Len(dmaReadWordQ)
             a == Len(burstUpdReqQ)
             b == Len(readBurstQ)
             x == Got(g)
             y == Headed(g)
  <2>3. w \in Nat /\ a \in Nat /\ b \in Nat /\ x = g.written + w /\ y = g.joined + a + b
    BY <1>2, <2>1, <2>2
  <2> HIDE DEF w, a, b, x, y
  <2>4. x \in Nat /\ y \in Nat /\ g.written <= x /\ g.joined <= y
    BY <1>0, <2>3
  <2> QED  BY <2>4 DEF x, y
<1>6. g.joined \in 0 .. Len(g.pieces) /\ Headed(g) \in 0 .. Len(g.pieces)
  BY <1>2, <1>3, <1>5
<1>7. Tiles(g.pieces, Len(g.words))
  BY DEF Told, Answered
<1>8. \A i \in 0 .. Len(g.pieces) : End(g.pieces, i) \in 0 .. Len(g.words)
  BY <1>7, Ends, GhostTypes, EntryTypes
<1>9. Got(g) <= Len(g.words)
  <2>1. End(g.pieces, Headed(g)) \in 0 .. Len(g.words)
    BY <1>6, <1>8
  <2> QED  BY <1>2, <1>3, <1>5, <2>1, SMTT(40)
<1>10. g.written <= End(g.pieces, g.joined)
  BY <1>2, <1>4
<1>11. \A k \in 1 .. Len(g.words) : k > g.written => g.stage[g.words[k].tag] = "wait"
  BY DEF Told, Coming
<1>12. ASSUME NEW m \in 1 .. Len(g.pieces), End(g.pieces, m) > g.written
       PROVE  g.stage[g.pieces[m].tag] = "wait"
  <2> DEFINE k == End(g.pieces, m)
             p == g.pieces[m]
  <2>1. /\ p.start \in Nat /\ p.words \in Nat \ {0} /\ k = p.start + p.words /\ k <= Len(g.words)
    BY Entries, PieceEnds DEF Told
  <2>2. p.words \in 1 .. p.words /\ k \in 1 .. Len(g.words)
    <3> HIDE DEF p, k
    <3> QED  BY <1>2, <2>1, SMTT(40)
  <2>3. g.words[p.start + p.words].tag = p.tag
    <3>1. \A i \in 1 .. p.words : g.words[p.start + i] =
                   [tag |-> p.tag, place |-> p.place + (i - 1), piece |-> m]
      BY DEF Told, Answered
    <3> HIDE DEF p, k
    <3> DEFINE w == p.words
    <3>2. w \in 1 .. w /\ \A i \in 1 .. w : g.words[p.start + i] =
                   [tag |-> p.tag, place |-> p.place + (i - 1), piece |-> m]
      BY <2>2, <3>1
    <3> HIDE DEF w
    <3>3. g.words[p.start + w] = [tag |-> p.tag, place |-> p.place + (w - 1), piece |-> m]
      BY <3>2, Zenon
    <3> QED  BY <3>3 DEF w
  <2> HIDE DEF p
  <2> QED  BY <1>11, <1>12, <2>1, <2>2, <2>3 DEF p
<1>13. \A m \in 1 .. Len(g.pieces) : m > g.joined => g.stage[g.pieces[m].tag] = "wait"
  <2> SUFFICES ASSUME NEW m \in 1 .. Len(g.pieces), m > g.joined
               PROVE  End(g.pieces, m) > g.written
    BY <1>12
  <2>1. /\ g.pieces[m].start = End(g.pieces, m - 1)
        /\ End(g.pieces, m) = g.pieces[m].start + g.pieces[m].words
    BY PieceEnds DEF Told
  <2>2. m - 1 \in 0 .. Len(g.pieces) /\ g.joined <= m - 1
    BY <1>2
  <2>3. End(g.pieces, g.joined) <= End(g.pieces, m - 1)
    BY <1>6, <2>2, PieceEnds DEF Told
  <2>4. g.pieces[m].start \in Nat /\ g.pieces[m].words \in Nat /\ g.pieces[m].words > 0
    BY Entries
  <2>5. End(g.pieces, g.joined) \in Nat
    BY <1>6, <1>8
  <2> QED  BY <1>2, <1>10, <2>1, <2>3, <2>4, <2>5, SMTT(40)
<1>14. tagWordsLeft.words > 0 =>
              /\ g.joined \in 1 .. Len(g.pieces) /\ tagWordsLeft.tag \in Tags
              /\ g.stage[tagWordsLeft.tag] = "wait"
  <2> SUFFICES ASSUME tagWordsLeft.words > 0
               PROVE  /\ g.joined \in 1 .. Len(g.pieces) /\ tagWordsLeft.tag \in Tags
                      /\ g.stage[tagWordsLeft.tag] = "wait"
    OBVIOUS
  <2>1. tagWordsLeft.tag \in Tags
    BY <1>1 DEF Joined
  <2>2. tagWordsLeft.tag = g.pieces[g.joined].tag
    BY DEF Told, Joining
  <2>3. End(g.pieces, g.joined) > g.written
    BY <1>2, <1>4
  <2>4. g.joined # 0
    <3>1. End(g.pieces, 0) = 0
      BY DEF End
    <3> QED  BY <1>2, <2>3, <3>1
  <2>5. g.joined \in 1 .. Len(g.pieces)
    BY <1>6, <2>4
  <2> QED  BY <1>12, <2>1, <2>2, <2>3, <2>5
<1> QED  BY <1>2, <1>3, <1>5, <1>6, <1>9, <1>10, <1>11, <1>13, <1>14

(* A burst is cut off: it is a burst more, and it owns its tag.  Nothing is *)
(* left of the tag's last burst, because that was flushed before the tag   *)
(* was freed.                                                              *)
LEMMA SplitDmaReadReq2Told ==
  ASSUME ReadInv, NEW g \in Ghost, Told(g), splitDmaReadReq2
  PROVE  \E h \in Ghost : Told(h)'
<1>1. AskTypeOK /\ LinkTypeOK /\ JoinTypeOK /\ OrderTypeOK
  BY DEF ReadInv, JoinInv
<1> DEFINE B == g.bursts
           l == Len(B)
           end == End(B, l)
           s == splitting
           page == [off |-> s.addr % PageWords, words |-> BurstLen(s), tag |-> Head(freeReadTagQ)]
<1>2. PICK t : t = Head(freeReadTagQ)
  OBVIOUS
<1>3. PICK n : n = BurstLen(s)
  OBVIOUS
<1>4. PICK base : base = BusAddr(s.addr)
  OBVIOUS
<1>5. /\ s.addr \in Nat /\ s.words \in Nat /\ s.words > 0
      /\ t \in Tags /\ freeReadTagQ \in Seq(Tags) /\ freeReadTagQ # <<>> /\ freeReadTagFQ \in Seq(Tags)
  BY <1>1, <1>2, TakenOut DEF AskTypeOK, splitDmaReadReq2
<1>6. n \in 1 .. MaxBurst /\ n \in Nat /\ n <= s.words
  <2>1. splitting \in [addr : Nat, words : Nat] /\ splitting.words > 0
    BY <1>1, <1>5 DEF AskTypeOK
  <2>2. n \in 1 .. MaxBurst /\ n <= s.words
    BY <1>3, <2>1, BurstLenType
  <2> QED  BY <2>2, EntryTypes
<1>7. base \in Nat /\ s.addr % PageWords \in 0 .. PageWords - 1 /\ BusPage(s.addr) \in Nat
      /\ base = BusPage(s.addr) * PageWords + (s.addr % PageWords)
  <2>1. base \in Nat /\ s.addr % PageWords \in 0 .. PageWords - 1 /\ BusPage(s.addr) \in Nat
    BY <1>4, <1>5, BusTypes
  <2>2. base = BusPage(s.addr) * PageWords + (s.addr % PageWords)
    BY <1>4 DEF BusAddr
  <2> QED  BY <2>1, <2>2
<1>8. \A k \in 1 .. n : BusAddr(s.addr + k - 1) = base + (k - 1)
  <2> TAKE k \in 1 .. n
  <2>1. k - 1 \in Nat /\ s.addr + (k - 1) = s.addr + k - 1
    BY <1>5, <1>6
  <2>2. n <= PageWords - (s.addr % PageWords)
    <3>1. s.addr % PageWords \in Int /\ PageWords \in Int /\ MaxBurst \in Int
      BY <1>7, ReadAssumption
    <3> QED  BY <1>3, <1>5, <3>1 DEF BurstLen, Least
  <2>3. (s.addr % PageWords) + (k - 1) < PageWords
    <3>1. s.addr % PageWords \in Int /\ PageWords \in Int
      BY <1>7, ReadAssumption
    <3> QED  BY <1>6, <2>2, <3>1
  <2>4. BusAddr(s.addr + (k - 1)) = base + (k - 1)
    BY <1>4, <1>5, <2>1, <2>3, InOnePage
  <2> QED  BY <2>1, <2>4
<1>9. /\ splitting' = [addr |-> s.addr + n, words |-> s.words - n]
      /\ dmaPageReadReqQ' = Append(dmaPageReadReqQ, [off |-> s.addr % PageWords, words |-> n, tag |-> t])
      /\ tagMap' = [tagMap EXCEPT ![t] = [req |-> n, done |-> 0]]
      /\ freeReadTagQ' = Tail(freeReadTagQ)
      /\ bufidxQ' = Append(bufidxQ, BusPage(s.addr))
  BY <1>2, <1>3 DEF splitDmaReadReq2
<1>10. /\ end \in Nat /\ end <= Len(asked) /\ Tiles(B, end) /\ l \in Nat
       /\ g.flushed <= g.read /\ g.read <= g.turned /\ g.turned <= g.sent /\ g.sent <= l
  BY Bounds
<1>11. /\ g.flushed \in Nat /\ g.read \in Nat /\ g.turned \in Nat /\ g.sent \in Nat
       /\ g.cur \in [Tags -> Nat] /\ g.recv \in [Tags -> Nat] /\ B \in Seq(BurstEntry)
       /\ g.stage \in [Tags -> Stages]
  BY GhostTypes
<1>a. /\ g.flushed \in Nat /\ g.read \in Nat /\ g.turned \in Nat /\ g.sent \in Nat /\ l \in Nat
      /\ g.flushed <= g.read /\ g.read <= g.turned /\ g.turned <= g.sent /\ g.sent <= l
  BY <1>10, <1>11
<1> DEFINE b == [tag |-> t, base |-> base, words |-> n, start |-> end]
           bursts == Append(B, b)
           cur == [g.cur EXCEPT ![t] = l + 1]
           recv == [g.recv EXCEPT ![t] = 0]
           h == [g EXCEPT !.bursts = bursts, !.cur = cur, !.recv = recv]
<1>12. b \in BurstEntry /\ b.tag = t /\ b.base = base /\ b.words = n /\ b.start = end
  BY <1>5, <1>6, <1>7, <1>10 DEF BurstEntry
<1> HIDE DEF b
<1>13. /\ bursts \in Seq(BurstEntry) /\ Len(bursts) = l + 1
       /\ \A i \in 1 .. l : bursts[i] = B[i]
       /\ bursts[l + 1] = b
  BY <1>11, <1>12, PutIn
<1>14. /\ Tiles(bursts, end + n)
       /\ \A i \in 0 .. l : End(bursts, i) = End(B, i)
       /\ End(bursts, l + 1) = end + n
  <2>1. Spans(BurstEntry) /\ Tiles(B, end) /\ b.start = end
    BY <1>10, <1>12, EntryTypes
  <2> HIDE DEF end
  <2>2. /\ Tiles(bursts, end + b.words)
        /\ \A i \in 0 .. l : End(bursts, i) = End(B, i)
        /\ End(bursts, l + 1) = end + b.words
    BY <1>11, <1>12, <2>1, TilesAppend
  <2> QED  BY <1>12, <2>2
<1>15. /\ cur \in [Tags -> Nat] /\ cur[t] = l + 1 /\ \A u \in Tags : u # t => cur[u] = g.cur[u]
       /\ recv \in [Tags -> Nat] /\ recv[t] = 0 /\ \A u \in Tags : u # t => recv[u] = g.recv[u]
  <2>1. l + 1 \in Nat /\ 0 \in Nat
    BY <1>10
  <2> HIDE DEF l
  <2> QED  BY <1>5, <1>11, <2>1
<1> HIDE DEF bursts, cur, recv
<1>16. /\ h \in Ghost /\ h.asks = g.asks /\ h.taken = g.taken /\ h.bursts = bursts /\ h.cur = cur
      /\ h.sent = g.sent /\ h.turned = g.turned /\ h.read = g.read /\ h.flushed = g.flushed
      /\ h.stage = g.stage /\ h.recv = recv /\ h.pieces = g.pieces /\ h.joined = g.joined
      /\ h.words = g.words /\ h.written = g.written
  BY <1>13, <1>15 DEF Ghost
<1> HIDE DEF h
<1>17. UNCHANGED <<asked, requests, dmaReadReqQ, dmaReadBufAddrQ, linkVars, readCompletionsb,
                   burstUpdReqQ, tagWordsLeft, readReorder, doneVars, orderVars, outVars,
                   freeReadTagFQ, dmaReadTagOrderQ>>
  BY DEF splitDmaReadReq2, askVars, joinVars
(* The tag is free: its last burst has been flushed.                       *)
<1>20. /\ Free = freeReadTagQ \o freeReadTagFQ /\ Free \in Seq(Tags) /\ Len(Free) \in Nat \ {0}
       /\ Free[1] = t /\ Free' = Tail(Free)
  <2>1. /\ Free \in Seq(Tags) /\ Len(Free) = Len(freeReadTagQ) + Len(freeReadTagFQ)
        /\ \A i \in 1 .. Len(freeReadTagQ) + Len(freeReadTagFQ) :
             Free[i] = IF i <= Len(freeReadTagQ) THEN freeReadTagQ[i]
                                                 ELSE freeReadTagFQ[i - Len(freeReadTagQ)]
    BY <1>5, ConcatProperties DEF Free
  <2>2. Len(freeReadTagQ) \in Nat \ {0} /\ Len(freeReadTagFQ) \in Nat /\ t = freeReadTagQ[1]
    BY <1>2, <1>5, TakenOut, LenProperties
  <2>3. Len(Free) \in Nat \ {0} /\ 1 \in 1 .. Len(freeReadTagQ) + Len(freeReadTagFQ) /\ 1 <= Len(freeReadTagQ)
    BY <2>1, <2>2
  <2>4. Free[1] = t
    BY <2>1, <2>2, <2>3
  <2>5. Free' = Tail(freeReadTagQ) \o freeReadTagFQ
    BY <1>9, <1>17 DEF Free
  <2>6. Tail(freeReadTagQ) \o freeReadTagFQ = Tail(freeReadTagQ \o freeReadTagFQ)
    BY <1>5, TailConcat
  <2> QED  BY <2>1, <2>3, <2>4, <2>5, <2>6 DEF Free
<1>21. /\ Len(Free') = Len(Free) - 1
       /\ \A k \in 1 .. Len(Free) - 1 : Free'[k] = Free[k + 1]
  <2>1. Free # <<>>
    BY <1>20, EmptySeq
  <2> QED  BY <1>20, <2>1, TakenOut
<1>22. /\ \A i \in 1 .. l : i > g.flushed => g.cur[B[i].tag] = i
       /\ \A u \in Tags : g.cur[u] <= l /\ (g.cur[u] > 0 => Mine(g, u).tag = u)
       /\ \A k \in 1 .. Len(Free) : g.cur[Free[k]] <= g.flushed
       /\ \A j, k \in 1 .. Len(Free) : Free[j] = Free[k] => j = k
  BY DEF Told, Owned
<1>23. g.cur[t] <= g.flushed /\ g.cur[t] \in Nat
  <2>1. 1 \in 1 .. Len(Free)
    BY <1>20
  <2> QED  BY <1>5, <1>11, <1>20, <1>22, <2>1
<1>24. \A u \in Tags : g.stage[u] # "idle" => g.turned < g.cur[u] /\ g.cur[u] <= g.sent
  BY DEF Told, Staged
<1>25. g.stage[t] = "idle"
  <2> SUFFICES ASSUME g.stage[t] # "idle" PROVE FALSE
    OBVIOUS
  <2>1. g.turned < g.cur[t]
    BY <1>5, <1>24
  <2> QED  BY <1>10, <1>11, <1>23, <2>1
(* The bursts of the other tags stay.                                      *)
<1>26. ASSUME NEW u \in Tags, u # t, g.cur[u] > 0
       PROVE  Mine(h, u) = Mine(g, u)
  <2>1. g.cur[u] \in 1 .. l
    BY <1>10, <1>11, <1>22, <1>26
  <2> QED  BY <1>13, <1>15, <1>16, <1>26, <2>1 DEF Mine
<1>27. ASSUME NEW u \in Tags, g.stage[u] # "idle"
       PROVE  /\ u # t /\ h.cur[u] = g.cur[u] /\ h.recv[u] = g.recv[u]
              /\ Mine(h, u) = Mine(g, u) /\ tagMap'[u] = tagMap[u]
  <2>1. u # t
    BY <1>25, <1>27
  <2>2. g.cur[u] > 0
    <3>1. g.turned < g.cur[u] /\ g.cur[u] \in Nat
      BY <1>11, <1>24, <1>27
    <3> QED  BY <1>11, <3>1
  <2> QED  BY <1>1, <1>9, <1>15, <1>16, <1>26, <2>1, <2>2 DEF JoinTypeOK
<1>28. ASSUME NEW u \in Tags, g.stage[u] # "idle"
       PROVE  Written(u)' = Written(u)
  <2>1. tagMap'[u] = tagMap[u] /\ tagWordsLeft' = tagWordsLeft
    BY <1>17, <1>27, <1>28
  <2> QED  BY <2>1 DEF Written
<1>29. Mine(h, t) = b
  <2>1. h.bursts = bursts /\ h.cur[t] = l + 1
    BY <1>15, <1>16
  <2> QED  BY <1>13, <2>1 DEF Mine
<1> HIDE DEF l, end
<1>30. Cut(h)'
  <2>1. /\ Tiles(g.asks, Len(asked)) /\ g.taken + Len(dmaReadReqQ) = Len(g.asks)
        /\ \A i \in 1 .. Len(dmaReadReqQ) :
             LET a == g.asks[g.taken + i] IN
               /\ dmaReadReqQ[i] = [addr |-> a.addr, words |-> a.words]
               /\ \A k \in 1 .. a.words : asked[a.start + k] = BusAddr(a.addr + k - 1)
        /\ end + s.words = End(g.asks, g.taken)
        /\ \A k \in 1 .. s.words : asked[end + k] = BusAddr(s.addr + k - 1)
        /\ \A i \in 1 .. l : \A k \in 1 .. B[i].words : asked[B[i].start + k] = B[i].base + (k - 1)
    BY DEF Told, Cut, end, l
  <2>2. splitting'.addr = s.addr + n /\ splitting'.words = s.words - n
    BY <1>9
  <2>3. (end + n) + splitting'.words = End(g.asks, g.taken)
    <3>1. end + s.words = End(g.asks, g.taken)
      BY <2>1
    <3> QED  BY <1>5, <1>6, <1>10, <2>2, <3>1
  <2>4. \A k \in 1 .. splitting'.words : asked[(end + n) + k] = BusAddr(splitting'.addr + k - 1)
    <3> TAKE k \in 1 .. splitting'.words
    <3>1. /\ n + k \in 1 .. s.words /\ (end + n) + k = end + (n + k)
          /\ s.addr + (n + k) - 1 = (s.addr + n) + k - 1
      BY <1>5, <1>6, <1>10, <2>2, SMTT(40)
    <3>2. asked[end + (n + k)] = BusAddr(s.addr + (n + k) - 1)
      BY <2>1, <3>1
    <3> QED  BY <2>2, <3>1, <3>2
  <2>5. \A i \in 1 .. l + 1 : \A k \in 1 .. bursts[i].words :
          asked[bursts[i].start + k] = bursts[i].base + (k - 1)
    <3> TAKE i \in 1 .. l + 1
    <3>1. CASE i \in 1 .. l
      BY <1>13, <2>1, <3>1
    <3>2. CASE i = l + 1
      <4> SUFFICES \A k \in 1 .. n : asked[end + k] = base + (k - 1)
        BY <1>12, <1>13, <3>2
      <4> TAKE k \in 1 .. n
      <4>1. k \in 1 .. s.words
        BY <1>5, <1>6
      <4> QED  BY <1>8, <2>1, <4>1
    <3> QED  BY <1>10, <3>1, <3>2
  <2>6. End(bursts, Len(bursts)) = end + n
    BY <1>13, <1>14
  <2>7. Tiles(bursts, end + n)
    BY <1>14
  <2> HIDE DEF s
  <2> QED  BY <1>13, <1>16, <1>17, <2>1, <2>3, <2>4, <2>5, <2>6, <2>7 DEF Cut
<1>31. InOrder(h)'
  <2>1. /\ g.read = g.flushed + Len(orderedReadDoneTagQ)
        /\ g.turned = g.read + Len(doneReorderedTagQ)
        /\ g.sent = g.turned + Len(orderShifter) + Len(dmaReadTagOrderQ)
        /\ \A k \in 1 .. Len(orderedReadDoneTagQ) :
             /\ orderedReadDoneTagQ[k].tag = B[g.flushed + k].tag
             /\ orderedReadDoneTagQ[k].words = B[g.flushed + k].words
        /\ \A k \in 1 .. Len(doneReorderedTagQ) : doneReorderedTagQ[k] = B[g.read + k].tag
        /\ \A k \in 1 .. Len(orderShifter) : orderShifter[k] = B[g.turned + k].tag
        /\ \A k \in 1 .. Len(dmaReadTagOrderQ) :
             dmaReadTagOrderQ[k] = B[g.turned + Len(orderShifter) + k].tag
        /\ curOrderTag # NoTag => orderShifter # <<>> /\ curOrderTag = Head(orderShifter)
    BY DEF Told, InOrder
  <2>2. /\ \A k \in 1 .. Len(orderedReadDoneTagQ) : g.flushed + k \in 1 .. l
        /\ \A k \in 1 .. Len(doneReorderedTagQ) : g.read + k \in 1 .. l
        /\ \A k \in 1 .. Len(orderShifter) : g.turned + k \in 1 .. l
        /\ \A k \in 1 .. Len(dmaReadTagOrderQ) : g.turned + Len(orderShifter) + k \in 1 .. l
    <3> DEFINE w == Len(orderedReadDoneTagQ)
               x == Len(doneReorderedTagQ)
               y == Len(orderShifter)
               z == Len(dmaReadTagOrderQ)
    <3>1. w \in Nat /\ x \in Nat /\ y \in Nat /\ z \in Nat
      BY <1>1, LenProperties DEF OrderTypeOK
    <3>2. g.read = g.flushed + w /\ g.turned = g.read + x /\ g.sent = g.turned + y + z
      BY <2>1
    <3> HIDE DEF w, x, y, z
    <3>3. g.flushed + w <= l /\ g.read + x <= l /\ g.turned + y + z <= l
      BY <1>a, <3>1, <3>2
    <3>4. \A k \in 1 .. w : g.flushed + k \in 1 .. l
      BY <1>a, <3>1, <3>3
    <3>5. \A k \in 1 .. x : g.read + k \in 1 .. l
      BY <1>a, <3>1, <3>3
    <3>6. \A k \in 1 .. y : g.turned + k \in 1 .. l
      BY <1>a, <3>1, <3>3
    <3>7. \A k \in 1 .. z : g.turned + y + k \in 1 .. l
      BY <1>a, <3>1, <3>3
    <3> QED  BY <3>4, <3>5, <3>6, <3>7 DEF w, x, y, z
  <2>3. UNCHANGED <<orderedReadDoneTagQ, doneReorderedTagQ, orderShifter, dmaReadTagOrderQ, curOrderTag>>
    BY <1>17 DEF orderVars
  <2>4. \A k \in 1 .. Len(orderedReadDoneTagQ) :
             /\ orderedReadDoneTagQ[k].tag = bursts[g.flushed + k].tag
             /\ orderedReadDoneTagQ[k].words = bursts[g.flushed + k].words
    BY <1>13, <2>1, <2>2
  <2>5. \A k \in 1 .. Len(doneReorderedTagQ) : doneReorderedTagQ[k] = bursts[g.read + k].tag
    BY <1>13, <2>1, <2>2
  <2>6. \A k \in 1 .. Len(orderShifter) : orderShifter[k] = bursts[g.turned + k].tag
    BY <1>13, <2>1, <2>2
  <2>7. \A k \in 1 .. Len(dmaReadTagOrderQ) :
             dmaReadTagOrderQ[k] = bursts[g.turned + Len(orderShifter) + k].tag
    BY <1>13, <2>1, <2>2
  <2> QED  BY <1>16, <2>1, <2>3, <2>4, <2>5, <2>6, <2>7 DEF InOrder
<1>32. Paged(h)'
  <2> DEFINE q == Len(dmaPageReadReqQ)
             p == BusPage(s.addr)
             x == [off |-> s.addr % PageWords, words |-> n, tag |-> t]
  <2>1. /\ l = g.sent + q /\ Len(Pages) = q
        /\ \A k \in 1 .. q :
             /\ dmaPageReadReqQ[k].tag = B[g.sent + k].tag
             /\ dmaPageReadReqQ[k].words = B[g.sent + k].words
             /\ B[g.sent + k].base = Pages[k] * PageWords + dmaPageReadReqQ[k].off
    BY DEF Told, Paged, l
  <2>2. x \in [off : 0 .. PageWords - 1, words : Lengths, tag : Tags]
    BY <1>5, <1>6, <1>7, EntryTypes DEF Lengths
  <2>3. x.off = s.addr % PageWords /\ x.words = n /\ x.tag = t
    OBVIOUS
  <2> HIDE DEF x
  <2>4. /\ q \in Nat /\ Len(dmaPageReadReqQ') = q + 1 /\ dmaPageReadReqQ'[q + 1] = x
        /\ \A i \in 1 .. q : dmaPageReadReqQ'[i] = dmaPageReadReqQ[i]
    BY <1>1, <1>9, <2>2, PutIn, SMTT(40) DEF AskTypeOK, x
  <2>5. Pages \in Seq(Nat) /\ Pages' = Append(Pages, p)
    <3>1. dmaReadBufAddrQ \in Seq(Nat) /\ bufidxQ \in Seq(Nat) /\ p \in Nat
      BY <1>1, <1>7 DEF AskTypeOK
    <3>2. Pages' = dmaReadBufAddrQ \o Append(bufidxQ, p)
      BY <1>9, <1>17 DEF Pages
    <3>3. dmaReadBufAddrQ \o Append(bufidxQ, p) = Append(dmaReadBufAddrQ \o bufidxQ, p)
      BY <3>1, AppendConcat, SMTT(40)
    <3> QED  BY <3>1, <3>2, <3>3, ConcatProperties DEF Pages
  <2>6. /\ Len(Pages') = q + 1 /\ Pages'[q + 1] = p /\ \A i \in 1 .. q : Pages'[i] = Pages[i]
    BY <1>7, <2>1, <2>5, PutIn
  <2> HIDE DEF q
  <2>7. Len(bursts) = g.sent + (q + 1)
    BY <1>11, <1>13, <2>1, <2>4
  <2>8. ASSUME NEW k \in 1 .. q + 1
        PROVE  /\ dmaPageReadReqQ'[k].tag = bursts[g.sent + k].tag
               /\ dmaPageReadReqQ'[k].words = bursts[g.sent + k].words
               /\ bursts[g.sent + k].base = Pages'[k] * PageWords + dmaPageReadReqQ'[k].off
    <3>1. CASE k \in 1 .. q
      <4>1. g.sent + k \in 1 .. l
        <5>1. l = g.sent + q
          BY <2>1
        <5> QED  BY <1>a, <2>4, <3>1, <5>1, SMTT(40)
      <4> QED  BY <1>13, <2>1, <2>4, <2>6, <3>1, <4>1, ZenonT(40)
    <3>2. CASE k = q + 1
      <4>1. g.sent + k = l + 1
        <5>1. l = g.sent + q
          BY <2>1
        <5> QED  BY <1>a, <2>4, <3>2, <5>1, SMTT(40)
      <4>2. bursts[g.sent + k] = b /\ dmaPageReadReqQ'[k] = x /\ Pages'[k] = p
        BY <1>13, <2>4, <2>6, <3>2, <4>1
      <4>3. /\ dmaPageReadReqQ'[k].tag = t /\ bursts[g.sent + k].tag = t
            /\ dmaPageReadReqQ'[k].words = n /\ bursts[g.sent + k].words = n
            /\ bursts[g.sent + k].base = base /\ dmaPageReadReqQ'[k].off = s.addr % PageWords
        BY <1>12, <2>3, <4>2
      <4>4. base = p * PageWords + (s.addr % PageWords)
        BY <1>7
      <4> QED  BY <4>2, <4>3, <4>4
    <3> QED  BY <2>4, <3>1, <3>2
  <2> QED  BY <1>16, <2>4, <2>6, <2>7, <2>8 DEF Paged
<1>33. Owned(h)'
  <2>1. \A i \in 1 .. l + 1 : i > g.flushed => cur[bursts[i].tag] = i
    <3> SUFFICES ASSUME NEW i \in 1 .. l + 1, i > g.flushed PROVE cur[bursts[i].tag] = i
      OBVIOUS
    <3>1. CASE i \in 1 .. l
      <4>1. bursts[i] = B[i] /\ g.cur[B[i].tag] = i /\ B[i].tag \in Tags
        BY <1>13, <1>22, <3>1, Entries DEF l
      <4>2. B[i].tag # t
        BY <1>11, <1>23, <4>1
      <4> QED  BY <1>15, <4>1, <4>2
    <3>2. CASE i = l + 1
      BY <1>12, <1>13, <1>15, <3>2
    <3> QED  BY <1>10, <3>1, <3>2
  <2>2. ASSUME NEW u \in Tags
        PROVE  cur[u] <= l + 1 /\ (cur[u] > 0 => Mine(h, u).tag = u)
    <3>1. CASE u = t
      BY <1>10, <1>12, <1>15, <1>29, <3>1
    <3>2. CASE u # t
      <4>1. cur[u] = g.cur[u] /\ g.cur[u] <= l /\ g.cur[u] \in Nat /\ (g.cur[u] > 0 => Mine(g, u).tag = u)
        BY <1>11, <1>15, <1>22, <3>2
      <4> QED  BY <1>10, <1>26, <3>2, <4>1
    <3> QED  BY <3>1, <3>2
  <2>3. ASSUME NEW k \in 1 .. Len(Free') PROVE cur[Free'[k]] <= g.flushed
    <3>1. k \in 1 .. Len(Free) - 1 /\ k + 1 \in 1 .. Len(Free) /\ k + 1 # 1 /\ 1 \in 1 .. Len(Free)
      <4>1. Len(Free) \in Nat /\ Len(Free') = Len(Free) - 1
        BY <1>20, <1>21
      <4> QED  BY <4>1
    <3>2. Free'[k] = Free[k + 1]
      BY <1>21, <3>1
    <3>3. Free[k + 1] # t
      BY <1>20, <1>22, <3>1
    <3>4. Free[k + 1] \in Tags
      BY <1>20, <3>1, ElementOfSeq
    <3> QED  BY <1>15, <1>22, <3>1, <3>2, <3>3, <3>4
  <2>4. ASSUME NEW j \in 1 .. Len(Free'), NEW k \in 1 .. Len(Free'), Free'[j] = Free'[k]
        PROVE  j = k
    <3>1. Len(Free) \in Nat /\ Len(Free') = Len(Free) - 1
      BY <1>20, <1>21
    <3>2. /\ j \in 1 .. Len(Free) - 1 /\ k \in 1 .. Len(Free) - 1
          /\ j + 1 \in 1 .. Len(Free) /\ k + 1 \in 1 .. Len(Free)
      BY <3>1
    <3>3. j + 1 = k + 1
      BY <1>21, <1>22, <2>4, <3>2
    <3> QED  BY <3>3
  <2> QED  BY <1>13, <1>16, <2>1, <2>2, <2>3, <2>4 DEF Owned
<1>34. Staged(h)'
  <2>1. /\ \A u \in Tags :
             /\ g.stage[u] # "idle" => g.turned < g.cur[u] /\ g.cur[u] <= g.sent
             /\ Ready(u) <=> g.stage[u] = "ready"
             /\ g.cur[u] > g.flushed => tagMap[u].req = Mine(g, u).words
             /\ g.cur[u] > g.sent => g.recv[u] = 0 /\ tagMap[u].done = 0
             /\ \/ g.stage[u] \in {"passing", "ready"}
                \/ g.read < g.cur[u] /\ g.cur[u] <= g.turned
                => doneMap[u] = Mine(g, u).words
        /\ \A k \in 1 .. Len(readDoneTagQ) :
             /\ g.stage[readDoneTagQ[k].tag] = "done"
             /\ readDoneTagQ[k].words = Mine(g, readDoneTagQ[k].tag).words
        /\ \A j, k \in 1 .. Len(readDoneTagQ) : readDoneTagQ[j].tag = readDoneTagQ[k].tag => j = k
        /\ \A k \in 1 .. Len(doneShifter) : g.stage[doneShifter[k]] = "passing"
        /\ \A j, k \in 1 .. Len(doneShifter) : doneShifter[j] = doneShifter[k] => j = k
    BY DEF Told, Staged
  <2>2. UNCHANGED <<orderTagMap, doneTagMap, doneMap, readDoneTagQ, doneShifter>>
    BY <1>17 DEF doneVars, orderVars
  <2>3. ASSUME NEW u \in Tags
        PROVE  /\ g.stage[u] # "idle" => g.turned < cur[u] /\ cur[u] <= g.sent
               /\ Ready(u)' <=> g.stage[u] = "ready"
               /\ cur[u] > g.flushed => tagMap'[u].req = Mine(h, u).words
               /\ cur[u] > g.sent => recv[u] = 0 /\ tagMap'[u].done = 0
               /\ \/ g.stage[u] \in {"passing", "ready"}
                  \/ g.read < cur[u] /\ cur[u] <= g.turned
                  => doneMap[u] = Mine(h, u).words
    <3>0. Ready(u)' <=> Ready(u)
      BY <2>2 DEF Ready
    <3>1. CASE u = t
      <4>1. tagMap'[t].req = n /\ tagMap'[t].done = 0
        BY <1>1, <1>5, <1>9 DEF JoinTypeOK
      <4>2. ~(l + 1 <= g.turned)
        BY <1>a
      <4> QED  BY <1>12, <1>15, <1>25, <1>29, <2>1, <3>0, <3>1, <4>1, <4>2
    <3>2. CASE u # t
      <4>1. cur[u] = g.cur[u] /\ recv[u] = g.recv[u] /\ g.cur[u] \in Nat
        BY <1>11, <1>15, <3>2
      <4>2. tagMap'[u] = tagMap[u]
        BY <1>1, <1>9, <3>2 DEF JoinTypeOK
      <4>3. g.cur[u] > 0 => Mine(h, u) = Mine(g, u)
        BY <1>26, <3>2
      <4>4. (g.cur[u] > g.flushed \/ g.cur[u] > g.read) => g.cur[u] > 0
        BY <1>a, <4>1
      <4>5. g.stage[u] \in {"passing", "ready"} => g.cur[u] > 0
        <5>1. g.turned < g.cur[u] => g.cur[u] > 0
          BY <1>a, <4>1
        <5> QED  BY <2>1, <5>1
      <4> QED  BY <2>1, <3>0, <4>1, <4>2, <4>3, <4>4, <4>5
    <3> QED  BY <3>1, <3>2
  <2>4. \A k \in 1 .. Len(readDoneTagQ) : readDoneTagQ[k].words = Mine(h, readDoneTagQ[k].tag).words
    <3> TAKE k \in 1 .. Len(readDoneTagQ)
    <3>1. readDoneTagQ[k].tag \in Tags
      <4>1. readDoneTagQ[k] \in [tag : Tags, words : Lengths]
        BY <1>1, ElementOfSeq DEF OrderTypeOK
      <4> QED  BY <4>1
    <3>2. g.stage[readDoneTagQ[k].tag] # "idle"
      BY <2>1
    <3> QED  BY <1>27, <2>1, <3>1, <3>2
  <2> QED  BY <1>16, <2>1, <2>2, <2>3, <2>4 DEF Staged
<1>35. Reading(h)'
  <2>1. ASSUME NEW r \in reads
        PROVE  /\ g.stage[r.tag] = "wait" /\ r.words > 0
               /\ recv[r.tag] + r.words = Mine(h, r.tag).words
               /\ r.bus = Mine(h, r.tag).base + recv[r.tag]
    <3>1. r.tag \in Tags
      BY <1>1 DEF LinkTypeOK, Burst
    <3>2. /\ g.stage[r.tag] = "wait" /\ r.words > 0
          /\ g.recv[r.tag] + r.words = Mine(g, r.tag).words
          /\ r.bus = Mine(g, r.tag).base + g.recv[r.tag]
      BY DEF Told, Reading
    <3> QED  BY <1>16, <1>27, <3>1, <3>2
  <2>2. UNCHANGED reads
    BY <1>17 DEF linkVars
  <2> QED  BY <1>16, <2>1, <2>2 DEF Reading
<1>36. \A u \in Tags : g.stage[u] = "wait" =>
          /\ Mine(h, u) = Mine(g, u) /\ tagMap'[u] = tagMap[u] /\ Written(u)' = Written(u)
          /\ recv[u] = g.recv[u]
  BY <1>16, <1>27, <1>28
<1> DEFINE P == g.pieces
           W == g.words
<1>37. /\ \A k \in 1 .. Len(W) : k > g.written => g.stage[W[k].tag] = "wait" /\ W[k].tag \in Tags
       /\ \A m \in 1 .. Len(P) : m > g.joined => g.stage[P[m].tag] = "wait" /\ P[m].tag \in Tags
       /\ tagWordsLeft.words > 0 => tagWordsLeft.tag \in Tags /\ g.stage[tagWordsLeft.tag] = "wait"
  BY Waits, Entries
<1>38. /\ g.written \in Nat /\ g.joined \in Nat /\ Got(g) \in Nat /\ Headed(g) \in Nat
       /\ Len(P) \in Nat /\ Len(W) \in Nat
       /\ g.written <= Got(g) /\ Got(g) <= Len(W) /\ g.joined <= Headed(g) /\ Headed(g) <= Len(P)
  BY Waits, GhostTypes
<1>39. /\ Got(g) = g.written + Len(dmaReadWordQ) /\ Len(dmaReadWordQ) \in Nat
       /\ Headed(g) = g.joined + Len(burstUpdReqQ) + Len(readBurstQ)
       /\ Len(burstUpdReqQ) \in Nat /\ Len(readBurstQ) \in Nat
  BY Waits DEF Got, Headed
<1>40. Linked(h)'
  <2>1. /\ Got(g) + completionRecv.words = End(P, Headed(g))
        /\ completionRecv.words > 0 => completionRecv.words <= P[Headed(g)].words
        /\ Len(tlpQ) + Got(g) + Headed(g) = Len(W) + Len(P)
        /\ \A m \in 1 .. Len(P) : m > Headed(g) =>
             LET e == tlpQ[(P[m].start + m) - (Got(g) + Headed(g))] IN
               e.tag = P[m].tag /\ e.val = P[m].words
        /\ \A k \in 1 .. Len(W) : k > Got(g) =>
             tlpQ[(k + W[k].piece) - (Got(g) + Headed(g))].val = Value(g, k)
        /\ \A k \in 1 .. Len(dmaReadWordQ) : dmaReadWordQ[k] = Value(g, g.written + k)
    BY DEF Told, Linked
  <2>2. \A k \in 1 .. Len(W) : k > g.written => Value(h, k) = Value(g, k)
    BY <1>16, <1>36, <1>37 DEF Value
  <2>3. \A k \in 1 .. Len(W) : k > Got(g) => k > g.written
    BY <1>38
  <2>4. \A k \in 1 .. Len(dmaReadWordQ) : g.written + k \in 1 .. Len(W) /\ g.written + k > g.written
    <3> DEFINE w == Len(dmaReadWordQ)
               m == Len(W)
               x == Got(g)
    <3>1. w \in Nat /\ m \in Nat /\ g.written \in Nat /\ x <= m /\ x = g.written + w
      BY <1>38, <1>39
    <3> HIDE DEF w, m, x
    <3>2. \A k \in 1 .. w : g.written + k \in 1 .. m /\ g.written + k > g.written
      BY <3>1
    <3> QED  BY <3>2 DEF w, m
  <2>5. Got(h)' = Got(g) /\ Headed(h)' = Headed(g)
    BY <1>16, <1>17 DEF Got, Headed, linkVars
  <2>6. UNCHANGED <<completionRecv, tlpQ, dmaReadWordQ>>
    BY <1>17 DEF linkVars
  <2>7. \A k \in 1 .. Len(W) : k > Got(g) =>
             tlpQ[(k + W[k].piece) - (Got(g) + Headed(g))].val = Value(h, k)
    BY <2>1, <2>2, <2>3
  <2>8. \A k \in 1 .. Len(dmaReadWordQ) : dmaReadWordQ[k] = Value(h, g.written + k)
    BY <2>1, <2>2, <2>4
  <2>9. \A k : Value(h, k)' = Value(h, k)
    BY DEF Value, Mine
  <2> QED  BY <1>16, <1>38, <2>1, <2>5, <2>6, <2>7, <2>8, <2>9, ZenonT(40) DEF Linked
<1>41. Joining(h)'
  <2> DEFINE c == tagWordsLeft
  <2>1. /\ g.written + c.words = End(P, g.joined)
        /\ c.words > 0 =>
             /\ c.tag = P[g.joined].tag /\ P[g.joined].start <= g.written
             /\ c.off + c.ioff = P[g.joined].place + (g.written - P[g.joined].start)
             /\ c.req = Mine(g, c.tag).words
             /\ tagMap[c.tag].done = c.off + c.ioff + c.words
        /\ \A k \in 1 .. Len(burstUpdReqQ) :
             LET u == burstUpdReqQ[k] IN
               /\ u.tag = P[g.joined + k].tag /\ u.words = P[g.joined + k].words
               /\ u.done = P[g.joined + k].place /\ u.done = tagMap[u.tag].done
               /\ u.req = Mine(g, u.tag).words
               /\ readCompletionsb[k] = u.tag
        /\ \A j, k \in 1 .. Len(burstUpdReqQ) :
             burstUpdReqQ[j].tag = burstUpdReqQ[k].tag => j = k
        /\ \A k \in 1 .. Len(readBurstQ) :
             LET m == g.joined + Len(burstUpdReqQ) + k IN
               readBurstQ[k].tag = P[m].tag /\ readBurstQ[k].words = P[m].words
    BY DEF Told, Joining
  <2>2. c.words > 0 => Mine(h, c.tag) = Mine(g, c.tag) /\ tagMap'[c.tag] = tagMap[c.tag]
    BY <1>36, <1>37
  <2>3. ASSUME NEW k \in 1 .. Len(burstUpdReqQ)
        PROVE  LET u == burstUpdReqQ[k] IN
                 Mine(h, u.tag) = Mine(g, u.tag) /\ tagMap'[u.tag] = tagMap[u.tag]
    <3>1. g.joined + k \in 1 .. Len(P) /\ g.joined + k > g.joined
      <4> DEFINE a == Len(burstUpdReqQ)
                 r == Len(readBurstQ)
                 m == Len(P)
                 x == Headed(g)
      <4>1. a \in Nat /\ r \in Nat /\ m \in Nat /\ g.joined \in Nat /\ x <= m /\ x = g.joined + a + r
        BY <1>38, <1>39
      <4>2. k \in 1 .. a
        OBVIOUS
      <4> HIDE DEF a, r, m, x
      <4>3. g.joined + k \in 1 .. m /\ g.joined + k > g.joined
        BY <4>1, <4>2, SMTT(40)
      <4> QED  BY <4>3 DEF m
    <3> QED  BY <1>36, <1>37, <2>1, <3>1
  <2>4. UNCHANGED <<tagWordsLeft, burstUpdReqQ, readCompletionsb, readBurstQ>>
    BY <1>17 DEF linkVars
  <2>5. \A k \in 1 .. Len(burstUpdReqQ) :
          LET u == burstUpdReqQ[k] IN
               /\ u.tag = P[g.joined + k].tag /\ u.words = P[g.joined + k].words
               /\ u.done = P[g.joined + k].place /\ u.done = tagMap'[u.tag].done
               /\ u.req = Mine(h, u.tag).words
               /\ readCompletionsb[k] = u.tag
    BY <2>1, <2>3
  <2>6. \A u : Mine(h, u)' = Mine(h, u)
    BY DEF Mine
  <2> QED  BY <1>16, <2>1, <2>2, <2>4, <2>5, <2>6 DEF Joining
<1>42. Coming(h)'
  <2>1. /\ \A k \in 1 .. Len(W) : k > g.written =>
             LET w == W[k] IN
               g.stage[w.tag] = "wait" /\ Written(w.tag) <= w.place /\ w.place < g.recv[w.tag]
        /\ \A j, k \in 1 .. Len(W) :
             g.written < j /\ j < k /\ W[j].tag = W[k].tag => W[j].place < W[k].place
        /\ \A u \in Tags : g.stage[u] = "wait" =>
             /\ g.recv[u] <= Mine(g, u).words /\ Written(u) \in 0 .. g.recv[u]
             /\ \A i \in 0 .. MaxBurst : Written(u) <= i /\ i < g.recv[u] =>
                  \E k \in 1 .. Len(W) : k > g.written /\ W[k].tag = u /\ W[k].place = i
    BY DEF Told, Coming
  <2>2. \A k \in 1 .. Len(W) : k > g.written =>
          LET w == W[k] IN
            g.stage[w.tag] = "wait" /\ Written(w.tag)' <= w.place /\ w.place < recv[w.tag]
    BY <1>36, <1>37, <2>1
  <2>3. \A u \in Tags : g.stage[u] = "wait" =>
             /\ recv[u] <= Mine(h, u).words /\ Written(u)' \in 0 .. recv[u]
             /\ \A i \in 0 .. MaxBurst : Written(u)' <= i /\ i < recv[u] =>
                  \E k \in 1 .. Len(W) : k > g.written /\ W[k].tag = u /\ W[k].place = i
    BY <1>36, <2>1
  <2> QED  BY <1>16, <2>1, <2>2, <2>3 DEF Coming, Mine
<1>43. Kept(h)'
  <2>1. ASSUME NEW u \in Tags
        PROVE  /\ g.stage[u] = "wait" => Holds(g, u, Written(u))
               /\ g.stage[u] \in {"done", "passing", "ready"} => Holds(g, u, Mine(g, u).words)
               /\ g.flushed < g.cur[u] /\ g.cur[u] <= g.turned => Holds(g, u, Mine(g, u).words)
    BY DEF Told, Kept
  <2>2. readReorder' = readReorder
    BY <1>17
  <2>3. ASSUME NEW u \in Tags
        PROVE  /\ g.stage[u] = "wait" => Holds(h, u, Written(u))'
               /\ g.stage[u] \in {"done", "passing", "ready"} => Holds(h, u, Mine(h, u).words)'
               /\ g.flushed < cur[u] /\ cur[u] <= g.turned => Holds(h, u, Mine(h, u).words)'
    <3>1. g.stage[u] = "wait" => Holds(h, u, Written(u))'
      BY <1>36, <2>1, <2>2 DEF Holds, Mine
    <3>2. g.stage[u] \in {"done", "passing", "ready"} => Holds(h, u, Mine(h, u).words)'
      <4>1. g.stage[u] \in {"done", "passing", "ready"} => Mine(h, u) = Mine(g, u)
        BY <1>27
      <4> QED  BY <2>1, <2>2, <4>1 DEF Holds, Mine
    <3>3. g.flushed < cur[u] /\ cur[u] <= g.turned => Holds(h, u, Mine(h, u).words)'
      <4> SUFFICES ASSUME g.flushed < cur[u], cur[u] <= g.turned PROVE Holds(h, u, Mine(h, u).words)'
        OBVIOUS
      <4>1. u # t
        <5>1. ~(l + 1 <= g.turned)
          BY <1>a
        <5> QED  BY <1>15, <5>1
      <4>2. cur[u] = g.cur[u] /\ g.cur[u] \in Nat
        BY <1>11, <1>15, <4>1
      <4>3. g.cur[u] > 0
        BY <1>a, <4>2
      <4>4. Mine(h, u) = Mine(g, u)
        BY <1>26, <4>1, <4>3
      <4> QED  BY <2>1, <2>2, <4>2, <4>4 DEF Holds, Mine
    <3> QED  BY <3>1, <3>2, <3>3
  <2> QED  BY <1>16, <2>3 DEF Kept
<1>44. Flushed(h)'
  <2>1. End(bursts, g.flushed) = End(B, g.flushed)
    <3>1. g.flushed \in 0 .. l
      BY <1>a
    <3> QED  BY <1>14, <3>1
  <2>2. UNCHANGED <<readFlushTag, delivered, dmaReadOutQ, asked, readReorder>>
    BY <1>17 DEF outVars
  <2> QED  BY <1>16, <2>1, <2>2 DEF Told, Flushed
<1>45. Answered(h)'
  BY <1>16, AnsweredFrame DEF Told
<1>46. Told(h)'
  BY <1>30, <1>31, <1>32, <1>33, <1>34, <1>35, <1>40, <1>41, <1>42, <1>43, <1>44, <1>45 DEF Told
<1> QED  BY <1>16, <1>46

(* A burst is sent: it waits for all its words.                            *)
LEMMA GenerateDmaReadTLPTold ==
  ASSUME ReadInv, NEW g \in Ghost, Told(g), generateDmaReadTLP
  PROVE  \E h \in Ghost : Told(h)'
<1>1. AskTypeOK /\ LinkTypeOK /\ JoinTypeOK /\ OrderTypeOK
  BY DEF ReadInv, JoinInv
<1> DEFINE B == g.bursts
           q == Len(dmaPageReadReqQ)
           i0 == g.sent + 1
<1>2. PICK x : x = dmaPageReadReqQ[1]
  OBVIOUS
<1>3. PICK t : t = x.tag
  OBVIOUS
<1>4. /\ q \in Nat \ {0} /\ Len(dmaPageReadReqQ') = q - 1 /\ Head(dmaPageReadReqQ) = x
      /\ \A k \in 1 .. q - 1 : dmaPageReadReqQ'[k] = dmaPageReadReqQ[k + 1]
      /\ x \in [off : 0 .. PageWords - 1, words : Lengths, tag : Tags]
      /\ dmaPageReadReqQ' = Tail(dmaPageReadReqQ)
  BY <1>1, <1>2, TakenOut DEF AskTypeOK, generateDmaReadTLP
<1>5. t \in Tags /\ x.words \in Nat /\ x.off \in Nat
  BY <1>3, <1>4, EntryTypes, ReadAssumption DEF Lengths
<1> DEFINE r == [tag |-> x.tag, words |-> x.words, bus |-> Head(dmaReadBufAddrQ) * PageWords + x.off]
<1>6. /\ reads' = reads \cup {r} /\ dmaReadTagOrderQ' = Append(dmaReadTagOrderQ, t)
      /\ dmaReadBufAddrQ' = Tail(dmaReadBufAddrQ) /\ dmaReadBufAddrQ # <<>>
  BY <1>3, <1>4 DEF generateDmaReadTLP
<1>7. /\ g.flushed \in Nat /\ g.read \in Nat /\ g.turned \in Nat /\ g.sent \in Nat
      /\ Len(B) \in Nat
      /\ g.flushed <= g.read /\ g.read <= g.turned /\ g.turned <= g.sent
  BY Bounds, GhostTypes
<1>8. /\ Len(B) = g.sent + q /\ Len(Pages) = q
      /\ \A k \in 1 .. q :
           /\ dmaPageReadReqQ[k].tag = B[g.sent + k].tag
           /\ dmaPageReadReqQ[k].words = B[g.sent + k].words
           /\ B[g.sent + k].base = Pages[k] * PageWords + dmaPageReadReqQ[k].off
  BY DEF Told, Paged
<1>9. /\ Pages \in Seq(Nat) /\ Pages' = Tail(Pages) /\ Pages # <<>>
      /\ Pages[1] = Head(dmaReadBufAddrQ) /\ Pages[1] \in Nat
  <2>1. dmaReadBufAddrQ \in Seq(Nat) /\ bufidxQ \in Seq(Nat) /\ bufidxQ' = bufidxQ
    BY <1>1 DEF AskTypeOK, generateDmaReadTLP
  <2>2. Pages' = Tail(dmaReadBufAddrQ) \o bufidxQ
    BY <1>6, <2>1 DEF Pages
  <2>3. Tail(dmaReadBufAddrQ) \o bufidxQ = Tail(Pages)
    BY <1>6, <2>1, TailConcat DEF Pages
  <2>4. /\ Pages \in Seq(Nat) /\ Len(Pages) = Len(dmaReadBufAddrQ) + Len(bufidxQ)
        /\ \A i \in 1 .. Len(dmaReadBufAddrQ) + Len(bufidxQ) :
             Pages[i] = IF i <= Len(dmaReadBufAddrQ) THEN dmaReadBufAddrQ[i]
                                                     ELSE bufidxQ[i - Len(dmaReadBufAddrQ)]
    BY <2>1, ConcatProperties DEF Pages
  <2>5. /\ Len(dmaReadBufAddrQ) \in Nat \ {0} /\ Len(bufidxQ) \in Nat
        /\ Head(dmaReadBufAddrQ) = dmaReadBufAddrQ[1] /\ dmaReadBufAddrQ[1] \in Nat
    BY <1>6, <2>1, TakenOut, LenProperties
  <2>6. 1 \in 1 .. Len(dmaReadBufAddrQ) + Len(bufidxQ) /\ 1 <= Len(dmaReadBufAddrQ)
    BY <2>5
  <2>7. Pages[1] = Head(dmaReadBufAddrQ)
    BY <2>4, <2>5, <2>6
  <2>8. Pages # <<>>
    BY <1>4, <1>8, EmptySeq
  <2> QED  BY <2>2, <2>3, <2>4, <2>5, <2>7, <2>8
<1>10. /\ B[i0].tag = t /\ B[i0].words = x.words /\ B[i0].base = r.bus
  <2>1. 1 \in 1 .. q
    BY <1>4
  <2> QED  BY <1>2, <1>3, <1>8, <1>9, <2>1
<1>11. i0 \in 1 .. Len(B) /\ i0 > g.flushed /\ i0 \in Nat
  <2> HIDE DEF q
  <2>1. Len(B) = g.sent + q /\ q \in Nat \ {0}
    BY <1>4, <1>8
  <2> QED  BY <1>7, <2>1, SMTT(40)
<1>12. g.cur[t] = i0
  BY <1>10, <1>11 DEF Told, Owned
<1>13. Mine(g, t) = B[i0] /\ B[i0].words > 0 /\ B[i0].words \in Nat
  BY <1>11, <1>12, Entries, EntryTypes DEF Mine
<1>14. \A u \in Tags :
             /\ g.stage[u] # "idle" => g.turned < g.cur[u] /\ g.cur[u] <= g.sent
             /\ Ready(u) <=> g.stage[u] = "ready"
             /\ g.cur[u] > g.flushed => tagMap[u].req = Mine(g, u).words
             /\ g.cur[u] > g.sent => g.recv[u] = 0 /\ tagMap[u].done = 0
             /\ \/ g.stage[u] \in {"passing", "ready"}
                \/ g.read < g.cur[u] /\ g.cur[u] <= g.turned
                => doneMap[u] = Mine(g, u).words
  BY DEF Told, Staged
<1>15. i0 > g.sent /\ ~(i0 <= g.sent) /\ g.turned < i0
  BY <1>7
<1>16. g.stage[t] = "idle" /\ g.recv[t] = 0 /\ tagMap[t].done = 0
  BY <1>5, <1>12, <1>14, <1>15
<1> DEFINE stage == [g.stage EXCEPT ![t] = "wait"]
           h == [g EXCEPT !.sent = i0, !.stage = stage]
<1>17. /\ stage \in [Tags -> Stages] /\ stage[t] = "wait"
       /\ \A u \in Tags : u # t => stage[u] = g.stage[u]
  BY <1>5, GhostTypes DEF Stages
<1> HIDE DEF stage, i0
<1>18. /\ h \in Ghost /\ h.asks = g.asks /\ h.taken = g.taken /\ h.bursts = B /\ h.cur = g.cur
      /\ h.sent = i0 /\ h.turned = g.turned /\ h.read = g.read /\ h.flushed = g.flushed
      /\ h.stage = stage /\ h.recv = g.recv /\ h.pieces = g.pieces /\ h.joined = g.joined
      /\ h.words = g.words /\ h.written = g.written
  BY <1>11, <1>17 DEF Ghost
<1> HIDE DEF h
<1>19. UNCHANGED <<askVars, splitting, bufidxQ, tlpQ, completionRecv, dmaReadWordQ,
                 readBurstQ, joinVars, doneVars, orderVars, outVars,
                 freeReadTagQ, freeReadTagFQ, tagMap>>
  BY DEF generateDmaReadTLP
<1>20. InOrder(h)'
  <2> DEFINE y == Len(orderShifter)
             z == Len(dmaReadTagOrderQ)
  <2>1. /\ z \in Nat /\ Len(dmaReadTagOrderQ') = z + 1 /\ dmaReadTagOrderQ'[z + 1] = t
        /\ \A k \in 1 .. z : dmaReadTagOrderQ'[k] = dmaReadTagOrderQ[k]
    BY <1>1, <1>5, <1>6, PutIn DEF OrderTypeOK
  <2>2. y \in Nat /\ g.sent = g.turned + y + z
    BY <1>1, LenProperties DEF OrderTypeOK, Told, InOrder
  <2>3. \A k \in 1 .. z : dmaReadTagOrderQ[k] = B[g.turned + y + k].tag
    BY DEF Told, InOrder
  <2> HIDE DEF y, z
  <2>4. i0 = g.turned + y + (z + 1)
    BY <1>7, <2>1, <2>2, SMTT(40) DEF i0
  <2>5. \A k \in 1 .. Len(dmaReadTagOrderQ') : dmaReadTagOrderQ'[k] = B[g.turned + y + k].tag
    <3> TAKE k \in 1 .. Len(dmaReadTagOrderQ')
    <3>1. CASE k \in 1 .. z
      BY <2>1, <2>3, <3>1
    <3>2. CASE k = z + 1
      BY <1>10, <2>1, <2>4, <3>2
    <3> QED  BY <2>1, <3>1, <3>2
  <2>6. UNCHANGED <<orderedReadDoneTagQ, doneReorderedTagQ, orderShifter, curOrderTag>>
    BY <1>19 DEF orderVars
  <2>7. i0 = g.turned + y + Len(dmaReadTagOrderQ')
    BY <2>1, <2>4
  <2> QED  BY <1>18, <2>5, <2>6, <2>7, SMTT(40) DEF Told, InOrder, y
<1>21. Paged(h)'
  <2>1. /\ Len(Pages') = q - 1
        /\ \A k \in 1 .. q - 1 : Pages'[k] = Pages[k + 1]
    BY <1>8, <1>9, TakenOut
  <2> HIDE DEF q
  <2>2. Len(B) = i0 + (q - 1)
    <3>1. Len(B) = g.sent + q
      BY <1>8
    <3> QED  BY <1>4, <1>7, <3>1 DEF i0
  <2>3. ASSUME NEW k \in 1 .. q - 1
        PROVE  /\ dmaPageReadReqQ'[k].tag = B[i0 + k].tag
               /\ dmaPageReadReqQ'[k].words = B[i0 + k].words
               /\ B[i0 + k].base = Pages'[k] * PageWords + dmaPageReadReqQ'[k].off
    <3>1. k + 1 \in 1 .. q /\ g.sent + (k + 1) = i0 + k
      <4>1. q \in Nat \ {0}
        BY <1>4
      <4> QED  BY <1>7, <4>1 DEF i0
    <3> QED  BY <1>4, <1>8, <2>1, <3>1
  <2>4. Len(dmaPageReadReqQ') = q - 1
    BY <1>4
  <2>5. Len(B) = i0 + Len(dmaPageReadReqQ') /\ Len(Pages') = Len(dmaPageReadReqQ')
    BY <2>1, <2>2, <2>4
  <2>6. \A k \in 1 .. Len(dmaPageReadReqQ') :
          /\ dmaPageReadReqQ'[k].tag = B[i0 + k].tag
          /\ dmaPageReadReqQ'[k].words = B[i0 + k].words
          /\ B[i0 + k].base = Pages'[k] * PageWords + dmaPageReadReqQ'[k].off
    BY <2>3, <2>4
  <2> HIDE DEF B
  <2> QED  BY <1>18, <2>5, <2>6 DEF Paged
<1>22. Staged(h)'
  <2>1. /\ \A k \in 1 .. Len(readDoneTagQ) :
             /\ g.stage[readDoneTagQ[k].tag] = "done"
             /\ readDoneTagQ[k].words = Mine(g, readDoneTagQ[k].tag).words
        /\ \A j, k \in 1 .. Len(readDoneTagQ) : readDoneTagQ[j].tag = readDoneTagQ[k].tag => j = k
        /\ \A k \in 1 .. Len(doneShifter) : g.stage[doneShifter[k]] = "passing"
        /\ \A j, k \in 1 .. Len(doneShifter) : doneShifter[j] = doneShifter[k] => j = k
    BY DEF Told, Staged
  <2>2. UNCHANGED <<orderTagMap, doneTagMap, tagMap, doneMap, readDoneTagQ, doneShifter>>
    BY <1>19 DEF doneVars, orderVars
  <2>3. \A u \in Tags :
             /\ stage[u] # "idle" => g.turned < g.cur[u] /\ g.cur[u] <= i0
             /\ Ready(u)' <=> stage[u] = "ready"
             /\ g.cur[u] > i0 => g.cur[u] > g.sent
             /\ stage[u] \in {"passing", "ready"} => g.stage[u] \in {"passing", "ready"}
    <3> TAKE u \in Tags
    <3>0. Ready(u)' <=> Ready(u)
      BY <2>2 DEF Ready
    <3>1. CASE u = t
      <4>1. Ready(u) <=> FALSE
        BY <1>14, <1>16, <3>1
      <4> QED  BY <1>7, <1>11, <1>12, <1>15, <1>17, <3>0, <3>1, <4>1
    <3>2. CASE u # t
      <4>1. g.cur[u] \in Nat
        BY GhostTypes
      <4>2. (g.cur[u] <= g.sent => g.cur[u] <= i0) /\ (g.cur[u] > i0 => g.cur[u] > g.sent)
        BY <1>7, <4>1 DEF i0
      <4> QED  BY <1>14, <1>17, <3>0, <3>2, <4>2
    <3> QED  BY <3>1, <3>2
  <2>4. \A k \in 1 .. Len(readDoneTagQ) : stage[readDoneTagQ[k].tag] = "done"
    <3> TAKE k \in 1 .. Len(readDoneTagQ)
    <3>1. readDoneTagQ[k] \in [tag : Tags, words : Lengths]
      BY <1>1, ElementOfSeq DEF OrderTypeOK
    <3> QED  BY <1>16, <1>17, <2>1, <3>1
  <2>5. \A k \in 1 .. Len(doneShifter) : stage[doneShifter[k]] = "passing"
    <3> TAKE k \in 1 .. Len(doneShifter)
    <3>1. doneShifter[k] \in Tags
      BY <1>1, ElementOfSeq DEF OrderTypeOK
    <3> QED  BY <1>16, <1>17, <2>1, <3>1
  <2> QED  BY <1>14, <1>18, <2>1, <2>2, <2>3, <2>4, <2>5 DEF Staged, Mine
<1>23. Reading(h)'
  <2>1. ASSUME NEW e \in reads'
        PROVE  /\ stage[e.tag] = "wait" /\ e.words > 0
               /\ g.recv[e.tag] + e.words = Mine(g, e.tag).words
               /\ e.bus = Mine(g, e.tag).base + g.recv[e.tag]
    <3>1. CASE e = r
      <4>1. e.tag = t /\ e.words = B[i0].words /\ e.bus = B[i0].base
        BY <1>3, <1>10, <3>1
      <4>2. B[i0].base \in Nat
        BY <1>11, Entries
      <4> QED  BY <1>13, <1>16, <1>17, <4>1, <4>2
    <3>2. CASE e \in reads
      <4>1. e.tag \in Tags
        BY <1>1, <3>2 DEF LinkTypeOK, Burst
      <4>2. /\ g.stage[e.tag] = "wait" /\ e.words > 0
            /\ g.recv[e.tag] + e.words = Mine(g, e.tag).words
            /\ e.bus = Mine(g, e.tag).base + g.recv[e.tag]
        BY <3>2 DEF Told, Reading
      <4> QED  BY <1>17, <4>1, <4>2
    <3> QED  BY <1>6, <3>1, <3>2
  <2> QED  BY <1>18, <2>1 DEF Reading, Mine
<1>24. tagWordsLeft.words > 0 => tagWordsLeft.tag # t
  BY <1>16, Waits
<1>25. Written(t) = 0 /\ \A u : Written(u)' = Written(u)
  <2>1. tagMap' = tagMap /\ tagWordsLeft' = tagWordsLeft
    BY <1>19 DEF joinVars
  <2> QED  BY <1>16, <1>24, <2>1 DEF Written
<1>26. Coming(h)'
  <2> DEFINE W == g.words
  <2>1. /\ \A k \in 1 .. Len(W) : k > g.written =>
             LET w == W[k] IN
               g.stage[w.tag] = "wait" /\ Written(w.tag) <= w.place /\ w.place < g.recv[w.tag]
        /\ \A j, k \in 1 .. Len(W) :
             g.written < j /\ j < k /\ W[j].tag = W[k].tag => W[j].place < W[k].place
        /\ \A u \in Tags : g.stage[u] = "wait" =>
             /\ g.recv[u] <= Mine(g, u).words /\ Written(u) \in 0 .. g.recv[u]
             /\ \A i \in 0 .. MaxBurst : Written(u) <= i /\ i < g.recv[u] =>
                  \E k \in 1 .. Len(W) : k > g.written /\ W[k].tag = u /\ W[k].place = i
    BY DEF Told, Coming
  <2>2. \A k \in 1 .. Len(W) : k > g.written => stage[W[k].tag] = "wait"
    BY <1>17, <2>1, Entries
  <2>3. \A u \in Tags : stage[u] = "wait" =>
             /\ g.recv[u] <= Mine(g, u).words /\ Written(u) \in 0 .. g.recv[u]
             /\ \A i \in 0 .. MaxBurst : Written(u) <= i /\ i < g.recv[u] =>
                  \E k \in 1 .. Len(W) : k > g.written /\ W[k].tag = u /\ W[k].place = i
    <3> TAKE u \in Tags
    <3>1. CASE u = t
      <4>1. \A i \in 0 .. MaxBurst : ~(i < g.recv[u])
        BY <1>16, <3>1, EntryTypes
      <4>2. g.recv[u] <= Mine(g, u).words
        BY <1>13, <1>16, <3>1
      <4>3. Written(u) \in 0 .. g.recv[u]
        BY <1>16, <1>25, <3>1
      <4> QED  BY <4>1, <4>2, <4>3
    <3>2. CASE u # t
      BY <1>17, <2>1, <3>2
    <3> QED  BY <3>1, <3>2
  <2> QED  BY <1>18, <1>25, <2>1, <2>2, <2>3 DEF Coming, Mine
<1>27. Kept(h)'
  <2>1. readReorder' = readReorder
    BY <1>19 DEF joinVars
  <2>2. ASSUME NEW u \in Tags
        PROVE  /\ stage[u] = "wait" => Holds(g, u, Written(u))
               /\ stage[u] \in {"done", "passing", "ready"} => Holds(g, u, Mine(g, u).words)
               /\ g.flushed < g.cur[u] /\ g.cur[u] <= g.turned => Holds(g, u, Mine(g, u).words)
    <3>1. CASE u = t
      <4>1. Holds(g, t, 0)
        BY EntryTypes DEF Holds
      <4> QED  BY <1>17, <1>25, <3>1, <4>1 DEF Told, Kept
    <3>2. CASE u # t
      BY <1>17, <3>2 DEF Told, Kept
    <3> QED  BY <3>1, <3>2
  <2> QED  BY <1>18, <1>25, <2>1, <2>2 DEF Kept, Holds, Mine
<1>28. Told(h)'
  BY <1>18, <1>19, <1>20, <1>21, <1>22, <1>23, <1>26, <1>27, CutFrame, OwnedFrame, AnsweredFrame,
     LinkedFrame, JoiningFrame, FlushedFrame
  DEF Told, askVars, joinVars, outVars
<1> QED  BY <1>18, <1>28
=============================================================================
