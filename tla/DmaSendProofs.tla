---------------------------- MODULE DmaSendProofs ----------------------------
(***************************************************************************)
(* Proofs about DmaSend, for every burst length, page size, queue size,    *)
(* counter width and number of tags: types, that a write whose header is   *)
(* out has its data, that nothing comes between the beats of a write, and  *)
(* that every word goes to the place it was asked for.                     *)
(***************************************************************************)
EXTENDS DmaSend, Integers, TLAPS

-----------------------------------------------------------------------------
(* The invariant, by the part of the state it is about.                    *)
Request == [addr : Nat, words : Nat]
Piece == [off : 0 .. PageWords - 1, words : 1 .. MaxBurst]

ReqInv ==
  /\ dmaWriteReqQ \in Seq(Request) /\ sending \in Request
  /\ dmaReadReqQ \in Seq(Request) /\ reading \in Request

PageInv ==
  /\ dmaPageWriteReqQ \in Seq(Piece) /\ dmaPageReadReqQ \in Seq(Piece)
  /\ bufidxQ \in Seq([write : BOOLEAN, page : Nat])
  /\ dmaWriteBufAddrQ \in Seq(Nat) /\ dmaReadBufAddrQ \in Seq(Nat)

(* Every burst that waits for its data, or is being sent, has a tag.       *)
Sending == IF dataWordsRemain > 0 THEN 1 ELSE 0

TagInv ==
  /\ freeWriteTagQ \in 0 .. WriteTags /\ freeWriteTagStageQ \in 0 .. FifoCap
  /\ busyWriteTagQ \in 0 .. WriteTags /\ freeReadTagQ \in 0 .. ReadTags
  /\ freeWriteTagQ + freeWriteTagStageQ + busyWriteTagQ = WriteTags
  /\ busyWriteTagQ = Len(dmaPageWriteReqQ) + Sending

(* The difference of the two counters is the number of words that are      *)
(* there and not promised to the burst being sent.                         *)
Owed == IF dataWordsRemain > 0 THEN dataWordsRemain - 1 ELSE 0

WordInv ==
  /\ given \in Nat /\ dmaWriteBuf \in Nat /\ dataWordsRemain \in 0 .. MaxBurst
  /\ dmaWriteWordQ \in Seq(Nat) /\ Len(dmaWriteWordQ) <= WordCap
  /\ dmaWriteWordIn \in 0 .. CntMod - 1 /\ dmaWriteWordOut \in 0 .. CntMod - 1
  /\ Owed <= Len(dmaWriteWordQ)
  /\ Minus10(dmaWriteWordIn, dmaWriteWordOut) = Len(dmaWriteWordQ) - Owed

(* What is in the queues to the link.                                      *)
Single == [kind : {"reply"}] \cup [kind : {"read"}, bus : Nat, words : 1 .. MaxBurst]
Beat == Single \cup [kind : {"data"}, rest : Nat, first : Nat]
          \cup [kind : {"write"}, bus : Nat, words : 1 .. MaxBurst, first : Nat]

BeatInv ==
  /\ sendTLPQ \in Seq(Beat) /\ sendTLPm \in [Sources -> Seq(Single)]
  /\ wire \in [left : 0 .. MaxBurst, bus : Nat, first : Nat]

(* left[k]: beats of data the link still expects after the first k beats   *)
(* of the queue.                                                           *)
Expects(left, q) ==
  \A k \in 1 .. Len(q) :
    /\ q[k].kind = "data" <=> left[k - 1] > 0
    /\ left[k] = IF q[k].kind = "write" THEN q[k].words
                 ELSE IF q[k].kind = "data" THEN left[k - 1] - 1 ELSE left[k - 1]

FrameInv ==
  \E left \in [0 .. Len(sendTLPQ) -> Nat] :
    /\ left[0] = wire.left /\ left[Len(sendTLPQ)] = dataWordsRemain
    /\ Expects(left, sendTLPQ)

SendInv == ReqInv /\ PageInv /\ TagInv /\ WordInv /\ BeatInv /\ FrameInv

-----------------------------------------------------------------------------
(* A burst is not empty, stays in its page and takes no more than is left. *)
LEMMA Bursts ==
  ASSUME NEW s \in Request, s.words > 0
  PROVE  /\ BurstLen(s) \in 1 .. MaxBurst /\ AfterBurst(s) \in Request /\ InPage(s) \in Piece
         /\ BusPage(s.addr) \in Nat
<1> USE SendAssumption DEF Request
<1>1. s.addr \in Nat /\ s.words \in Nat
  OBVIOUS
<1>2. s.addr % PageWords \in 0 .. PageWords - 1
  BY <1>1
<1>3. BurstLen(s) \in 1 .. MaxBurst /\ BurstLen(s) <= s.words
  BY <1>1, <1>2 DEF BurstLen, Least
<1>4. AfterBurst(s) \in Request
  BY <1>1, <1>3 DEF AfterBurst
<1>5. InPage(s) \in Piece
  BY <1>2, <1>3 DEF InPage, Piece
<1>6. s.addr \div PageWords \in Int
  BY <1>1
<1>7. (s.addr \div PageWords) % NumPages \in 0 .. NumPages - 1
  BY <1>6
<1> QED  BY <1>3, <1>4, <1>5, <1>7 DEF BusPage

(* The 10-bit counters.                                                    *)
LEMMA Counters ==
  ASSUME NEW a \in 0 .. CntMod - 1, NEW b \in 0 .. CntMod - 1
  PROVE  /\ Minus10(a, b) \in 0 .. CntMod - 1
         /\ Plus10(a, 1) \in 0 .. CntMod - 1
         /\ Minus10(a, b) + 1 < CntMod => Minus10(Plus10(a, 1), b) = Minus10(a, b) + 1
         /\ \A n \in 1 .. MaxBurst : n <= Minus10(a, b) =>
              /\ Plus10(b, n) \in 0 .. CntMod - 1
              /\ Minus10(a, Plus10(b, n)) = Minus10(a, b) - n
BY SendAssumption DEF Plus10, Minus10

LEMMA SendInvInit == Init => SendInv
<1> SUFFICES ASSUME Init PROVE SendInv
  OBVIOUS
<1> USE SendAssumption
<1>1. ReqInv  BY DEF Init, ReqInv, Request
<1>2. PageInv  BY DEF Init, PageInv
<1>3. TagInv
  <2>1. Len(<<>>) = 0  OBVIOUS
  <2> QED  BY <2>1 DEF Init, TagInv, Sending
<1>4. WordInv
  <2>1. Len(<<>>) = 0  OBVIOUS
  <2> QED  BY <2>1 DEF Init, WordInv, Owed, Minus10
<1>5. BeatInv  BY DEF Init, BeatInv, NoPacket
<1>6. FrameInv
  <2>1. sendTLPQ = <<>> /\ wire.left = 0 /\ dataWordsRemain = 0 /\ Len(sendTLPQ) = 0
    BY DEF Init, NoPacket
  <2> DEFINE left == [k \in 0 .. 0 |-> 0]
  <2>2. left \in [0 .. 0 -> Nat] /\ left[0] = 0
    OBVIOUS
  <2>3. Expects(left, sendTLPQ)
    BY <2>1 DEF Expects
  <2> QED  BY <2>1, <2>2, <2>3 DEF FrameInv
<1> QED  BY <1>1, <1>2, <1>3, <1>4, <1>5, <1>6 DEF SendInv

-----------------------------------------------------------------------------
LEMMA Queues ==
  ASSUME NEW S, NEW q \in Seq(S)
  PROVE  /\ Len(q) \in Nat
         /\ q # <<>> => Head(q) \in S /\ Tail(q) \in Seq(S) /\ Len(Tail(q)) = Len(q) - 1
         /\ \A e \in S : Append(q, e) \in Seq(S)
OBVIOUS

LEMMA LastIn ==
  ASSUME NEW S, NEW T, NEW q \in Seq(T), NEW e, Append(q, e) \in Seq(S)
  PROVE  e \in S
<1>1. Len(Append(q, e)) = Len(q) + 1 /\ Append(q, e)[Len(q) + 1] = e /\ Len(q) \in Nat
  OBVIOUS
<1> QED  BY <1>1

LEMMA Address ==
  ASSUME NEW page \in Nat, NEW off \in Nat
  PROVE  page * PageWords + off \in Nat
<1>1. ASSUME NEW a \in Nat, NEW b \in Nat PROVE a * b \in Nat
  OBVIOUS
<1>2. page * PageWords \in Nat
  BY <1>1, SendAssumption
<1> QED  BY <1>2

LEMMA ReqNext ==
  ASSUME SendInv, Next
  PROVE  ReqInv'
<1> USE DEF SendInv, ReqInv
<1>1. CASE \E r \in WriteRequests : dmaWriteReq(r)
  BY <1>1, SendAssumption DEF dmaWriteReq, readReqs, Request
<1>2. CASE \E r \in ReadRequests : dmaReadReq(r)
  BY <1>2, SendAssumption DEF dmaReadReq, writeReqs, Request
<1>3. CASE splitDmaWriteReq
  BY <1>3 DEF splitDmaWriteReq, readReqs
<1>4. CASE splitDmaReadReq
  BY <1>4 DEF splitDmaReadReq, writeReqs
<1>5. CASE splitDmaWriteReq2
  BY <1>5, Bursts DEF splitDmaWriteReq2, WriteSplits, readReqs
<1>6. CASE splitDmaReadReq2
  BY <1>6, Bursts DEF splitDmaReadReq2, writeReqs
<1>7. CASE UNCHANGED <<writeReqs, readReqs>>
  BY <1>7 DEF writeReqs, readReqs
<1> QED
  BY <1>1, <1>2, <1>3, <1>4, <1>5, <1>6, <1>7
  DEF Next, User, Rules, dmaWriteData, reply, readTagReturns, relayFreeWriteTag,
      relayBufIdxRead, generateHeaderTLP, generateDataTLP, generateDmaReadTLP, relayTLPm,
      relayTLP

LEMMA PageNext ==
  ASSUME SendInv, Next
  PROVE  PageInv'
<1> USE DEF SendInv, PageInv
<1>1. CASE splitDmaWriteReq2
  <2>1. InPage(sending) \in Piece /\ BusPage(sending.addr) \in Nat
    BY <1>1, Bursts DEF splitDmaWriteReq2, WriteSplits, ReqInv, Request
  <2> QED  BY <1>1, <2>1 DEF splitDmaWriteReq2
<1>2. CASE splitDmaReadReq2
  <2>1. InPage(reading) \in Piece /\ BusPage(reading.addr) \in Nat
    BY <1>2, Bursts DEF splitDmaReadReq2, ReqInv, Request
  <2> QED  BY <1>2, <2>1 DEF splitDmaReadReq2
<1>3. CASE relayBufIdxRead
  <2>1. bufidxQ # <<>> /\ bufidxQ' = Tail(bufidxQ)
    BY <1>3 DEF relayBufIdxRead
  <2>2. Head(bufidxQ) \in [write : BOOLEAN, page : Nat]
           /\ bufidxQ' \in Seq([write : BOOLEAN, page : Nat])
    <3>1. bufidxQ \in Seq([write : BOOLEAN, page : Nat])
      OBVIOUS
    <3> QED  BY <2>1, <3>1, Queues
  <2>4. Head(bufidxQ).page \in Nat
    BY <2>2
  <2>3. /\ dmaWriteBufAddrQ' \in {dmaWriteBufAddrQ, Append(dmaWriteBufAddrQ, Head(bufidxQ).page)}
        /\ dmaReadBufAddrQ' \in {dmaReadBufAddrQ, Append(dmaReadBufAddrQ, Head(bufidxQ).page)}
        /\ UNCHANGED <<dmaPageWriteReqQ, dmaPageReadReqQ>>
    BY <1>3 DEF relayBufIdxRead
  <2>5. dmaWriteBufAddrQ' \in Seq(Nat) /\ dmaReadBufAddrQ' \in Seq(Nat)
    <3>1. Append(dmaWriteBufAddrQ, Head(bufidxQ).page) \in Seq(Nat)
      BY <2>4
    <3>2. Append(dmaReadBufAddrQ, Head(bufidxQ).page) \in Seq(Nat)
      BY <2>4
    <3> QED  BY <2>3, <3>1, <3>2
  <2> QED  BY <2>2, <2>3, <2>5
<1>4. CASE generateHeaderTLP
  BY <1>4 DEF generateHeaderTLP
<1>5. CASE generateDmaReadTLP
  BY <1>5 DEF generateDmaReadTLP
<1>6. CASE UNCHANGED pageVars
  BY <1>6 DEF pageVars
<1> QED
  BY <1>1, <1>2, <1>3, <1>4, <1>5, <1>6
  DEF Next, User, Rules, dmaWriteReq, dmaReadReq, dmaWriteData, reply, readTagReturns,
      splitDmaWriteReq, splitDmaReadReq, relayFreeWriteTag, generateDataTLP, relayTLPm,
      relayTLP

LEMMA FirstPiece ==
  ASSUME PageInv, dmaPageWriteReqQ # <<>>
  PROVE  /\ Head(dmaPageWriteReqQ).words \in 1 .. MaxBurst
         /\ Head(dmaPageWriteReqQ).off \in Nat
         /\ Len(Tail(dmaPageWriteReqQ)) = Len(dmaPageWriteReqQ) - 1
         /\ Len(dmaPageWriteReqQ) \in Nat \ {0}
<1>1. Head(dmaPageWriteReqQ) \in Piece
  BY DEF PageInv
<1> QED  BY <1>1, SendAssumption DEF PageInv, Piece

LEMMA TagNext ==
  ASSUME SendInv, Next
  PROVE  TagInv'
<1>0. /\ TagInv /\ Len(dmaPageWriteReqQ) \in Nat
      /\ dataWordsRemain \in 0 .. MaxBurst /\ MaxBurst \in Nat
      /\ WriteTags \in Nat /\ FifoCap \in Nat /\ ReadTags \in Nat
  BY SendAssumption DEF SendInv, PageInv, WordInv
<1>1. CASE relayFreeWriteTag
  <2>1. /\ freeWriteTagQ > 0 /\ freeWriteTagStageQ < FifoCap
        /\ freeWriteTagQ' = freeWriteTagQ - 1
        /\ freeWriteTagStageQ' = freeWriteTagStageQ + 1
        /\ UNCHANGED <<busyWriteTagQ, freeReadTagQ, dmaPageWriteReqQ, dataWordsRemain>>
    BY <1>1 DEF relayFreeWriteTag, pageVars, wordVars
  <2>2. Len(dmaPageWriteReqQ') = Len(dmaPageWriteReqQ) /\ Sending' = Sending
    BY <2>1 DEF Sending
  <2>3. freeWriteTagQ' \in 0 .. WriteTags /\ freeWriteTagStageQ' \in 0 .. FifoCap
    BY <1>0, <2>1 DEF TagInv
  <2>4. freeWriteTagQ' + freeWriteTagStageQ' + busyWriteTagQ' = WriteTags
    BY <1>0, <2>1 DEF TagInv
  <2> QED  BY <1>0, <2>1, <2>2, <2>3, <2>4 DEF TagInv
<1>2. CASE splitDmaWriteReq2
  <2>1. dmaPageWriteReqQ' = Append(dmaPageWriteReqQ, InPage(sending))
    BY <1>2 DEF splitDmaWriteReq2
  <2>2. Len(dmaPageWriteReqQ') = Len(dmaPageWriteReqQ) + 1
    BY <2>1 DEF SendInv, PageInv
  <2>3. /\ freeWriteTagStageQ > 0 /\ busyWriteTagQ < WriteTags
        /\ freeWriteTagStageQ' = freeWriteTagStageQ - 1
        /\ busyWriteTagQ' = busyWriteTagQ + 1
        /\ UNCHANGED <<freeWriteTagQ, freeReadTagQ, dataWordsRemain>>
    BY <1>2 DEF splitDmaWriteReq2, WriteSplits, wordVars
  <2>4. Sending' = Sending
    BY <2>3 DEF Sending
  <2>5. freeWriteTagStageQ' \in 0 .. FifoCap /\ busyWriteTagQ' \in 0 .. WriteTags
    BY <1>0, <2>3 DEF TagInv
  <2>6. freeWriteTagQ' + freeWriteTagStageQ' + busyWriteTagQ' = WriteTags
    BY <1>0, <2>3 DEF TagInv
  <2>7. Sending \in 0 .. 1
    BY DEF Sending
  <2>8. busyWriteTagQ' = Len(dmaPageWriteReqQ') + Sending'
    BY <1>0, <2>2, <2>3, <2>4, <2>7 DEF TagInv
  <2> QED  BY <1>0, <2>3, <2>5, <2>6, <2>8 DEF TagInv
<1>3. CASE splitDmaReadReq2 \/ readTagReturns
  <2>1. /\ UNCHANGED <<freeWriteTagQ, freeWriteTagStageQ, busyWriteTagQ, dmaPageWriteReqQ,
                       dataWordsRemain>>
    BY <1>3 DEF splitDmaReadReq2, readTagReturns, pageVars, wordVars
  <2>2. freeReadTagQ' \in 0 .. ReadTags
    <3>1. CASE splitDmaReadReq2
      <4>1. freeReadTagQ > 0 /\ freeReadTagQ' = freeReadTagQ - 1
        BY <3>1 DEF splitDmaReadReq2
      <4> QED  BY <1>0, <4>1 DEF TagInv
    <3>2. CASE readTagReturns
      <4>1. freeReadTagQ < ReadTags /\ freeReadTagQ' = freeReadTagQ + 1
        BY <3>2 DEF readTagReturns
      <4> QED  BY <1>0, <4>1 DEF TagInv
    <3> QED  BY <1>3, <3>1, <3>2
  <2> QED  BY <1>0, <2>1, <2>2 DEF TagInv, Sending
<1>4. CASE generateHeaderTLP
  <2>1. /\ dmaPageWriteReqQ # <<>> /\ dmaPageWriteReqQ' = Tail(dmaPageWriteReqQ)
        /\ dataWordsRemain = 0 /\ dataWordsRemain' = Head(dmaPageWriteReqQ).words
        /\ UNCHANGED tagVars
    BY <1>4 DEF generateHeaderTLP
  <2>2. /\ Len(dmaPageWriteReqQ') = Len(dmaPageWriteReqQ) - 1
        /\ dataWordsRemain' \in 1 .. MaxBurst
    BY <2>1, FirstPiece DEF SendInv
  <2> QED  BY <1>0, <2>1, <2>2 DEF tagVars, TagInv, Sending
<1>5. CASE generateDataTLP
  <2>1. /\ UNCHANGED <<dmaPageWriteReqQ, freeWriteTagStageQ, freeReadTagQ>>
        /\ dataWordsRemain > 0 /\ dataWordsRemain' = dataWordsRemain - 1
        /\ \/ dataWordsRemain > 1 /\ UNCHANGED <<busyWriteTagQ, freeWriteTagQ>>
           \/ /\ dataWordsRemain = 1 /\ freeWriteTagQ < WriteTags
              /\ busyWriteTagQ' = busyWriteTagQ - 1 /\ freeWriteTagQ' = freeWriteTagQ + 1
    BY <1>5 DEF generateDataTLP, pageVars
  <2> QED  BY <1>0, <2>1 DEF TagInv, Sending
<1>6. CASE UNCHANGED <<tagVars, dmaPageWriteReqQ, dataWordsRemain>>
  BY <1>0, <1>6 DEF tagVars, TagInv, Sending
<1> QED
  BY <1>1, <1>2, <1>3, <1>4, <1>5, <1>6
  DEF Next, User, Rules, dmaWriteReq, dmaReadReq, dmaWriteData, reply, splitDmaWriteReq,
      splitDmaReadReq, relayBufIdxRead, generateDmaReadTLP, relayTLPm, relayTLP, pageVars,
      wordVars

(* The counters and the queue of words.                                    *)
LEMMA WordNext ==
  ASSUME SendInv, Next
  PROVE  WordInv'
<1> USE SendAssumption DEF SendInv, WordInv
<1>1. CASE dmaWriteData
  <2>1. Len(dmaWriteWordQ') = Len(dmaWriteWordQ) + 1 /\ dmaWriteWordQ' \in Seq(Nat)
    BY <1>1 DEF dmaWriteData
  <2>2. Minus10(dmaWriteWordIn, dmaWriteWordOut) + 1 < CntMod
    BY <1>1 DEF dmaWriteData, Owed
  <2>3. /\ Minus10(dmaWriteWordIn', dmaWriteWordOut)
              = Minus10(dmaWriteWordIn, dmaWriteWordOut) + 1
        /\ dmaWriteWordIn' \in 0 .. CntMod - 1
    BY <1>1, <2>2, Counters DEF dmaWriteData
  <2>4. /\ UNCHANGED <<dmaWriteWordOut, dmaWriteBuf, dataWordsRemain>>
        /\ given' = given + 1 /\ Len(dmaWriteWordQ) < WordCap /\ Owed' = Owed
    BY <1>1 DEF dmaWriteData, Owed
  <2>5. Owed \in Nat /\ Len(dmaWriteWordQ) \in Nat
    BY DEF Owed
  <2>6. Minus10(dmaWriteWordIn', dmaWriteWordOut') = Len(dmaWriteWordQ') - Owed'
    BY <2>1, <2>3, <2>4, <2>5
  <2> QED  BY <2>1, <2>3, <2>4, <2>5, <2>6
<1>2. CASE generateHeaderTLP
  <2> DEFINE n == Head(dmaPageWriteReqQ).words
  <2>0. n \in 1 .. MaxBurst
    BY <1>2, FirstPiece DEF generateHeaderTLP
  <2>1. /\ n \in 1 .. MaxBurst /\ dataWordsRemain = 0 /\ dataWordsRemain' = n
        /\ Minus10(dmaWriteWordIn, dmaWriteWordOut) >= n
        /\ dmaWriteWordOut' = Plus10(dmaWriteWordOut, n) /\ dmaWriteWordIn' = dmaWriteWordIn
        /\ given' = given
    BY <1>2, <2>0 DEF generateHeaderTLP, AllGiven, userVars
  <2>2. /\ dmaWriteWordQ # <<>> /\ dmaWriteWordQ' = Tail(dmaWriteWordQ)
        /\ dmaWriteBuf' = Head(dmaWriteWordQ)
    BY <1>2 DEF generateHeaderTLP
  <2>3. /\ dmaWriteWordQ' \in Seq(Nat) /\ Len(dmaWriteWordQ') = Len(dmaWriteWordQ) - 1
        /\ dmaWriteBuf' \in Nat /\ Len(dmaWriteWordQ) \in Nat
    BY <2>2
  <2>4. /\ dmaWriteWordOut' \in 0 .. CntMod - 1
        /\ Minus10(dmaWriteWordIn, dmaWriteWordOut')
              = Minus10(dmaWriteWordIn, dmaWriteWordOut) - n
    BY <2>1, Counters
  <2>5. Minus10(dmaWriteWordIn, dmaWriteWordOut) = Len(dmaWriteWordQ)
    BY <2>1, <2>3 DEF Owed
  <2> HIDE DEF n
  <2>6. Owed' = n - 1
    BY <2>1 DEF Owed
  <2>7. Minus10(dmaWriteWordIn', dmaWriteWordOut') = Len(dmaWriteWordQ') - Owed'
    <3>1. Minus10(dmaWriteWordIn', dmaWriteWordOut') = Len(dmaWriteWordQ) - n
      BY <2>1, <2>4, <2>5
    <3>2. n \in Nat
      BY <2>1
    <3> QED  BY <2>3, <2>6, <3>1, <3>2
  <2>8. Owed' <= Len(dmaWriteWordQ') /\ Len(dmaWriteWordQ') <= WordCap
    <3>1. n <= Len(dmaWriteWordQ) /\ Len(dmaWriteWordQ) <= WordCap
      BY <2>1, <2>5
    <3> QED  BY <2>1, <2>3, <2>6, <3>1
  <2>9. dmaWriteWordIn' \in 0 .. CntMod - 1 /\ dataWordsRemain' \in 0 .. MaxBurst
    BY <2>1
  <2> QED  BY <2>1, <2>3, <2>4, <2>7, <2>8, <2>9
<1>3. CASE generateDataTLP
  <2>1. /\ dataWordsRemain \in 1 .. MaxBurst /\ dataWordsRemain' = dataWordsRemain - 1
        /\ UNCHANGED <<dmaWriteWordIn, dmaWriteWordOut, given>>
    BY <1>3 DEF generateDataTLP, userVars
  <2>2. CASE dataWordsRemain = 1
    <3>1. UNCHANGED <<dmaWriteBuf, dmaWriteWordQ>>
      BY <1>3, <2>2 DEF generateDataTLP
    <3>2. Owed = 0 /\ Owed' = 0 /\ dataWordsRemain' = 0
      BY <2>1, <2>2 DEF Owed
    <3>3. Minus10(dmaWriteWordIn', dmaWriteWordOut') = Len(dmaWriteWordQ') - Owed'
      BY <2>1, <3>1, <3>2
    <3> QED  BY <2>1, <3>1, <3>2, <3>3
  <2>3. CASE dataWordsRemain > 1
    <3>1. /\ dmaWriteWordQ # <<>> /\ dmaWriteWordQ' = Tail(dmaWriteWordQ)
          /\ dmaWriteBuf' = Head(dmaWriteWordQ)
      BY <1>3, <2>3 DEF generateDataTLP
    <3>2. /\ dmaWriteWordQ' \in Seq(Nat) /\ Len(dmaWriteWordQ') = Len(dmaWriteWordQ) - 1
          /\ dmaWriteBuf' \in Nat /\ Len(dmaWriteWordQ) \in Nat
      BY <3>1
    <3>3. Owed = dataWordsRemain - 1 /\ Owed' = dataWordsRemain - 2
      BY <2>1, <2>3 DEF Owed
    <3> QED  BY <2>1, <2>3, <3>2, <3>3
  <2> QED  BY <2>1, <2>2, <2>3
<1>4. CASE UNCHANGED <<given, wordVars>>
  BY <1>4 DEF wordVars, Owed
<1> QED
  BY <1>1, <1>2, <1>3, <1>4
  DEF Next, User, Rules, dmaWriteReq, dmaReadReq, reply, readTagReturns, splitDmaWriteReq,
      splitDmaReadReq, splitDmaWriteReq2, splitDmaReadReq2, relayFreeWriteTag,
      relayBufIdxRead, generateDmaReadTLP, relayTLPm, relayTLP, userVars

-----------------------------------------------------------------------------
LEMMA BeatNext ==
  ASSUME SendInv, Next
  PROVE  BeatInv'
<1> USE SendAssumption DEF SendInv, BeatInv
<1>1. CASE reply
  <2>1. [kind |-> "reply"] \in Single
    BY DEF Single
  <2> QED  BY <1>1, <2>1 DEF reply, Sources
<1>2. CASE generateHeaderTLP
  <2>1. Head(dmaPageWriteReqQ).words \in 1 .. MaxBurst /\ Head(dmaPageWriteReqQ).off \in Nat
    BY <1>2, FirstPiece DEF generateHeaderTLP
  <2>2. Head(dmaWriteBufAddrQ) \in Nat /\ Head(dmaWriteWordQ) \in Nat
    <3>1. dmaWriteBufAddrQ # <<>> /\ dmaWriteWordQ # <<>>
      BY <1>2 DEF generateHeaderTLP
    <3>2. dmaWriteBufAddrQ \in Seq(Nat) /\ dmaWriteWordQ \in Seq(Nat)
      BY DEF PageInv, WordInv
    <3>3. Head(dmaWriteBufAddrQ) \in Nat
      BY ONLY <3>1, <3>2
    <3>4. Head(dmaWriteWordQ) \in Nat
      BY ONLY <3>1, <3>2
    <3> QED  BY <3>3, <3>4
  <2>3. Head(dmaWriteBufAddrQ) * PageWords + Head(dmaPageWriteReqQ).off \in Nat
    BY <2>1, <2>2, Address
  <2> DEFINE b == [kind |-> "write",
                   bus |-> Head(dmaWriteBufAddrQ) * PageWords + Head(dmaPageWriteReqQ).off,
                   words |-> Head(dmaPageWriteReqQ).words, first |-> Head(dmaWriteWordQ)]
  <2>4. b \in Beat
    BY <2>1, <2>2, <2>3 DEF Beat
  <2>5. sendTLPQ' = Append(sendTLPQ, b) /\ UNCHANGED <<sendTLPm, wire>>
    BY <1>2 DEF generateHeaderTLP
  <2> HIDE DEF b
  <2> QED  BY <2>4, <2>5
<1>3. CASE generateDataTLP
  <2>1. dmaWriteBuf \in Nat /\ (dmaWriteWordQ # <<>> => Head(dmaWriteWordQ) \in Nat)
    BY DEF WordInv
  <2>2. \E f \in Nat : sendTLPQ' = Append(sendTLPQ, [kind |-> "data", rest |-> dmaWriteBuf,
                                                     first |-> f])
    BY <1>3, <2>1 DEF generateDataTLP
  <2>3. PICK f \in Nat : sendTLPQ' = Append(sendTLPQ, [kind |-> "data", rest |-> dmaWriteBuf,
                                                      first |-> f])
    BY <2>2
  <2>4. [kind |-> "data", rest |-> dmaWriteBuf, first |-> f] \in Beat
    BY <2>1 DEF Beat
  <2>5. UNCHANGED <<sendTLPm, wire>>
    BY <1>3 DEF generateDataTLP
  <2> QED  BY <2>3, <2>4, <2>5
<1>4. CASE generateDmaReadTLP
  <2> DEFINE r == Head(dmaPageReadReqQ)
  <2>1. r \in Piece /\ Head(dmaReadBufAddrQ) \in Nat
    <3>1. dmaPageReadReqQ # <<>> /\ dmaReadBufAddrQ # <<>>
      BY <1>4 DEF generateDmaReadTLP
    <3>2. dmaPageReadReqQ \in Seq(Piece) /\ dmaReadBufAddrQ \in Seq(Nat)
      BY DEF PageInv
    <3>3. r \in Piece
      BY <3>1, <3>2, Queues
    <3>4. Head(dmaReadBufAddrQ) \in Nat
      BY <3>1, <3>2, Queues
    <3> QED  BY <3>3, <3>4
  <2>2. r.words \in 1 .. MaxBurst /\ r.off \in Nat
    BY <2>1 DEF Piece
  <2>3. Head(dmaReadBufAddrQ) * PageWords + r.off \in Nat
    BY <2>1, <2>2, Address
  <2> DEFINE b == [kind |-> "read", bus |-> Head(dmaReadBufAddrQ) * PageWords + r.off,
                   words |-> r.words]
  <2>4. b \in Single
    BY <2>2, <2>3 DEF Single
  <2>5. /\ sendTLPm' = [sendTLPm EXCEPT !["read"] = Append(@, b)]
        /\ UNCHANGED <<sendTLPQ, wire>>
    BY <1>4 DEF generateDmaReadTLP
  <2> HIDE DEF b
  <2> QED  BY <2>4, <2>5 DEF Sources
<1>5. CASE \E s \in Sources : relayTLPm(s)
  <2>1. PICK s \in Sources : relayTLPm(s)
    BY <1>5
  <2>2. sendTLPm[s] \in Seq(Single) /\ sendTLPm[s] # <<>>
    BY <2>1 DEF relayTLPm
  <2>3. Head(sendTLPm[s]) \in Beat /\ Tail(sendTLPm[s]) \in Seq(Single)
    BY <2>2, Queues DEF Beat
  <2> QED  BY <2>1, <2>3 DEF relayTLPm
<1>6. CASE relayTLP
  <2>1. sendTLPQ # <<>> /\ sendTLPQ' = Tail(sendTLPQ) /\ UNCHANGED sendTLPm
    BY <1>6 DEF relayTLP
  <2>2. Head(sendTLPQ) \in Beat /\ sendTLPQ' \in Seq(Beat)
    BY <2>1, Queues
  <2>3. wire' \in [left : 0 .. MaxBurst, bus : Nat, first : Nat]
    <3> DEFINE b == Head(sendTLPQ)
    <3>1. CASE b.kind = "write"
      <4>1. wire' = [left |-> b.words, bus |-> b.bus, first |-> b.first]
        BY <1>6, <3>1 DEF relayTLP
      <4>2. b.words \in 1 .. MaxBurst /\ b.bus \in Nat /\ b.first \in Nat
        BY <2>2, <3>1 DEF Beat, Single
      <4> QED  BY <4>1, <4>2
    <3>2. CASE b.kind = "data"
      <4>1. wire' = IF wire.left <= 1 THEN NoPacket
                    ELSE [left |-> wire.left - 1, bus |-> wire.bus + 1, first |-> b.first]
        BY <1>6, <3>2 DEF relayTLP
      <4>2. b.first \in Nat
        BY <2>2, <3>2 DEF Beat, Single
      <4> QED  BY <4>1, <4>2 DEF NoPacket
    <3>3. CASE b.kind \notin {"write", "data"}
      BY <1>6, <3>3 DEF relayTLP
    <3> QED  BY <3>1, <3>2, <3>3
  <2> QED  BY <2>1, <2>2, <2>3
<1>7. CASE UNCHANGED <<sendTLPQ, sendTLPm, wire>>
  BY <1>7
<1> QED
  BY <1>1, <1>2, <1>3, <1>4, <1>5, <1>6, <1>7
  DEF Next, User, Rules, dmaWriteReq, dmaReadReq, dmaWriteData, readTagReturns,
      splitDmaWriteReq, splitDmaReadReq, splitDmaWriteReq2, splitDmaReadReq2,
      relayFreeWriteTag, relayBufIdxRead, linkVars

-----------------------------------------------------------------------------
(* What the link still expects after a beat, when it expected n before.    *)
After(b, n) == IF b.kind = "write" THEN b.words ELSE IF b.kind = "data" THEN n - 1 ELSE n

(* What a beat more, or a beat less, does to what the link expects.        *)
LEMMA ExpectsAppend ==
  ASSUME NEW q \in Seq(Beat), NEW left \in [0 .. Len(q) -> Nat], Expects(left, q),
         NEW b \in Beat, b.kind = "data" <=> left[Len(q)] > 0, After(b, left[Len(q)]) \in Nat
  PROVE  \E more \in [0 .. Len(Append(q, b)) -> Nat] :
           /\ more[0] = left[0] /\ more[Len(Append(q, b))] = After(b, left[Len(q)])
           /\ Expects(more, Append(q, b))
<1> DEFINE n == After(b, left[Len(q)])
           r == Append(q, b)
           more == [k \in 0 .. Len(q) + 1 |-> IF k <= Len(q) THEN left[k] ELSE n]
<1>1. /\ Len(q) \in Nat /\ Len(r) = Len(q) + 1 /\ r[Len(q) + 1] = b
      /\ \A k \in 1 .. Len(q) : r[k] = q[k]
  OBVIOUS
<1>2. n \in Nat
  OBVIOUS
<1> HIDE DEF n, r
<1>3. /\ more \in [0 .. Len(r) -> Nat] /\ more[0] = left[0] /\ more[Len(r)] = n
      /\ \A k \in 0 .. Len(q) : more[k] = left[k]
  BY <1>1, <1>2
<1>4. ASSUME NEW k \in 1 .. Len(r)
      PROVE  (r[k].kind = "data" <=> more[k - 1] > 0) /\ more[k] = After(r[k], more[k - 1])
  <2>1. CASE k = Len(q) + 1
    <3>1. r[k] = b /\ more[k] = n /\ more[k - 1] = left[Len(q)]
      BY <1>1, <1>3, <2>1
    <3> QED  BY <3>1 DEF n
  <2>2. CASE k \in 1 .. Len(q)
    <3>1. r[k] = q[k] /\ more[k] = left[k] /\ more[k - 1] = left[k - 1]
      BY <1>1, <1>3, <2>2
    <3> QED  BY <2>2, <3>1 DEF Expects, After
  <2> QED  BY <1>1, <2>1, <2>2
<1>5. Expects(more, r)
  BY <1>4 DEF Expects, After
<1>6. more[0] = left[0] /\ more[Len(r)] = n /\ more \in [0 .. Len(r) -> Nat]
  BY <1>3
<1> HIDE DEF more
<1> QED  BY <1>5, <1>6 DEF n, r

LEMMA ExpectsTail ==
  ASSUME NEW q \in Seq(Beat), q # <<>>, NEW left \in [0 .. Len(q) -> Nat], Expects(left, q)
  PROVE  \E rest \in [0 .. Len(Tail(q)) -> Nat] :
           /\ rest[0] = left[1] /\ rest[Len(Tail(q))] = left[Len(q)]
           /\ Expects(rest, Tail(q))
<1> DEFINE r == Tail(q)
           rest == [k \in 0 .. Len(q) - 1 |-> left[k + 1]]
<1>1. /\ Len(q) \in Nat \ {0} /\ Len(r) = Len(q) - 1
      /\ \A k \in 1 .. Len(r) : r[k] = q[k + 1]
  OBVIOUS
<1> HIDE DEF r
<1>2. /\ rest \in [0 .. Len(r) -> Nat] /\ rest[0] = left[1] /\ rest[Len(r)] = left[Len(q)]
      /\ \A k \in 0 .. Len(r) : rest[k] = left[k + 1]
  BY <1>1
<1>3. ASSUME NEW k \in 1 .. Len(r)
      PROVE  (r[k].kind = "data" <=> rest[k - 1] > 0) /\ rest[k] = After(r[k], rest[k - 1])
  <2>1. /\ r[k] = q[k + 1] /\ rest[k] = left[k + 1] /\ rest[k - 1] = left[k]
        /\ k + 1 \in 1 .. Len(q) /\ (k + 1) - 1 = k
    BY <1>1, <1>2
  <2>2. /\ q[k + 1].kind = "data" <=> left[(k + 1) - 1] > 0
        /\ left[k + 1] = After(q[k + 1], left[(k + 1) - 1])
    BY <2>1 DEF Expects, After
  <2> QED  BY <2>1, <2>2
<1>4. Expects(rest, r)
  BY <1>3 DEF Expects, After
<1> HIDE DEF rest
<1> QED  BY <1>2, <1>4 DEF r

LEMMA FrameNext ==
  ASSUME SendInv, Next
  PROVE  FrameInv'
<1> USE SendAssumption
<1>0. PICK left \in [0 .. Len(sendTLPQ) -> Nat] :
        /\ left[0] = wire.left /\ left[Len(sendTLPQ)] = dataWordsRemain
        /\ Expects(left, sendTLPQ)
  BY DEF SendInv, FrameInv
<1>00. sendTLPQ \in Seq(Beat)
  BY DEF SendInv, BeatInv
<1>1. ASSUME NEW b \in Beat, sendTLPQ' = Append(sendTLPQ, b), wire' = wire,
             b.kind = "data" <=> dataWordsRemain > 0,
             After(b, dataWordsRemain) \in Nat, dataWordsRemain' = After(b, dataWordsRemain)
      PROVE  FrameInv'
  BY <1>0, <1>00, <1>1, ExpectsAppend DEF FrameInv
<1>2. CASE generateHeaderTLP
  <2>1. BeatInv'
    BY BeatNext
  <2> DEFINE b == [kind |-> "write",
                   bus |-> Head(dmaWriteBufAddrQ) * PageWords + Head(dmaPageWriteReqQ).off,
                   words |-> Head(dmaPageWriteReqQ).words, first |-> Head(dmaWriteWordQ)]
  <2>2. /\ sendTLPQ' = Append(sendTLPQ, b) /\ wire' = wire /\ dataWordsRemain = 0
        /\ dataWordsRemain' = b.words /\ b.kind = "write"
    BY <1>2 DEF generateHeaderTLP
  <2>3. b.words \in Nat
    BY <1>2, FirstPiece DEF generateHeaderTLP, SendInv
  <2> HIDE DEF b
  <2>4. b \in Beat
    BY <1>00, <2>1, <2>2, LastIn DEF BeatInv
  <2> QED  BY <1>1, <2>2, <2>3, <2>4 DEF After
<1>3. CASE generateDataTLP
  <2>1. BeatInv'
    BY BeatNext
  <2>2. \E f : sendTLPQ' = Append(sendTLPQ, [kind |-> "data", rest |-> dmaWriteBuf, first |-> f])
    BY <1>3 DEF generateDataTLP
  <2>3. PICK f : sendTLPQ' = Append(sendTLPQ, [kind |-> "data", rest |-> dmaWriteBuf,
                                               first |-> f])
    BY <2>2
  <2> DEFINE b == [kind |-> "data", rest |-> dmaWriteBuf, first |-> f]
  <2>4. /\ wire' = wire /\ dataWordsRemain > 0 /\ dataWordsRemain' = dataWordsRemain - 1
        /\ dataWordsRemain \in Nat
    BY <1>3 DEF generateDataTLP, SendInv, WordInv
  <2>5. b.kind = "data"
    OBVIOUS
  <2>6. sendTLPQ' = Append(sendTLPQ, b)
    BY <2>3
  <2> HIDE DEF b
  <2>7. b \in Beat
    BY <1>00, <2>1, <2>6, LastIn DEF BeatInv
  <2> QED  BY <1>1, <2>4, <2>5, <2>6, <2>7 DEF After
<1>4. CASE \E s \in Sources : relayTLPm(s)
  <2>1. PICK s \in Sources : relayTLPm(s)
    BY <1>4
  <2> DEFINE b == Head(sendTLPm[s])
  <2>2. /\ sendTLPQ' = Append(sendTLPQ, b) /\ wire' = wire /\ dataWordsRemain = 0
        /\ dataWordsRemain' = 0 /\ sendTLPm[s] # <<>>
    BY <2>1 DEF relayTLPm, BetweenBursts, wordVars
  <2>3. b \in Single
    BY <2>2, Queues DEF SendInv, BeatInv
  <2>4. b \in Beat /\ b.kind \in {"read", "reply"}
    BY <2>3 DEF Beat, Single
  <2> HIDE DEF b
  <2> QED  BY <1>1, <2>2, <2>4 DEF After
<1>5. CASE relayTLP
  <2>1. sendTLPQ # <<>> /\ sendTLPQ' = Tail(sendTLPQ) /\ dataWordsRemain' = dataWordsRemain
    BY <1>5 DEF relayTLP, wordVars
  <2>2. PICK rest \in [0 .. Len(Tail(sendTLPQ)) -> Nat] :
           /\ rest[0] = left[1] /\ rest[Len(Tail(sendTLPQ))] = left[Len(sendTLPQ)]
           /\ Expects(rest, Tail(sendTLPQ))
    BY <1>0, <1>00, <2>1, ExpectsTail
  <2>3. left[1] = wire'.left
    <3> DEFINE b == Head(sendTLPQ)
    <3>1. 1 \in 1 .. Len(sendTLPQ) /\ sendTLPQ[1] = b /\ b \in Beat
      BY <1>00, <2>1
    <3>2. (b.kind = "data" <=> wire.left > 0) /\ left[1] = After(b, wire.left)
      BY <1>0, <3>1 DEF Expects, After
    <3>3. wire.left \in Nat
      BY DEF SendInv, BeatInv
    <3>4. CASE b.kind = "write"
      BY <1>5, <3>2, <3>4 DEF relayTLP, After
    <3>5. CASE b.kind = "data"
      BY <1>5, <3>2, <3>3, <3>5 DEF relayTLP, After, NoPacket
    <3>6. CASE b.kind \notin {"write", "data"}
      BY <1>5, <3>2, <3>6 DEF relayTLP, After
    <3> QED  BY <3>4, <3>5, <3>6
  <2> QED  BY <1>0, <2>1, <2>2, <2>3 DEF FrameInv
<1>6. CASE UNCHANGED <<sendTLPQ, wire, dataWordsRemain>>
  BY <1>0, <1>6 DEF FrameInv
<1> QED
  BY <1>2, <1>3, <1>4, <1>5, <1>6
  DEF Next, User, Rules, dmaWriteReq, dmaReadReq, dmaWriteData, reply, readTagReturns,
      splitDmaWriteReq, splitDmaReadReq, splitDmaWriteReq2, splitDmaReadReq2,
      relayFreeWriteTag, relayBufIdxRead, generateDmaReadTLP, wordVars, linkVars

-----------------------------------------------------------------------------
LEMMA SendInvHolds == Spec => []SendInv
<1>1. SendInv /\ [Next]_vars => SendInv'
  <2> SUFFICES ASSUME SendInv, [Next]_vars PROVE SendInv'
    OBVIOUS
  <2>1. CASE Next
    BY <2>1, ReqNext, PageNext, TagNext, WordNext, BeatNext, FrameNext DEF SendInv
  <2>2. CASE UNCHANGED vars
    <3> USE <2>2 DEF SendInv, vars
    <3>1. ReqInv'   BY DEF ReqInv, writeReqs, readReqs
    <3>2. PageInv'  BY DEF PageInv, pageVars
    <3>3. TagInv'   BY DEF TagInv, Sending, tagVars, pageVars, wordVars
    <3>4. WordInv'  BY DEF WordInv, Owed, userVars, wordVars
    <3>5. BeatInv'  BY DEF BeatInv, linkVars
    <3>6. FrameInv' BY DEF FrameInv, linkVars, wordVars
    <3> QED  BY <3>1, <3>2, <3>3, <3>4, <3>5, <3>6
  <2> QED  BY <2>1, <2>2
<1> QED
  BY <1>1, SendInvInit, PTL DEF Spec

(* Every register, queue and tag count keeps its type, and no write tag is *)
(* lost or returned twice.                                                 *)
THEOREM SendTypeCorrect == Spec => []TypeOK
<1>1. SendInv => TypeOK
  <2> SUFFICES ASSUME SendInv PROVE TypeOK
    OBVIOUS
  <2>1. ASSUME NEW q \in Seq(Piece) PROVE q \in Seq([off : 0 .. PageWords - 1, words : Lengths])
    <3> DEFINE T == [off : 0 .. PageWords - 1, words : Lengths]
    <3>1. ASSUME NEW p \in Piece PROVE p \in T
      BY <3>1, SendAssumption DEF Piece, Lengths
    <3>2. Len(q) \in Nat /\ q \in [1 .. Len(q) -> Piece]
      OBVIOUS
    <3>3. q \in [1 .. Len(q) -> T]
      BY <3>1, <3>2
    <3> QED
      <4> HIDE DEF T
      <4>1. q \in Seq(T)
        BY <3>2, <3>3
      <4> QED  BY <4>1 DEF T
  <2> QED  BY <2>1 DEF SendInv, ReqInv, PageInv, TagInv, WordInv, BeatInv, TypeOK, Request, Lengths
<1> QED  BY <1>1, SendInvHolds, PTL

(* When the header of a write is out every word of it is there, whatever   *)
(* the 10-bit counters have wrapped to.                                    *)
THEOREM BurstsHaveData == Spec => []BurstHasData
<1>1. SendInv => BurstHasData
  <2> SUFFICES ASSUME SendInv PROVE BurstHasData
    OBVIOUS
  <2>1. Len(dmaWriteWordQ) \in Nat /\ Owed <= Len(dmaWriteWordQ) /\ dataWordsRemain \in Nat
    BY DEF SendInv, WordInv
  <2> QED  BY <2>1 DEF Owed, BurstHasData
<1> QED  BY <1>1, SendInvHolds, PTL

(* On the link nothing comes between the beats of a write, and data comes  *)
(* only after a header, for any traffic of requests and replies.           *)
THEOREM AlwaysFramed == Spec => []Framed
<1>1. SendInv => Framed
  <2> SUFFICES ASSUME SendInv, sendTLPQ # <<>>
               PROVE  Head(sendTLPQ).kind = "data" <=> wire.left > 0
    BY DEF Framed
  <2>1. PICK left \in [0 .. Len(sendTLPQ) -> Nat] :
          left[0] = wire.left /\ Expects(left, sendTLPQ)
    BY DEF SendInv, FrameInv
  <2>2. 1 \in 1 .. Len(sendTLPQ) /\ sendTLPQ[1] = Head(sendTLPQ)
    BY DEF SendInv, BeatInv
  <2> QED  BY <2>1, <2>2 DEF Expects
<1> QED  BY <1>1, SendInvHolds, PTL

-----------------------------------------------------------------------------
(* Where words and read requests belong.  Between a request and the link   *)
(* lie, in order: requests that wait, the one being cut, bursts without    *)
(* their page, pages in bufidxQ between those of the other direction,      *)
(* pages in the queue of the direction, TLPs.  Each queue takes the place  *)
(* of the next word on by the words of its entries.                        *)

(* A queue takes a state a to a state b, one entry after the other, by     *)
(* moves <<state, entry, state>> of M.                                     *)
Path(S, q, a, b, M) ==
  \E st \in [0 .. Len(q) -> S] :
    /\ st[0] = a /\ st[Len(q)] = b
    /\ \A k \in 1 .. Len(q) : <<st[k - 1], q[k], st[k]>> \in M

LEMMA PathEmpty ==
  ASSUME NEW S, NEW a \in S, NEW M
  PROVE  Path(S, <<>>, a, a, M)
<1> DEFINE st == [k \in 0 .. 0 |-> a]
<1>1. Len(<<>>) = 0 /\ st \in [0 .. 0 -> S] /\ st[0] = a
  OBVIOUS
<1> HIDE DEF st
<1> QED  BY <1>1 DEF Path

LEMMA PathEnds ==
  ASSUME NEW S, NEW E, NEW q \in Seq(E), NEW a, NEW b, NEW M, Path(S, q, a, b, M)
  PROVE  a \in S /\ b \in S /\ (q = <<>> => a = b)
<1>1. Len(q) \in Nat /\ (q = <<>> => Len(q) = 0)
  OBVIOUS
<1> QED  BY <1>1 DEF Path

LEMMA PathAppend ==
  ASSUME NEW S, NEW E, NEW q \in Seq(E), NEW e \in E, NEW a, NEW b, NEW c \in S, NEW M,
         Path(S, q, a, b, M), <<b, e, c>> \in M
  PROVE  Path(S, Append(q, e), a, c, M)
<1> DEFINE r == Append(q, e)
<1>1. /\ Len(q) \in Nat /\ Len(r) = Len(q) + 1 /\ r[Len(q) + 1] = e
      /\ \A k \in 1 .. Len(q) : r[k] = q[k]
  OBVIOUS
<1>2. PICK st \in [0 .. Len(q) -> S] :
        /\ st[0] = a /\ st[Len(q)] = b
        /\ \A k \in 1 .. Len(q) : <<st[k - 1], q[k], st[k]>> \in M
  BY DEF Path
<1> DEFINE more == [k \in 0 .. Len(q) + 1 |-> IF k <= Len(q) THEN st[k] ELSE c]
<1> HIDE DEF r
<1>3. /\ more \in [0 .. Len(r) -> S] /\ more[0] = a /\ more[Len(r)] = c
      /\ \A k \in 0 .. Len(q) : more[k] = st[k]
  BY <1>1, <1>2
<1> HIDE DEF more
<1>4. ASSUME NEW k \in 1 .. Len(r)
      PROVE  <<more[k - 1], r[k], more[k]>> \in M
  <2>1. CASE k = Len(q) + 1
    <3>1. r[k] = e /\ more[k] = c /\ more[k - 1] = b
      BY <1>1, <1>2, <1>3, <2>1
    <3> QED  BY <3>1
  <2>2. CASE k \in 1 .. Len(q)
    <3>1. r[k] = q[k] /\ more[k] = st[k] /\ more[k - 1] = st[k - 1]
      BY <1>1, <1>3, <2>2
    <3> QED  BY <1>2, <2>2, <3>1
  <2> QED  BY <1>1, <2>1, <2>2
<1>5. Path(S, r, a, c, M)
  BY <1>3, <1>4 DEF Path
<1> QED  BY <1>5 DEF r

LEMMA PathTail ==
  ASSUME NEW S, NEW E, NEW q \in Seq(E), q # <<>>, NEW a, NEW b, NEW M, Path(S, q, a, b, M)
  PROVE  \E c \in S : <<a, Head(q), c>> \in M /\ Path(S, Tail(q), c, b, M)
<1> DEFINE r == Tail(q)
<1>1. /\ Len(q) \in Nat \ {0} /\ Len(r) = Len(q) - 1 /\ Head(q) = q[1]
      /\ \A k \in 1 .. Len(r) : r[k] = q[k + 1]
  OBVIOUS
<1>2. PICK st \in [0 .. Len(q) -> S] :
        /\ st[0] = a /\ st[Len(q)] = b
        /\ \A k \in 1 .. Len(q) : <<st[k - 1], q[k], st[k]>> \in M
  BY DEF Path
<1> DEFINE rest == [k \in 0 .. Len(q) - 1 |-> st[k + 1]]
<1> HIDE DEF r
<1>3. /\ rest \in [0 .. Len(r) -> S] /\ rest[0] = st[1] /\ rest[Len(r)] = b
      /\ \A k \in 0 .. Len(r) : rest[k] = st[k + 1]
  BY <1>1, <1>2
<1> HIDE DEF rest
<1>4. ASSUME NEW k \in 1 .. Len(r)
      PROVE  <<rest[k - 1], r[k], rest[k]>> \in M
  <2>1. /\ r[k] = q[k + 1] /\ rest[k] = st[k + 1] /\ rest[k - 1] = st[(k + 1) - 1]
        /\ k + 1 \in 1 .. Len(q)
    BY <1>1, <1>3
  <2>2. <<st[(k + 1) - 1], q[k + 1], st[k + 1]>> \in M
    BY <1>2, <2>1
  <2> QED  BY <2>1, <2>2
<1>5. Path(S, r, st[1], b, M)
  BY <1>3, <1>4 DEF Path
<1>6. st[1] \in S /\ <<a, Head(q), st[1]>> \in M
  <2>1. 1 \in 1 .. Len(q) /\ 1 - 1 = 0
    BY <1>1
  <2>2. <<st[1 - 1], q[1], st[1]>> \in M
    BY <1>2, <2>1
  <2> QED  BY <1>1, <1>2, <2>1, <2>2
<1> QED  BY <1>5, <1>6 DEF r

LEMMA PathMore ==
  ASSUME NEW S, NEW q, NEW a, NEW b, NEW M, NEW N, Path(S, q, a, b, M), M \subseteq N
  PROVE  Path(S, q, a, b, N)
BY DEF Path

-----------------------------------------------------------------------------
(* n words from bus address b on are those asked for at place p and on.    *)
Covers(bus, p, b, n) == \A i \in 0 .. n - 1 : p + i \in 1 .. Len(bus) /\ bus[p + i] = b + i

(* Requests: those that wait and the one that is being cut, up to what was *)
(* asked for last.                                                         *)
Asked(bus, p, r) ==
  \A i \in 0 .. r.words - 1 : p + i \in 1 .. Len(bus) /\ bus[p + i] = BusAddr(r.addr + i)
AskedMoves(bus) ==
  {m \in Nat \X Request \X Nat : m[3] = m[1] + m[2].words /\ Asked(bus, m[1], m[2])}
Requested(bus, q, cut, p) ==
  /\ p \in Nat /\ Asked(bus, p, cut)
  /\ Path(Nat, q, p + cut.words, Len(bus) + 1, AskedMoves(bus))

(* Bursts: all of one direction there have been, of which the first lo are *)
(* on their way to the link; their pages wait in the page queue of their   *)
(* direction, then in bufidxQ between those of the other.                  *)
Entry == [write : BOOLEAN, page : Nat]
WriteEntries == {e \in Entry : ForWrite(e)}
ReadEntries == {e \in Entry : ~ForWrite(e)}
Burst == [off : 0 .. PageWords - 1, words : 1 .. MaxBurst, page : Nat]
CountMoves(mine, all, n) ==
  {m \in Nat \X Entry \X Nat :
     IF m[2] \in mine THEN m[3] = m[1] + 1 /\ m[3] \in 1 .. n /\ all[m[3]].page = m[2].page
     ELSE m[3] = m[1]}

Placed(bus, all, at, n) ==
  \A k \in 1 .. n : /\ at[k + 1] = at[k] + all[k].words
                    /\ Covers(bus, at[k], all[k].page * PageWords + all[k].off, all[k].words)
Waiting(pieces, pages, idx, mine, all, n, lo) ==
  /\ lo + Len(pieces) = n
  /\ \A k \in 1 .. Len(pieces) :
       pieces[k].off = all[lo + k].off /\ pieces[k].words = all[lo + k].words
  /\ \A k \in 1 .. Len(pages) : lo + k \in 1 .. n /\ pages[k] = all[lo + k].page
  /\ Path(Nat, idx, lo + Len(pages), n, CountMoves(mine, all, n))
Tiled(bus, pieces, pages, idx, mine, from, to) ==
  \E n \in Nat : \E all \in [1 .. n -> Burst], at \in [1 .. n + 1 -> Nat], lo \in 0 .. n :
    /\ at[lo + 1] = from /\ at[n + 1] = to
    /\ Placed(bus, all, at, n) /\ Waiting(pieces, pages, idx, mine, all, n, lo)

-----------------------------------------------------------------------------
LEMMA TiledEmpty ==
  ASSUME NEW bus, NEW mine, NEW p \in Nat
  PROVE  Tiled(bus, <<>>, <<>>, <<>>, mine, p, p)
<1> DEFINE all == [k \in 1 .. 0 |-> [off |-> 0, words |-> 1, page |-> 0]]
           at == [k \in 1 .. 1 |-> p]
<1>1. all \in [1 .. 0 -> Burst] /\ at \in [1 .. 1 -> Nat] /\ at[1] = p
  OBVIOUS
<1>2. Placed(bus, all, at, 0)
  BY DEF Placed
<1>3. Path(Nat, <<>>, 0, 0, CountMoves(mine, all, 0))
  BY PathEmpty
<1> HIDE DEF all, at
<1>4. Waiting(<<>>, <<>>, <<>>, mine, all, 0, 0)
  <2>1. Len(<<>>) = 0
    OBVIOUS
  <2> QED  BY <1>3, <2>1 DEF Waiting
<1>5. 0 \in Nat /\ 0 \in 0 .. 0 /\ 0 + 1 = 1
  OBVIOUS
<1> QED  BY <1>1, <1>2, <1>4, <1>5 DEF Tiled

LEMMA TiledMore ==
  ASSUME NEW bus \in Seq(Nat), NEW more \in Seq(Nat), NEW pieces, NEW pages, NEW idx, NEW mine,
         NEW from, NEW to, Tiled(bus, pieces, pages, idx, mine, from, to)
  PROVE  Tiled(bus \o more, pieces, pages, idx, mine, from, to)
<1>1. \A j \in 1 .. Len(bus) : j \in 1 .. Len(bus \o more) /\ (bus \o more)[j] = bus[j]
  OBVIOUS
<1>2. \A p, b, n : Covers(bus, p, b, n) => Covers(bus \o more, p, b, n)
  BY <1>1 DEF Covers
<1>3. \A all, at, n : Placed(bus, all, at, n) => Placed(bus \o more, all, at, n)
  BY <1>2 DEF Placed
<1> QED  BY <1>3 DEF Tiled

(* A burst is cut from a request.                                          *)
LEMMA TiledSplit ==
  ASSUME NEW bus, NEW pieces \in Seq(Piece), NEW pages \in Seq(Nat), NEW idx \in Seq(Entry),
         NEW mine, NEW from, NEW to, Tiled(bus, pieces, pages, idx, mine, from, to),
         NEW x \in Piece, NEW e \in Entry, e \in mine,
         Covers(bus, to, e.page * PageWords + x.off, x.words)
  PROVE  Tiled(bus, Append(pieces, x), pages, Append(idx, e), mine, from, to + x.words)
<1>1. PICK n \in Nat : \E all \in [1 .. n -> Burst], at \in [1 .. n + 1 -> Nat], lo \in 0 .. n :
        /\ at[lo + 1] = from /\ at[n + 1] = to
        /\ Placed(bus, all, at, n) /\ Waiting(pieces, pages, idx, mine, all, n, lo)
  BY DEF Tiled
<1>2. PICK all \in [1 .. n -> Burst], at \in [1 .. n + 1 -> Nat], lo \in 0 .. n :
        /\ at[lo + 1] = from /\ at[n + 1] = to
        /\ Placed(bus, all, at, n) /\ Waiting(pieces, pages, idx, mine, all, n, lo)
  BY <1>1
<1> DEFINE b == [off |-> x.off, words |-> x.words, page |-> e.page]
           all1 == [k \in 1 .. n + 1 |-> IF k <= n THEN all[k] ELSE b]
           at1 == [k \in 1 .. n + 2 |-> IF k <= n + 1 THEN at[k] ELSE to + x.words]
<1>3. b \in Burst /\ x.words \in Nat /\ to \in Nat
  BY <1>2, SendAssumption DEF Piece, Burst, Entry
<1>4. /\ all1 \in [1 .. n + 1 -> Burst] /\ all1[n + 1] = b
      /\ \A k \in 1 .. n : all1[k] = all[k]
  BY <1>3
<1>5. /\ at1 \in [1 .. (n + 1) + 1 -> Nat] /\ at1[(n + 1) + 1] = to + x.words
      /\ \A k \in 1 .. n + 1 : at1[k] = at[k]
  BY <1>3
<1>6. b.off = x.off /\ b.words = x.words /\ b.page = e.page
  OBVIOUS
<1> HIDE DEF b, all1, at1
<1>7. Placed(bus, all1, at1, n + 1)
  <2> SUFFICES ASSUME NEW k \in 1 .. n + 1
               PROVE  /\ at1[k + 1] = at1[k] + all1[k].words
                      /\ Covers(bus, at1[k], all1[k].page * PageWords + all1[k].off, all1[k].words)
    BY DEF Placed
  <2>1. CASE k = n + 1
    <3>1. all1[k] = b /\ at1[k] = to /\ at1[k + 1] = to + x.words
      BY <1>2, <1>4, <1>5, <2>1
    <3> QED  BY <1>6, <3>1
  <2>2. CASE k \in 1 .. n
    <3>1. all1[k] = all[k] /\ at1[k] = at[k] /\ at1[k + 1] = at[k + 1]
      BY <1>4, <1>5, <2>2
    <3> QED  BY <1>2, <2>2, <3>1 DEF Placed
  <2> QED  BY <2>1, <2>2
<1> DEFINE pieces1 == Append(pieces, x)
<1>8. /\ Len(pieces1) = Len(pieces) + 1 /\ Len(pieces) \in Nat /\ Len(pages) \in Nat
      /\ pieces1[Len(pieces) + 1] = x /\ \A k \in 1 .. Len(pieces) : pieces1[k] = pieces[k]
  OBVIOUS
<1> HIDE DEF pieces1
<1>9. CountMoves(mine, all, n) \subseteq CountMoves(mine, all1, n + 1)
  BY <1>4 DEF CountMoves
<1>10. <<n, e, n + 1>> \in CountMoves(mine, all1, n + 1)
  BY <1>4, <1>6 DEF CountMoves
<1>11. Path(Nat, Append(idx, e), lo + Len(pages), n + 1, CountMoves(mine, all1, n + 1))
  <2>1. Path(Nat, idx, lo + Len(pages), n, CountMoves(mine, all, n))
    BY <1>2 DEF Waiting
  <2>2. Path(Nat, idx, lo + Len(pages), n, CountMoves(mine, all1, n + 1))
    BY <1>9, <2>1, PathMore
  <2> QED  BY <1>10, <2>2, PathAppend
<1>12. Waiting(pieces1, pages, Append(idx, e), mine, all1, n + 1, lo)
  <2>0. lo + Len(pieces) = n
    BY <1>2 DEF Waiting
  <2>1. lo + Len(pieces1) = n + 1
    BY <1>8, <2>0
  <2>2. ASSUME NEW k \in 1 .. Len(pieces1)
        PROVE  pieces1[k].off = all1[lo + k].off /\ pieces1[k].words = all1[lo + k].words
    <3>1. CASE k = Len(pieces) + 1
      <4>1. pieces1[k] = x /\ lo + k = n + 1
        BY <1>8, <2>0, <3>1
      <4> QED  BY <1>4, <1>6, <4>1
    <3>2. CASE k \in 1 .. Len(pieces)
      <4>1. pieces1[k] = pieces[k] /\ lo + k \in 1 .. n
        BY <1>8, <2>0, <3>2
      <4> QED  BY <1>2, <1>4, <3>2, <4>1 DEF Waiting
    <3> QED  BY <1>8, <3>1, <3>2
  <2>3. ASSUME NEW k \in 1 .. Len(pages)
        PROVE  lo + k \in 1 .. n + 1 /\ pages[k] = all1[lo + k].page
    <3>1. lo + k \in 1 .. n /\ pages[k] = all[lo + k].page
      BY <1>2 DEF Waiting
    <3> QED  BY <1>4, <3>1
  <2> QED  BY <1>11, <2>1, <2>2, <2>3 DEF Waiting
<1>13. at1[lo + 1] = from /\ lo \in 0 .. n + 1 /\ n + 1 \in Nat
  BY <1>2, <1>5
<1> QED  BY <1>4, <1>5, <1>7, <1>12, <1>13 DEF Tiled, pieces1

(* A burst of the other direction is cut.                                  *)
LEMMA TiledOther ==
  ASSUME NEW bus, NEW pieces, NEW pages, NEW idx \in Seq(Entry), NEW mine, NEW from, NEW to,
         Tiled(bus, pieces, pages, idx, mine, from, to), NEW e \in Entry, e \notin mine
  PROVE  Tiled(bus, pieces, pages, Append(idx, e), mine, from, to)
<1>1. ASSUME NEW n \in Nat, NEW all, NEW lo, Waiting(pieces, pages, idx, mine, all, n, lo)
      PROVE  Waiting(pieces, pages, Append(idx, e), mine, all, n, lo)
  <2>1. <<n, e, n>> \in CountMoves(mine, all, n)
    BY DEF CountMoves
  <2> QED  BY <1>1, <2>1, PathAppend DEF Waiting
<1> QED  BY <1>1 DEF Tiled

(* The page address of a burst comes out of configBuffer.                  *)
LEMMA TiledRelay ==
  ASSUME NEW bus, NEW pieces, NEW pages \in Seq(Nat), NEW idx \in Seq(Entry), idx # <<>>, NEW mine,
         NEW from, NEW to, Tiled(bus, pieces, pages, idx, mine, from, to)
  PROVE  /\ Head(idx) \in mine =>
              Tiled(bus, pieces, Append(pages, Head(idx).page), Tail(idx), mine, from, to)
         /\ Head(idx) \notin mine => Tiled(bus, pieces, pages, Tail(idx), mine, from, to)
<1> DEFINE e == Head(idx)
           pages1 == Append(pages, e.page)
<1>00. e \in Entry
  BY Queues
<1>0. e.page \in Nat
  BY <1>00 DEF Entry
<1>1. /\ Len(pages) \in Nat /\ Len(pages1) = Len(pages) + 1 /\ pages1[Len(pages) + 1] = e.page
      /\ \A k \in 1 .. Len(pages) : pages1[k] = pages[k]
  BY <1>0
<1> HIDE DEF pages1
<1>2. ASSUME NEW n \in Nat, NEW all, NEW lo \in 0 .. n,
             Waiting(pieces, pages, idx, mine, all, n, lo)
      PROVE  /\ e \in mine => Waiting(pieces, pages1, Tail(idx), mine, all, n, lo)
             /\ e \notin mine => Waiting(pieces, pages, Tail(idx), mine, all, n, lo)
  <2>1. PICK c \in Nat : /\ <<lo + Len(pages), e, c>> \in CountMoves(mine, all, n)
                         /\ Path(Nat, Tail(idx), c, n, CountMoves(mine, all, n))
    BY <1>2, PathTail DEF Waiting
  <2>2. CASE e \in mine
    <3>1. c = lo + Len(pages1) /\ c \in 1 .. n /\ all[c].page = e.page
      BY <1>1, <2>1, <2>2 DEF CountMoves
    <3>2. ASSUME NEW k \in 1 .. Len(pages1)
          PROVE  lo + k \in 1 .. n /\ pages1[k] = all[lo + k].page
      <4>1. CASE k = Len(pages) + 1
        BY <1>1, <3>1, <4>1
      <4>2. CASE k \in 1 .. Len(pages)
        BY <1>1, <1>2, <4>2 DEF Waiting
      <4> QED  BY <1>1, <4>1, <4>2
    <3> QED  BY <1>2, <2>1, <2>2, <3>1, <3>2 DEF Waiting
  <2>3. CASE e \notin mine
    <3>1. c = lo + Len(pages)
      BY <2>1, <2>3 DEF CountMoves
    <3> QED  BY <1>2, <2>1, <2>3, <3>1 DEF Waiting
  <2> QED  BY <2>2, <2>3
<1> QED  BY <1>2 DEF Tiled, pages1

(* A burst goes to the link.                                               *)
LEMMA TiledTake ==
  ASSUME NEW bus, NEW pieces \in Seq(Piece), pieces # <<>>, NEW pages \in Seq(Nat), pages # <<>>,
         NEW idx, NEW mine, NEW from, NEW to, Tiled(bus, pieces, pages, idx, mine, from, to)
  PROVE  /\ from \in Nat
         /\ Covers(bus, from, Head(pages) * PageWords + Head(pieces).off, Head(pieces).words)
         /\ Tiled(bus, Tail(pieces), Tail(pages), idx, mine, from + Head(pieces).words, to)
<1>1. PICK n \in Nat : \E all \in [1 .. n -> Burst], at \in [1 .. n + 1 -> Nat], lo \in 0 .. n :
        /\ at[lo + 1] = from /\ at[n + 1] = to
        /\ Placed(bus, all, at, n) /\ Waiting(pieces, pages, idx, mine, all, n, lo)
  BY DEF Tiled
<1>2. PICK all \in [1 .. n -> Burst], at \in [1 .. n + 1 -> Nat], lo \in 0 .. n :
        /\ at[lo + 1] = from /\ at[n + 1] = to
        /\ Placed(bus, all, at, n) /\ Waiting(pieces, pages, idx, mine, all, n, lo)
  BY <1>1
<1> DEFINE r == Tail(pieces)
           s == Tail(pages)
<1>3. /\ Len(pieces) \in Nat \ {0} /\ Len(r) = Len(pieces) - 1 /\ Head(pieces) = pieces[1]
      /\ \A k \in 1 .. Len(r) : r[k] = pieces[k + 1]
  OBVIOUS
<1>4. /\ Len(pages) \in Nat \ {0} /\ Len(s) = Len(pages) - 1 /\ Head(pages) = pages[1]
      /\ \A k \in 1 .. Len(s) : s[k] = pages[k + 1]
  OBVIOUS
<1> HIDE DEF r, s
<1>5. /\ lo + Len(pieces) = n /\ lo + 1 \in 1 .. n /\ lo + 1 \in 0 .. n
      /\ pieces[1].off = all[lo + 1].off /\ pieces[1].words = all[lo + 1].words
      /\ pages[1] = all[lo + 1].page
  <2>1. lo + Len(pieces) = n
    BY <1>2 DEF Waiting
  <2>2. lo + 1 \in 1 .. n /\ lo + 1 \in 0 .. n /\ 1 \in 1 .. Len(pieces) /\ 1 \in 1 .. Len(pages)
    BY <1>3, <1>4, <2>1
  <2> QED  BY <1>2, <2>1, <2>2 DEF Waiting
<1>6. /\ at[(lo + 1) + 1] = from + pieces[1].words
      /\ Covers(bus, from, pages[1] * PageWords + pieces[1].off, pieces[1].words)
  BY <1>2, <1>5 DEF Placed
<1>7. Waiting(r, s, idx, mine, all, n, lo + 1)
  <2>1. (lo + 1) + Len(r) = n /\ (lo + 1) + Len(s) = lo + Len(pages)
    <3>1. lo + Len(pieces) = n /\ lo \in Nat
      BY <1>2, <1>5
    <3>2. /\ Len(pieces) \in Nat /\ Len(r) = Len(pieces) - 1
          /\ Len(pages) \in Nat /\ Len(s) = Len(pages) - 1
      BY <1>3, <1>4
    <3>3. (lo + 1) + Len(r) = n
      <4>1. ASSUME NEW a \in Nat, NEW b \in Nat, NEW c \in Nat, NEW d, a + b = c, d = b - 1
            PROVE  (a + 1) + d = c
        BY <4>1
      <4> QED  BY <3>1, <3>2, <4>1
    <3>4. (lo + 1) + Len(s) = lo + Len(pages)
      BY <3>1, <3>2
    <3> QED  BY <3>3, <3>4
  <2>2. ASSUME NEW k \in 1 .. Len(r)
        PROVE  r[k].off = all[(lo + 1) + k].off /\ r[k].words = all[(lo + 1) + k].words
    <3>1. k + 1 \in 1 .. Len(pieces) /\ r[k] = pieces[k + 1] /\ lo + (k + 1) = (lo + 1) + k
      BY <1>3
    <3> QED  BY <1>2, <3>1 DEF Waiting
  <2>3. ASSUME NEW k \in 1 .. Len(s)
        PROVE  (lo + 1) + k \in 1 .. n /\ s[k] = all[(lo + 1) + k].page
    <3>1. k + 1 \in 1 .. Len(pages) /\ s[k] = pages[k + 1] /\ lo + (k + 1) = (lo + 1) + k
      BY <1>4
    <3> QED  BY <1>2, <3>1 DEF Waiting
  <2>4. Path(Nat, idx, (lo + 1) + Len(s), n, CountMoves(mine, all, n))
    BY <1>2, <2>1 DEF Waiting
  <2> QED  BY <2>1, <2>2, <2>3, <2>4 DEF Waiting
<1>8. Tiled(bus, r, s, idx, mine, from + pieces[1].words, to)
  BY <1>2, <1>5, <1>6, <1>7 DEF Tiled
<1>9. from \in Nat
  BY <1>2, <1>5
<1> QED  BY <1>3, <1>4, <1>6, <1>8, <1>9 DEF r, s

-----------------------------------------------------------------------------
LEMMA InOnePage ==
  ASSUME NEW a \in Nat, NEW i \in Nat, (a % PageWords) + i < PageWords
  PROVE  (a + i) \div PageWords = a \div PageWords /\ (a + i) % PageWords = (a % PageWords) + i
<1>1. ASSUME NEW P \in Nat \ {0}, (a % P) + i < P
      PROVE  (a + i) \div P = a \div P /\ (a + i) % P = (a % P) + i
  BY <1>1
<1> QED  BY <1>1, SendAssumption

(* The first burst of a request is in the bus page of its first word.      *)
LEMMA AskedCut ==
  ASSUME NEW bus, NEW s \in Request, s.words > 0, NEW p \in Nat, Asked(bus, p, s)
  PROVE  /\ Covers(bus, p, BusPage(s.addr) * PageWords + InPage(s).off, InPage(s).words)
         /\ Asked(bus, p + BurstLen(s), AfterBurst(s))
<1> DEFINE n == BurstLen(s)
           off == s.addr % PageWords
<1>1. /\ s.addr \in Nat /\ s.words \in Nat /\ off \in 0 .. PageWords - 1
      /\ PageWords \in Nat /\ BusPage(s.addr) \in Nat
  BY Bursts, SendAssumption DEF Request
<1>2. n \in Nat /\ n <= s.words /\ off + n <= PageWords
  <2>1. n = Least(Least(s.words, MaxBurst), PageWords - off)
    BY DEF BurstLen
  <2> HIDE DEF n, off
  <2>2. Least(s.words, MaxBurst) \in Nat /\ Least(s.words, MaxBurst) <= s.words
    BY <1>1, SendAssumption DEF Least
  <2> QED  BY <1>1, <2>1, <2>2 DEF Least
<1>3. BusPage(s.addr) * PageWords \in Nat
  BY <1>1, Address
<1> HIDE DEF n, off
<1>4. ASSUME NEW i \in 0 .. n - 1
      PROVE  /\ p + i \in 1 .. Len(bus)
             /\ bus[p + i] = (BusPage(s.addr) * PageWords + off) + i
  <2>1. i \in 0 .. s.words - 1 /\ i \in Nat /\ (s.addr % PageWords) + i < PageWords
    BY <1>1, <1>2 DEF off
  <2>2. BusPage(s.addr + i) = BusPage(s.addr) /\ (s.addr + i) % PageWords = off + i
    BY <1>1, <2>1, InOnePage DEF BusPage, off
  <2>3. BusAddr(s.addr + i) = BusPage(s.addr) * PageWords + (off + i)
    BY <2>2 DEF BusAddr
  <2>4. BusPage(s.addr) * PageWords + (off + i) = (BusPage(s.addr) * PageWords + off) + i
    BY <1>1, <1>3, <2>1
  <2> QED  BY <2>1, <2>3, <2>4 DEF Asked
<1>5. InPage(s).off = off /\ InPage(s).words = n
  BY DEF InPage, off, n
<1>6. Covers(bus, p, BusPage(s.addr) * PageWords + InPage(s).off, InPage(s).words)
  BY <1>4, <1>5 DEF Covers
<1>7. ASSUME NEW i \in 0 .. AfterBurst(s).words - 1
      PROVE  /\ (p + n) + i \in 1 .. Len(bus)
             /\ bus[(p + n) + i] = BusAddr(AfterBurst(s).addr + i)
  <2>1. AfterBurst(s).addr = s.addr + n /\ AfterBurst(s).words = s.words - n
    BY DEF AfterBurst, n
  <2>2. /\ n + i \in 0 .. s.words - 1 /\ (p + n) + i = p + (n + i)
        /\ AfterBurst(s).addr + i = s.addr + (n + i)
    BY <1>1, <1>2, <2>1
  <2> QED  BY <2>2 DEF Asked
<1>8. Asked(bus, p + n, AfterBurst(s))
  BY <1>7 DEF Asked
<1> QED  BY <1>6, <1>8 DEF n

LEMMA MoreAsked ==
  ASSUME NEW bus \in Seq(Nat), NEW more \in Seq(Nat)
  PROVE  /\ bus \o more \in Seq(Nat) /\ Len(bus \o more) = Len(bus) + Len(more)
         /\ \A j \in 1 .. Len(bus) : j \in 1 .. Len(bus \o more) /\ (bus \o more)[j] = bus[j]
         /\ \A j \in 1 .. Len(more) : (bus \o more)[Len(bus) + j] = more[j]
OBVIOUS

LEMMA AddrsAsked ==
  ASSUME NEW r \in Request
  PROVE  /\ WordsAsked(r) \in Seq(Nat) /\ Len(WordsAsked(r)) = r.words
         /\ \A i \in 0 .. r.words - 1 : WordsAsked(r)[i + 1] = BusAddr(r.addr + i)
<1>1. r.addr \in Nat /\ r.words \in Nat
  BY DEF Request
<1>2. ASSUME NEW a \in Nat PROVE BusAddr(a) \in Nat
  <2>1. [addr |-> a, words |-> 1] \in Request
    BY DEF Request
  <2>2. BusPage(a) \in Nat
    BY <2>1, Bursts
  <2>3. a % PageWords \in Nat
    BY SendAssumption
  <2> QED  BY <2>2, <2>3, Address DEF BusAddr
<1>3. ASSUME NEW i \in 1 .. r.words PROVE r.addr + i - 1 \in Nat
  BY <1>1
<1>4. WordsAsked(r) \in [1 .. r.words -> Nat]
  BY <1>2, <1>3 DEF WordsAsked
<1>5. WordsAsked(r) \in Seq(Nat) /\ Len(WordsAsked(r)) = r.words
  BY <1>1, <1>4
<1>6. ASSUME NEW i \in 0 .. r.words - 1 PROVE WordsAsked(r)[i + 1] = BusAddr(r.addr + i)
  <2>1. i + 1 \in 1 .. r.words /\ r.addr + (i + 1) - 1 = r.addr + i
    BY <1>1
  <2> QED  BY <2>1 DEF WordsAsked
<1> QED  BY <1>5, <1>6

(* The user asks, the next request is taken, a burst is cut.               *)
LEMMA RequestedMore ==
  ASSUME NEW bus \in Seq(Nat), NEW q \in Seq(Request), NEW cut \in Request, NEW p,
         Requested(bus, q, cut, p), NEW r \in Request
  PROVE  Requested(bus \o WordsAsked(r), Append(q, r), cut, p)
<1> DEFINE more == WordsAsked(r)
           to == Len(bus) + 1
           all == bus \o more
<1>1. more \in Seq(Nat) /\ Len(more) = r.words /\ r.words \in Nat
  BY AddrsAsked DEF Request
<1>2. /\ Len(all) = Len(bus) + r.words /\ Len(bus) \in Nat
      /\ \A j \in 1 .. Len(bus) : j \in 1 .. Len(all) /\ all[j] = bus[j]
      /\ \A j \in 1 .. r.words : all[Len(bus) + j] = more[j]
  <2> HIDE DEF more
  <2> QED  BY <1>1, MoreAsked
<1> HIDE DEF more, all
<1>3. \A x, y : Asked(bus, x, y) => Asked(all, x, y)
  BY <1>2 DEF Asked
<1>4. AskedMoves(bus) \subseteq AskedMoves(all)
  BY <1>3 DEF AskedMoves
<1>5. Asked(all, to, r)
  <2> SUFFICES ASSUME NEW i \in 0 .. r.words - 1
               PROVE  to + i \in 1 .. Len(all) /\ all[to + i] = BusAddr(r.addr + i)
    BY DEF Asked
  <2>1. /\ to + i = Len(bus) + (i + 1) /\ i + 1 \in 1 .. r.words
        /\ to + i \in 1 .. Len(all)
    BY <1>1, <1>2
  <2>2. all[Len(bus) + (i + 1)] = more[i + 1]
    BY <1>2, <2>1
  <2>3. more[i + 1] = BusAddr(r.addr + i)
    BY AddrsAsked DEF more
  <2> QED  BY <2>1, <2>2, <2>3
<1>6. to + r.words = Len(all) + 1 /\ to \in Nat /\ to + r.words \in Nat
  BY <1>1, <1>2
<1>7. <<to, r, to + r.words>> \in AskedMoves(all)
  BY <1>5, <1>6 DEF AskedMoves
<1>8. p \in Nat /\ Asked(all, p, cut) /\ Path(Nat, q, p + cut.words, to, AskedMoves(bus))
  BY <1>3 DEF Requested
<1>9. Path(Nat, q, p + cut.words, to, AskedMoves(all))
  BY <1>4, <1>8, PathMore
<1>10. Path(Nat, Append(q, r), p + cut.words, Len(all) + 1, AskedMoves(all))
  BY <1>6, <1>7, <1>9, PathAppend
<1> QED  BY <1>8, <1>10 DEF Requested, all, more

LEMMA RequestedNext ==
  ASSUME NEW bus, NEW q \in Seq(Request), q # <<>>, NEW cut \in Request, cut.words = 0, NEW p,
         Requested(bus, q, cut, p)
  PROVE  Requested(bus, Tail(q), Head(q), p)
<1>1. p + cut.words = p /\ p \in Nat /\ Path(Nat, q, p + cut.words, Len(bus) + 1, AskedMoves(bus))
  BY DEF Requested
<1>2. Path(Nat, q, p, Len(bus) + 1, AskedMoves(bus))
  BY <1>1
<1>3. PICK c \in Nat : /\ <<p, Head(q), c>> \in AskedMoves(bus)
                       /\ Path(Nat, Tail(q), c, Len(bus) + 1, AskedMoves(bus))
  BY <1>2, PathTail
<1>4. c = p + Head(q).words /\ Asked(bus, p, Head(q))
  BY <1>3 DEF AskedMoves
<1> QED  BY <1>1, <1>3, <1>4 DEF Requested

LEMMA RequestedCut ==
  ASSUME NEW bus, NEW q, NEW cut \in Request, cut.words > 0, NEW p, Requested(bus, q, cut, p)
  PROVE  /\ p \in Nat
         /\ Covers(bus, p, BusPage(cut.addr) * PageWords + InPage(cut).off, InPage(cut).words)
         /\ Requested(bus, q, AfterBurst(cut), p + InPage(cut).words)
<1>1. /\ p \in Nat /\ Asked(bus, p, cut)
      /\ Path(Nat, q, p + cut.words, Len(bus) + 1, AskedMoves(bus))
  BY DEF Requested
<1>2. InPage(cut).words = BurstLen(cut) /\ BurstLen(cut) \in Nat
  <2>1. BurstLen(cut) \in 1 .. MaxBurst
    BY Bursts
  <2>2. InPage(cut).words = BurstLen(cut)
    BY DEF InPage
  <2> QED  BY <2>1, <2>2
<1>3. cut.words \in Nat /\ AfterBurst(cut).words = cut.words - BurstLen(cut)
  BY DEF Request, AfterBurst
<1>4. (p + BurstLen(cut)) + AfterBurst(cut).words = p + cut.words /\ p + BurstLen(cut) \in Nat
  BY <1>1, <1>2, <1>3
<1> QED  BY <1>1, <1>2, <1>4, AskedCut DEF Requested

-----------------------------------------------------------------------------
(* Read requests in sendTLPm.                                              *)
PacketMoves(tr) ==
  {m \in Nat \X Single \X Nat :
     m[2].kind = "read" /\ m[3] = m[1] + m[2].words /\ Covers(tr, m[1], m[2].bus, m[2].words)}

(* Beats in sendTLPQ: what the link is in, the next word and the next read *)
(* word to leave.                                                          *)
LinkState == [left : Nat, word : Nat, read : Nat]
LinkMoves(tw, tr) ==
  {m \in LinkState \X Beat \X LinkState :
     LET a == m[1]  b == m[2]  c == m[3] IN
       /\ b.kind = "data" <=> a.left > 0
       /\ b.kind = "write" =>
            /\ b.first = a.word /\ Covers(tw, a.word, b.bus, b.words)
            /\ c = [left |-> b.words, word |-> a.word, read |-> a.read]
       /\ b.kind = "data" =>
            /\ b.rest = a.word /\ (a.left > 1 => b.first = a.word + 1)
            /\ c = [left |-> a.left - 1, word |-> a.word + 1, read |-> a.read]
       /\ b.kind = "read" =>
            /\ Covers(tr, a.read, b.bus, b.words)
            /\ c = [left |-> a.left, word |-> a.word, read |-> a.read + b.words]
       /\ b.kind = "reply" => c = a}

LEMMA MovesMore ==
  ASSUME NEW tw \in Seq(Nat), NEW tr \in Seq(Nat), NEW more \in Seq(Nat)
  PROVE  /\ PacketMoves(tr) \subseteq PacketMoves(tr \o more)
         /\ LinkMoves(tw, tr) \subseteq LinkMoves(tw \o more, tr)
         /\ LinkMoves(tw, tr) \subseteq LinkMoves(tw, tr \o more)
<1>1. ASSUME NEW bus \in Seq(Nat), NEW p, NEW b, NEW n, Covers(bus, p, b, n)
      PROVE  Covers(bus \o more, p, b, n)
  BY <1>1, MoreAsked DEF Covers
<1> QED  BY <1>1 DEF PacketMoves, LinkMoves

-----------------------------------------------------------------------------
(* The number of the first word that is not wholly in sendTLPQ.            *)
NextWord == ((given + 1) - Len(dmaWriteWordQ)) - Sending

PlaceTypes ==
  /\ toWrite \in Seq(Nat) /\ toRead \in Seq(Nat) /\ readOut \in Seq(Nat)
  /\ written \in Seq([bus : Nat, first : Nat, rest : Nat])
  /\ \A k \in 1 .. Len(sendTLPm["read"]) : sendTLPm["read"][k].kind = "read"
  /\ \A k \in 1 .. Len(sendTLPm["reply"]) : sendTLPm["reply"][k].kind = "reply"

WordsInOrder ==
  /\ NextWord \in Nat
  /\ dataWordsRemain > 0 => dmaWriteBuf = NextWord
  /\ \A k \in 1 .. Len(dmaWriteWordQ) : dmaWriteWordQ[k] = (given - Len(dmaWriteWordQ)) + k

WireRight ==
  wire.left > 0 => /\ wire.first = Len(written) + 1
                   /\ Covers(toWrite, Len(written) + 1, wire.bus, wire.left)

WritesWait ==
  \E t \in Nat :
    /\ Requested(toWrite, dmaWriteReqQ, sending, t)
    /\ Tiled(toWrite, dmaPageWriteReqQ, dmaWriteBufAddrQ, bufidxQ, WriteEntries,
             NextWord + dataWordsRemain, t)

(* Read words from place s on.                                             *)
ReadsWait(s) ==
  \E u \in Nat, v \in Nat :
    /\ Path(Nat, sendTLPm["read"], s, u, PacketMoves(toRead))
    /\ Tiled(toRead, dmaPageReadReqQ, dmaReadBufAddrQ, bufidxQ, ReadEntries, u, v)
    /\ Requested(toRead, dmaReadReqQ, reading, v)

OnLink(s) ==
  Path(LinkState, sendTLPQ,
       [left |-> wire.left, word |-> Len(written) + 1, read |-> Len(readOut) + 1],
       [left |-> dataWordsRemain, word |-> NextWord, read |-> s],
       LinkMoves(toWrite, toRead))

LinkRight == \E s \in Nat : OnLink(s) /\ ReadsWait(s)

LeftRight ==
  /\ \A n \in 1 .. Len(written) :
       n \in 1 .. Len(toWrite) /\ written[n] = [bus |-> toWrite[n], first |-> n, rest |-> n]
  /\ \A n \in 1 .. Len(readOut) : n \in 1 .. Len(toRead) /\ readOut[n] = toRead[n]

PlaceInv ==
  PlaceTypes /\ WordsInOrder /\ WireRight /\ WritesWait /\ LinkRight /\ LeftRight

-----------------------------------------------------------------------------
LEMMA PlaceInvInit == Init => PlaceInv
<1> SUFFICES ASSUME Init PROVE PlaceInv
  OBVIOUS
<1>0. Len(<<>>) = 0
  OBVIOUS
<1>1. PlaceTypes
  BY <1>0 DEF Init, PlaceTypes, Sources
<1>2. NextWord = 1 /\ dataWordsRemain = 0
  BY <1>0 DEF Init, NextWord, Sending
<1>3. WordsInOrder
  BY <1>0, <1>2 DEF Init, WordsInOrder
<1>4. WireRight
  BY DEF Init, WireRight, NoPacket
<1>5. \A bus : Requested(bus, <<>>, [addr |-> 0, words |-> 0], Len(bus) + 1) \/ Len(bus) # 0
  <2> SUFFICES ASSUME NEW bus, Len(bus) = 0
               PROVE  Requested(bus, <<>>, [addr |-> 0, words |-> 0], Len(bus) + 1)
    OBVIOUS
  <2>1. Path(Nat, <<>>, 1, 1, AskedMoves(bus))
    BY PathEmpty
  <2> QED  BY <2>1 DEF Requested, Asked
<1>6. WritesWait
  <2>1. Tiled(toWrite, <<>>, <<>>, <<>>, WriteEntries, 1, 1)
    BY TiledEmpty
  <2> QED  BY <1>0, <1>2, <1>5, <2>1 DEF Init, WritesWait
<1>7. LinkRight
  <2>1. Tiled(toRead, <<>>, <<>>, <<>>, ReadEntries, 1, 1)
    BY TiledEmpty
  <2>2. Path(Nat, <<>>, 1, 1, PacketMoves(toRead))
    BY PathEmpty
  <2>3. ReadsWait(1)
    BY <1>0, <1>5, <2>1, <2>2 DEF Init, ReadsWait, Sources
  <2> DEFINE a == [left |-> 0, word |-> 1, read |-> 1]
  <2>4. a \in LinkState
    BY DEF LinkState
  <2> HIDE DEF a
  <2>5. Path(LinkState, <<>>, a, a, LinkMoves(toWrite, toRead))
    BY <2>4, PathEmpty
  <2>6. OnLink(1)
    BY <1>0, <1>2, <2>5 DEF Init, OnLink, NoPacket, a
  <2> QED  BY <2>3, <2>6 DEF LinkRight
<1>8. LeftRight
  BY <1>0 DEF Init, LeftRight
<1> QED  BY <1>1, <1>3, <1>4, <1>6, <1>7, <1>8 DEF PlaceInv

-----------------------------------------------------------------------------
LEMMA PlaceTypesNext ==
  ASSUME SendInv, PlaceInv, Next
  PROVE  PlaceTypes'
<1> USE DEF PlaceInv, PlaceTypes
<1>0. BeatInv /\ BeatInv' /\ ReqInv
  BY BeatNext DEF SendInv
<1>00. /\ sendTLPm \in [Sources -> Seq(Single)] /\ sendTLPQ \in Seq(Beat)
       /\ wire \in [left : 0 .. MaxBurst, bus : Nat, first : Nat]
  BY <1>0 DEF BeatInv
<1>1. CASE \E r \in WriteRequests : dmaWriteReq(r)
  <2>1. PICK r \in WriteRequests : dmaWriteReq(r)
    BY <1>1
  <2>2. r \in Request
    BY SendAssumption DEF Request
  <2>3. WordsAsked(r) \in Seq(Nat)
    BY <2>2, AddrsAsked
  <2>4. toWrite' \in Seq(Nat)
    BY <2>1, <2>3, MoreAsked DEF dmaWriteReq
  <2>5. UNCHANGED <<toRead, linkVars>>
    BY <2>1 DEF dmaWriteReq
  <2> QED  BY <2>4, <2>5 DEF linkVars
<1>2. CASE \E r \in ReadRequests : dmaReadReq(r)
  <2>1. PICK r \in ReadRequests : dmaReadReq(r)
    BY <1>2
  <2>2. r \in Request
    BY SendAssumption DEF Request
  <2>3. WordsAsked(r) \in Seq(Nat)
    BY <2>2, AddrsAsked
  <2>4. toRead' \in Seq(Nat)
    BY <2>1, <2>3, MoreAsked DEF dmaReadReq
  <2>5. UNCHANGED <<toWrite, linkVars>>
    BY <2>1 DEF dmaReadReq
  <2> QED  BY <2>4, <2>5 DEF linkVars
<1>3. CASE reply
  <2> DEFINE q == sendTLPm["reply"]
             b == [kind |-> "reply"]
  <2>1. q \in Seq(Single) /\ b.kind = "reply"
    BY <1>00 DEF Sources
  <2>2. /\ sendTLPm'["reply"] = Append(q, b) /\ sendTLPm'["read"] = sendTLPm["read"]
        /\ UNCHANGED <<toWrite, toRead, readOut, written>>
    BY <1>3, <1>00 DEF reply, Sources
  <2>3. /\ Len(Append(q, b)) = Len(q) + 1 /\ Append(q, b)[Len(q) + 1] = b /\ Len(q) \in Nat
        /\ \A k \in 1 .. Len(q) : Append(q, b)[k] = q[k]
    BY <2>1
  <2> HIDE DEF b
  <2>4. \A k \in 1 .. Len(Append(q, b)) : Append(q, b)[k].kind = "reply"
    <3> DEFINE r == Append(q, b)
    <3> HIDE DEF r
    <3>1. /\ Len(r) = Len(q) + 1 /\ r[Len(q) + 1] = b /\ Len(q) \in Nat
          /\ \A k \in 1 .. Len(q) : r[k] = q[k]
      BY <2>3 DEF r
    <3>2. ASSUME NEW k \in 1 .. Len(r) PROVE r[k].kind = "reply"
      <4>1. CASE k = Len(q) + 1
        BY <2>1, <3>1, <4>1
      <4>2. CASE k \in 1 .. Len(q)
        BY <3>1, <4>2
      <4> QED  BY <3>1, <4>1, <4>2
    <3> QED  BY <3>2 DEF r
  <2> QED  BY <2>2, <2>4
<1>4. CASE generateDmaReadTLP
  <2> DEFINE q == sendTLPm["read"]
             b == [kind |-> "read",
                   bus |-> Head(dmaReadBufAddrQ) * PageWords + Head(dmaPageReadReqQ).off,
                   words |-> Head(dmaPageReadReqQ).words]
  <2>1. q \in Seq(Single) /\ b.kind = "read"
    BY <1>00 DEF Sources
  <2>2. /\ sendTLPm'["read"] = Append(q, b) /\ sendTLPm'["reply"] = sendTLPm["reply"]
        /\ UNCHANGED <<toWrite, toRead, readOut, written>>
    BY <1>4, <1>00 DEF generateDmaReadTLP, Sources, userVars
  <2> HIDE DEF b
  <2>3. /\ Len(Append(q, b)) = Len(q) + 1 /\ Append(q, b)[Len(q) + 1] = b /\ Len(q) \in Nat
        /\ \A k \in 1 .. Len(q) : Append(q, b)[k] = q[k]
    BY <2>1
  <2>4. \A k \in 1 .. Len(Append(q, b)) : Append(q, b)[k].kind = "read"
    <3> DEFINE r == Append(q, b)
    <3> HIDE DEF r
    <3>1. /\ Len(r) = Len(q) + 1 /\ r[Len(q) + 1] = b /\ Len(q) \in Nat
          /\ \A k \in 1 .. Len(q) : r[k] = q[k]
      BY <2>3 DEF r
    <3>2. ASSUME NEW k \in 1 .. Len(r) PROVE r[k].kind = "read"
      <4>1. CASE k = Len(q) + 1
        BY <2>1, <3>1, <4>1
      <4>2. CASE k \in 1 .. Len(q)
        BY <3>1, <4>2
      <4> QED  BY <3>1, <4>1, <4>2
    <3> QED  BY <3>2 DEF r
  <2> QED  BY <2>2, <2>4
<1>5. CASE \E s \in Sources : relayTLPm(s)
  <2>1. PICK s \in Sources : relayTLPm(s)
    BY <1>5
  <2> DEFINE q == sendTLPm[s]
  <2>2. /\ q \in Seq(Single) /\ q # <<>> /\ sendTLPm' = [sendTLPm EXCEPT ![s] = Tail(q)]
        /\ UNCHANGED <<toWrite, toRead, readOut, written>>
    BY <1>00, <2>1 DEF relayTLPm, userVars
  <2>3. Len(Tail(q)) = Len(q) - 1 /\ \A k \in 1 .. Len(Tail(q)) : Tail(q)[k] = q[k + 1]
    BY <2>2
  <2>4. Len(q) \in Nat
    BY <2>2
  <2>5. \A k \in 1 .. Len(Tail(q)) : k + 1 \in 1 .. Len(q) /\ Tail(q)[k] = q[k + 1]
    BY <2>3, <2>4
  <2>6. CASE s = "read"
    <3>1. sendTLPm'["read"] = Tail(q) /\ sendTLPm'["reply"] = sendTLPm["reply"]
      BY <1>00, <2>2, <2>6 DEF Sources
    <3> QED  BY <2>2, <2>5, <2>6, <3>1
  <2>7. CASE s = "reply"
    <3>1. sendTLPm'["reply"] = Tail(q) /\ sendTLPm'["read"] = sendTLPm["read"]
      BY <1>00, <2>2, <2>7 DEF Sources
    <3> QED  BY <2>2, <2>5, <2>7, <3>1
  <2> QED  BY <2>6, <2>7 DEF Sources
<1>6. CASE relayTLP
  <2> DEFINE b == Head(sendTLPQ)
  <2>1. /\ sendTLPQ # <<>> /\ UNCHANGED <<toWrite, toRead, sendTLPm>>
    BY <1>6 DEF relayTLP, userVars
  <2>2. b \in Beat
    BY <1>00, <2>1, Queues
  <2>3. CASE b.kind = "data"
    <3>1. /\ written' = Append(written, [bus |-> wire.bus, first |-> wire.first, rest |-> b.rest])
          /\ readOut' = readOut
      BY <1>6, <2>3 DEF relayTLP
    <3>2. b.rest \in Nat
      BY <2>2, <2>3 DEF Beat, Single
    <3>3. [bus |-> wire.bus, first |-> wire.first, rest |-> b.rest]
             \in [bus : Nat, first : Nat, rest : Nat]
      BY <1>00, <3>2
    <3> QED  BY <2>1, <3>1, <3>3, Queues
  <2>4. CASE b.kind = "read"
    <3> DEFINE more == [i \in 1 .. b.words |-> b.bus + i - 1]
    <3>1. readOut' = readOut \o more /\ written' = written
      BY <1>6, <2>4 DEF relayTLP
    <3>2. b.words \in Nat /\ b.bus \in Nat
      BY <2>2, <2>4, SendAssumption DEF Beat, Single
    <3>3. more \in [1 .. b.words -> Nat]
      BY <3>2
    <3> HIDE DEF more
    <3>4. more \in Seq(Nat)
      <4>1. ASSUME NEW n \in Nat, NEW f \in [1 .. n -> Nat] PROVE f \in Seq(Nat)
        OBVIOUS
      <4> QED  BY <3>2, <3>3, <4>1
    <3> QED  BY <2>1, <3>1, <3>4
  <2>5. CASE b.kind \notin {"data", "read"}
    <3>1. written' = written /\ readOut' = readOut
      BY <1>6, <2>5 DEF relayTLP
    <3> QED  BY <2>1, <3>1
  <2> QED  BY <2>3, <2>4, <2>5
<1>7. CASE UNCHANGED <<toWrite, toRead, linkVars>>
  BY <1>7 DEF linkVars
<1>8. CASE UNCHANGED <<toWrite, toRead, sendTLPm, written, readOut>>
  BY <1>8
<1> QED
  BY <1>1, <1>2, <1>3, <1>4, <1>5, <1>6, <1>7, <1>8
  DEF Next, User, Rules, dmaWriteData, readTagReturns, splitDmaWriteReq, splitDmaReadReq,
      splitDmaWriteReq2, splitDmaReadReq2, relayFreeWriteTag, relayBufIdxRead,
      generateHeaderTLP, generateDataTLP, userVars

-----------------------------------------------------------------------------
(* What a rule does to the number of the next word.                        *)
LEMMA WordsNext ==
  ASSUME SendInv, PlaceInv, Next
  PROVE  /\ WordsInOrder' /\ NextWord' \in Nat
         /\ generateHeaderTLP => /\ dataWordsRemain = 0 /\ NextWord' = NextWord
                                 /\ Head(dmaWriteWordQ) = NextWord
         /\ generateDataTLP => /\ NextWord' = NextWord + 1
                               /\ dataWordsRemain' = dataWordsRemain - 1
                               /\ dmaWriteBuf = NextWord
                               /\ dataWordsRemain > 1 => Head(dmaWriteWordQ) = NextWord + 1
         /\ ~generateHeaderTLP /\ ~generateDataTLP =>
              NextWord' = NextWord /\ dataWordsRemain' = dataWordsRemain
<1> DEFINE q == dmaWriteWordQ
<1>0. /\ q \in Seq(Nat) /\ given \in Nat /\ dataWordsRemain \in 0 .. MaxBurst /\ MaxBurst \in Nat
      /\ Len(q) \in Nat /\ Owed <= Len(q)
  BY SendAssumption DEF SendInv, WordInv
<1>1. /\ NextWord \in Nat /\ (dataWordsRemain > 0 => dmaWriteBuf = NextWord)
      /\ \A k \in 1 .. Len(q) : q[k] = (given - Len(q)) + k
  BY DEF PlaceInv, WordsInOrder
<1>2. q # <<>> => /\ Head(q) = (given - Len(q)) + 1 /\ Len(Tail(q)) = Len(q) - 1
                  /\ \A k \in 1 .. Len(Tail(q)) : Tail(q)[k] = (given - Len(Tail(q))) + k
  <2> SUFFICES ASSUME q # <<>>
               PROVE  /\ Head(q) = (given - Len(q)) + 1 /\ Len(Tail(q)) = Len(q) - 1
                      /\ \A k \in 1 .. Len(Tail(q)) : Tail(q)[k] = (given - Len(Tail(q))) + k
    OBVIOUS
  <2> DEFINE r == Tail(q)
  <2>1. /\ 1 \in 1 .. Len(q) /\ Head(q) = q[1] /\ Len(r) = Len(q) - 1
        /\ \A k \in 1 .. Len(r) : r[k] = q[k + 1]
    BY <1>0
  <2> HIDE DEF r, q
  <2>2. ASSUME NEW k \in 1 .. Len(r) PROVE r[k] = (given - Len(r)) + k
    <3>1. k + 1 \in 1 .. Len(q) /\ r[k] = q[k + 1]
      BY <1>0, <2>1
    <3>2. q[k + 1] = (given - Len(q)) + (k + 1)
      BY <1>1, <3>1
    <3> QED  BY <1>0, <2>1, <3>1, <3>2
  <2> QED  BY <1>1, <2>1, <2>2 DEF r
<1>3. CASE dmaWriteData
  <2>1. /\ q' = Append(q, given + 1) /\ given' = given + 1
        /\ UNCHANGED <<dmaWriteBuf, dataWordsRemain>>
    BY <1>3 DEF dmaWriteData
  <2>2. ~generateHeaderTLP /\ ~generateDataTLP
    BY <1>0, <2>1 DEF generateHeaderTLP, generateDataTLP, userVars
  <2> DEFINE r == Append(q, given + 1)
  <2>3. /\ Len(r) = Len(q) + 1 /\ r[Len(q) + 1] = given + 1
        /\ \A k \in 1 .. Len(q) : r[k] = q[k]
    BY <1>0
  <2> HIDE DEF r
  <2>4. NextWord' = NextWord
    <3>1. Len(q') = Len(q) + 1
      BY <2>1, <2>3 DEF r
    <3>2. Sending' = Sending /\ Sending \in 0 .. 1
      BY <2>1 DEF Sending
    <3> QED  BY <1>0, <2>1, <3>1, <3>2 DEF NextWord
  <2>5. ASSUME NEW k \in 1 .. Len(r) PROVE r[k] = (given' - Len(r)) + k
    <3>1. CASE k = Len(q) + 1
      BY <1>0, <2>1, <2>3, <3>1
    <3>2. CASE k \in 1 .. Len(q)
      <4>1. r[k] = (given - Len(q)) + k
        BY <1>1, <2>3, <3>2
      <4> QED  BY <1>0, <2>1, <2>3, <4>1
    <3> QED  BY <1>0, <2>3, <3>1, <3>2
  <2>6. WordsInOrder'
    BY <1>1, <2>1, <2>4, <2>5 DEF WordsInOrder, r
  <2> QED  BY <1>1, <2>1, <2>2, <2>4, <2>6
<1>4. CASE generateHeaderTLP
  <2>1. /\ dataWordsRemain = 0 /\ q # <<>> /\ q' = Tail(q) /\ given' = given
        /\ dataWordsRemain' = Head(dmaPageWriteReqQ).words /\ dmaWriteBuf' = Head(q)
        /\ Head(dmaPageWriteReqQ).words \in 1 .. MaxBurst
    BY <1>4, FirstPiece DEF generateHeaderTLP, userVars, SendInv
  <2>2. Sending = 0 /\ Sending' = 1
    BY <1>0, <2>1 DEF Sending
  <2>3. NextWord' = NextWord /\ Head(q) = NextWord
    BY <1>0, <1>2, <2>1, <2>2 DEF NextWord
  <2>4. WordsInOrder'
    BY <1>1, <1>2, <2>1, <2>3 DEF WordsInOrder
  <2>5. ~generateDataTLP
    BY <2>1 DEF generateDataTLP
  <2> QED  BY <1>1, <1>4, <2>1, <2>3, <2>4, <2>5
<1>5. CASE generateDataTLP
  <2>1. /\ dataWordsRemain > 0 /\ dataWordsRemain' = dataWordsRemain - 1 /\ given' = given
    BY <1>5 DEF generateDataTLP, userVars
  <2>2. ~generateHeaderTLP
    BY <2>1 DEF generateHeaderTLP
  <2>3. Sending = 1 /\ dmaWriteBuf = NextWord
    BY <1>1, <2>1 DEF Sending
  <2>4. CASE dataWordsRemain = 1
    <3>1. q' = q /\ Sending' = 0
      BY <1>5, <2>1, <2>4 DEF generateDataTLP, Sending
    <3>2. NextWord' = NextWord + 1
      BY <1>0, <2>1, <2>3, <3>1 DEF NextWord
    <3>3. WordsInOrder'
      BY <1>1, <2>1, <2>4, <3>1, <3>2 DEF WordsInOrder
    <3> QED  BY <1>1, <1>5, <2>1, <2>2, <2>3, <2>4, <3>2, <3>3
  <2>5. CASE dataWordsRemain > 1
    <3>1. q # <<>> /\ q' = Tail(q) /\ dmaWriteBuf' = Head(q)
      BY <1>5, <2>5 DEF generateDataTLP
    <3>2. Sending' = 1
      BY <1>0, <2>1, <2>5 DEF Sending
    <3>3. NextWord' = NextWord + 1 /\ Head(q) = NextWord + 1
      BY <1>0, <1>2, <2>1, <2>3, <3>1, <3>2 DEF NextWord
    <3>4. WordsInOrder'
      BY <1>1, <1>2, <2>1, <3>1, <3>3 DEF WordsInOrder
    <3> QED  BY <1>1, <1>5, <2>1, <2>2, <2>3, <3>3, <3>4
  <2> QED  BY <1>0, <2>1, <2>4, <2>5
<1>6. CASE UNCHANGED <<given, wordVars>>
  <2>1. UNCHANGED <<given, dmaWriteWordQ, dmaWriteBuf, dataWordsRemain>>
    BY <1>6 DEF wordVars
  <2>2. NextWord' = NextWord
    BY <2>1 DEF NextWord, Sending
  <2>3. WordsInOrder'
    BY <1>1, <2>1, <2>2 DEF WordsInOrder
  <2>4. ~generateHeaderTLP
    BY <1>0, <1>2, <2>1 DEF generateHeaderTLP
  <2>5. ~generateDataTLP
    BY <1>0, <2>1 DEF generateDataTLP
  <2> QED  BY <1>1, <2>1, <2>2, <2>3, <2>4, <2>5
<1> QED
  BY <1>3, <1>4, <1>5, <1>6
  DEF Next, User, Rules, dmaWriteReq, dmaReadReq, reply, readTagReturns, splitDmaWriteReq,
      splitDmaReadReq, splitDmaWriteReq2, splitDmaReadReq2, relayFreeWriteTag,
      relayBufIdxRead, generateDmaReadTLP, relayTLPm, relayTLP, userVars

-----------------------------------------------------------------------------
(* The first beat of the queue is what the link expects.                   *)
LEMMA FirstBeat ==
  ASSUME SendInv, PlaceInv, sendTLPQ # <<>>
  PROVE  LET a == [left |-> wire.left, word |-> Len(written) + 1, read |-> Len(readOut) + 1]
         IN  \E c \in LinkState, s \in Nat :
               /\ <<a, Head(sendTLPQ), c>> \in LinkMoves(toWrite, toRead)
               /\ Path(LinkState, Tail(sendTLPQ), c,
                       [left |-> dataWordsRemain, word |-> NextWord, read |-> s],
                       LinkMoves(toWrite, toRead))
               /\ ReadsWait(s)
<1>1. sendTLPQ \in Seq(Beat)
  BY DEF SendInv, BeatInv
<1> QED  BY <1>1, PathTail DEF PlaceInv, LinkRight, OnLink

(* A data beat is taken for the place it belongs in, a read request too.   *)
LEMMA LeftNext ==
  ASSUME SendInv, PlaceInv, Next
  PROVE  LeftRight' /\ WireRight'
<1>0. /\ toWrite \in Seq(Nat) /\ toRead \in Seq(Nat) /\ readOut \in Seq(Nat)
      /\ written \in Seq([bus : Nat, first : Nat, rest : Nat])
  BY DEF PlaceInv, PlaceTypes
<1>1. LeftRight /\ WireRight
  BY DEF PlaceInv
<1>2. CASE \E r \in WriteRequests : dmaWriteReq(r)
  <2>1. PICK r \in WriteRequests : dmaWriteReq(r)
    BY <1>2
  <2>2. WordsAsked(r) \in Seq(Nat)
    BY SendAssumption, AddrsAsked DEF Request
  <2>3. /\ toWrite' = toWrite \o WordsAsked(r)
        /\ UNCHANGED <<toRead, written, readOut, wire>>
    BY <2>1 DEF dmaWriteReq, linkVars
  <2>4. \A j \in 1 .. Len(toWrite) : j \in 1 .. Len(toWrite') /\ toWrite'[j] = toWrite[j]
    BY <1>0, <2>2, <2>3, MoreAsked
  <2>5. LeftRight'
    BY <1>1, <2>3, <2>4 DEF LeftRight
  <2>6. WireRight'
    BY <1>1, <2>3, <2>4 DEF WireRight, Covers
  <2> QED  BY <2>5, <2>6
<1>3. CASE \E r \in ReadRequests : dmaReadReq(r)
  <2>1. PICK r \in ReadRequests : dmaReadReq(r)
    BY <1>3
  <2>2. WordsAsked(r) \in Seq(Nat)
    BY SendAssumption, AddrsAsked DEF Request
  <2>3. /\ toRead' = toRead \o WordsAsked(r)
        /\ UNCHANGED <<toWrite, written, readOut, wire>>
    BY <2>1 DEF dmaReadReq, linkVars
  <2>4. \A j \in 1 .. Len(toRead) : j \in 1 .. Len(toRead') /\ toRead'[j] = toRead[j]
    BY <1>0, <2>2, <2>3, MoreAsked
  <2>5. LeftRight'
    BY <1>1, <2>3, <2>4 DEF LeftRight
  <2>6. WireRight'
    BY <1>1, <2>3 DEF WireRight
  <2> QED  BY <2>5, <2>6
<1>4. CASE relayTLP
  <2> DEFINE b == Head(sendTLPQ)
             a == [left |-> wire.left, word |-> Len(written) + 1, read |-> Len(readOut) + 1]
  <2>1. sendTLPQ # <<>> /\ UNCHANGED <<toWrite, toRead>>
    BY <1>4 DEF relayTLP, userVars
  <2>2. PICK c \in LinkState : <<a, b, c>> \in LinkMoves(toWrite, toRead)
    BY <2>1, FirstBeat
  <2>3. b \in Beat
    BY <2>1, Queues DEF SendInv, BeatInv
  <2>4. wire.left \in Nat /\ Len(written) \in Nat /\ Len(readOut) \in Nat
    BY <1>0, SendAssumption DEF SendInv, BeatInv
  <2>5. /\ b.kind = "data" <=> wire.left > 0
        /\ b.kind = "write" => /\ b.first = Len(written) + 1
                               /\ Covers(toWrite, Len(written) + 1, b.bus, b.words)
        /\ b.kind = "data" => /\ b.rest = Len(written) + 1
                              /\ wire.left > 1 => b.first = (Len(written) + 1) + 1
        /\ b.kind = "read" => Covers(toRead, Len(readOut) + 1, b.bus, b.words)
    BY <2>2 DEF LinkMoves
  <2> HIDE DEF a, b
  <2>6. CASE b.kind = "write"
    <3>1. /\ wire' = [left |-> b.words, bus |-> b.bus, first |-> b.first]
          /\ UNCHANGED <<written, readOut>>
      BY <1>4, <2>6 DEF relayTLP, b
    <3>2. LeftRight'
      BY <1>1, <2>1, <3>1 DEF LeftRight
    <3>3. WireRight'
      BY <2>1, <2>5, <2>6, <3>1 DEF WireRight
    <3> QED  BY <3>2, <3>3
  <2>7. CASE b.kind = "data"
    <3> DEFINE n == Len(written) + 1
               e == [bus |-> wire.bus, first |-> wire.first, rest |-> b.rest]
    <3>1. /\ written' = Append(written, e) /\ readOut' = readOut
          /\ wire' = IF wire.left <= 1 THEN NoPacket
                     ELSE [left |-> wire.left - 1, bus |-> wire.bus + 1, first |-> b.first]
      BY <1>4, <2>7 DEF relayTLP, b
    <3>2. wire.first = n /\ Covers(toWrite, n, wire.bus, wire.left) /\ wire.left > 0
      BY <1>1, <2>5, <2>7 DEF WireRight
    <3>3. n + 0 = n /\ wire.bus + 0 = wire.bus /\ 0 \in 0 .. wire.left - 1 /\ wire.bus \in Nat
      BY <2>4, <3>2 DEF SendInv, BeatInv
    <3>4. n \in 1 .. Len(toWrite) /\ toWrite[n] = wire.bus
      BY <3>2, <3>3 DEF Covers
    <3>5. e = [bus |-> toWrite[n], first |-> n, rest |-> n]
      BY <2>5, <2>7, <3>2, <3>4
    <3>6. e \in [bus : Nat, first : Nat, rest : Nat]
      BY <1>0, <2>4, <3>4, <3>5
    <3> HIDE DEF e
    <3>7. /\ Len(written') = n /\ written'[n] = e
          /\ \A k \in 1 .. Len(written) : written'[k] = written[k]
      BY <1>0, <3>1, <3>6
    <3>8. LeftRight'
      <4>1. ASSUME NEW k \in 1 .. n
            PROVE  /\ k \in 1 .. Len(toWrite)
                   /\ written'[k] = [bus |-> toWrite[k], first |-> k, rest |-> k]
        <5>1. CASE k = n
          BY <3>4, <3>5, <3>7, <5>1
        <5>2. CASE k \in 1 .. Len(written)
          BY <1>1, <3>7, <5>2 DEF LeftRight
        <5> QED  BY <2>4, <5>1, <5>2
      <4> QED  BY <1>1, <2>1, <3>1, <3>7, <4>1 DEF LeftRight
    <3>9. WireRight'
      <4>1. CASE wire.left <= 1
        BY <3>1, <4>1 DEF WireRight, NoPacket
      <4>2. CASE wire.left > 1
        <5>1. /\ wire'.left = wire.left - 1 /\ wire'.bus = wire.bus + 1 /\ wire'.first = n + 1
          BY <2>4, <2>5, <2>7, <3>1, <4>2
        <5>2. ASSUME NEW i \in 0 .. wire'.left - 1
              PROVE  /\ (n + 1) + i \in 1 .. Len(toWrite)
                     /\ toWrite[(n + 1) + i] = (wire.bus + 1) + i
          <6>1. /\ i + 1 \in 0 .. wire.left - 1 /\ (n + 1) + i = n + (i + 1)
                /\ (wire.bus + 1) + i = wire.bus + (i + 1)
            BY <2>4, <3>3, <5>1
          <6> QED  BY <3>2, <6>1 DEF Covers
        <5>3. Covers(toWrite, n + 1, wire.bus + 1, wire'.left)
          BY <5>2 DEF Covers
        <5> QED  BY <2>1, <3>7, <5>1, <5>3 DEF WireRight
      <4> QED  BY <2>4, <4>1, <4>2
    <3> QED  BY <3>8, <3>9
  <2>8. CASE b.kind = "read"
    <3> DEFINE more == [i \in 1 .. b.words |-> b.bus + i - 1]
    <3>1. readOut' = readOut \o more /\ UNCHANGED <<written, wire>>
      BY <1>4, <2>8 DEF relayTLP, b
    <3>2. b.words \in Nat /\ b.bus \in Nat
      BY <2>3, <2>8, SendAssumption DEF Beat, Single
    <3>3. more \in [1 .. b.words -> Nat] /\ \A i \in 1 .. b.words : more[i] = b.bus + i - 1
      BY <3>2
    <3> HIDE DEF more
    <3>4. more \in Seq(Nat) /\ Len(more) = b.words
      <4>1. ASSUME NEW n \in Nat, NEW f \in [1 .. n -> Nat] PROVE f \in Seq(Nat) /\ Len(f) = n
        OBVIOUS
      <4> QED  BY <3>2, <3>3, <4>1
    <3>5. /\ Len(readOut') = Len(readOut) + b.words
          /\ \A k \in 1 .. Len(readOut) : readOut'[k] = readOut[k]
          /\ \A k \in 1 .. b.words : readOut'[Len(readOut) + k] = more[k]
      <4>1. /\ Len(readOut \o more) = Len(readOut) + Len(more)
            /\ \A k \in 1 .. Len(readOut) : (readOut \o more)[k] = readOut[k]
            /\ \A k \in 1 .. Len(more) : (readOut \o more)[Len(readOut) + k] = more[k]
        BY <1>0, <3>4, MoreAsked
      <4> QED  BY <3>1, <3>4, <4>1
    <3>6. ASSUME NEW k \in 1 .. Len(readOut')
          PROVE  k \in 1 .. Len(toRead) /\ readOut'[k] = toRead[k]
      <4>1. CASE k \in 1 .. Len(readOut)
        BY <1>1, <3>5, <4>1 DEF LeftRight
      <4>2. CASE k > Len(readOut)
        <5> DEFINE i == (k - Len(readOut)) - 1
        <5>1. /\ i \in 0 .. b.words - 1 /\ i + 1 \in 1 .. b.words /\ k = Len(readOut) + (i + 1)
              /\ k = (Len(readOut) + 1) + i
          BY <2>4, <3>2, <3>5, <4>2
        <5>2. k \in 1 .. Len(toRead) /\ toRead[k] = b.bus + i
          BY <2>5, <2>8, <5>1 DEF Covers
        <5>3. readOut'[k] = b.bus + (i + 1) - 1
          BY <3>3, <3>5, <5>1
        <5> QED  BY <3>2, <5>1, <5>2, <5>3
      <4> QED  BY <2>4, <3>2, <3>5, <4>1, <4>2
    <3>7. LeftRight'
      BY <1>1, <2>1, <3>1, <3>6 DEF LeftRight
    <3>8. WireRight'
      BY <1>1, <2>1, <3>1 DEF WireRight
    <3> QED  BY <3>7, <3>8
  <2>9. CASE b.kind = "reply"
    <3>1. UNCHANGED <<wire, written, readOut>>
      BY <1>4, <2>9 DEF relayTLP, b
    <3> QED  BY <1>1, <2>1, <3>1 DEF LeftRight, WireRight
  <2> QED  BY <2>3, <2>6, <2>7, <2>8, <2>9 DEF Beat, Single
<1>5. CASE UNCHANGED <<toWrite, toRead, written, readOut, wire>>
  BY <1>1, <1>5 DEF LeftRight, WireRight
<1> QED
  BY <1>2, <1>3, <1>4, <1>5
  DEF Next, User, Rules, dmaWriteData, reply, readTagReturns, splitDmaWriteReq,
      splitDmaReadReq, splitDmaWriteReq2, splitDmaReadReq2, relayFreeWriteTag,
      relayBufIdxRead, generateHeaderTLP, generateDataTLP, generateDmaReadTLP, relayTLPm,
      userVars, linkVars

-----------------------------------------------------------------------------
LEMMA QueueTypes ==
  ASSUME SendInv, PlaceInv
  PROVE  /\ toWrite \in Seq(Nat) /\ toRead \in Seq(Nat)
         /\ dmaWriteReqQ \in Seq(Request) /\ sending \in Request
         /\ dmaReadReqQ \in Seq(Request) /\ reading \in Request
         /\ dmaPageWriteReqQ \in Seq(Piece) /\ dmaPageReadReqQ \in Seq(Piece)
         /\ bufidxQ \in Seq(Entry) /\ dmaWriteBufAddrQ \in Seq(Nat) /\ dmaReadBufAddrQ \in Seq(Nat)
         /\ sendTLPQ \in Seq(Beat) /\ sendTLPm \in [Sources -> Seq(Single)]
         /\ NextWord \in Nat /\ dataWordsRemain \in Nat
BY SendAssumption
   DEF SendInv, ReqInv, PageInv, BeatInv, WordInv, PlaceInv, PlaceTypes, WordsInOrder, Entry

LEMMA WritesWaitNext ==
  ASSUME SendInv, PlaceInv, Next
  PROVE  WritesWait'
<1>0. PICK t \in Nat :
        /\ Requested(toWrite, dmaWriteReqQ, sending, t)
        /\ Tiled(toWrite, dmaPageWriteReqQ, dmaWriteBufAddrQ, bufidxQ, WriteEntries,
                 NextWord + dataWordsRemain, t)
  BY DEF PlaceInv, WritesWait
<1>00. /\ NextWord \in Nat /\ NextWord' \in Nat /\ dataWordsRemain \in Nat
       /\ ~generateHeaderTLP =>
            NextWord' + dataWordsRemain' = NextWord + dataWordsRemain
  BY WordsNext, QueueTypes
<1>1. CASE \E r \in WriteRequests : dmaWriteReq(r)
  <2>1. PICK r \in WriteRequests : dmaWriteReq(r)
    BY <1>1
  <2>2. r \in Request /\ WordsAsked(r) \in Seq(Nat)
    BY SendAssumption, AddrsAsked DEF Request
  <2>3. /\ toWrite' = toWrite \o WordsAsked(r) /\ dmaWriteReqQ' = Append(dmaWriteReqQ, r)
        /\ sending' = sending
        /\ UNCHANGED <<dmaPageWriteReqQ, dmaWriteBufAddrQ, bufidxQ, NextWord, dataWordsRemain>>
    BY <2>1 DEF dmaWriteReq, pageVars, wordVars, NextWord, Sending
  <2>4. Requested(toWrite', dmaWriteReqQ', sending', t)
    BY <1>0, <2>2, <2>3, RequestedMore, QueueTypes
  <2>5. Tiled(toWrite', dmaPageWriteReqQ, dmaWriteBufAddrQ, bufidxQ, WriteEntries,
              NextWord + dataWordsRemain, t)
    BY <1>0, <2>2, <2>3, TiledMore, QueueTypes
  <2> QED  BY <2>3, <2>4, <2>5 DEF WritesWait
<1>2. CASE splitDmaWriteReq
  <2>1. /\ sending.words = 0 /\ dmaWriteReqQ # <<>>
        /\ sending' = Head(dmaWriteReqQ) /\ dmaWriteReqQ' = Tail(dmaWriteReqQ)
        /\ UNCHANGED <<toWrite, dmaPageWriteReqQ, dmaWriteBufAddrQ, bufidxQ, NextWord,
                       dataWordsRemain>>
    BY <1>2 DEF splitDmaWriteReq, userVars, pageVars, wordVars, NextWord, Sending
  <2>2. Requested(toWrite, dmaWriteReqQ', sending', t)
    BY <1>0, <2>1, RequestedNext, QueueTypes
  <2> QED  BY <1>0, <2>1, <2>2 DEF WritesWait
<1>3. CASE splitDmaWriteReq2
  <2> DEFINE x == InPage(sending)
             e == [write |-> TRUE, page |-> BusPage(sending.addr)]
  <2>1. /\ sending.words > 0 /\ sending' = AfterBurst(sending)
        /\ dmaPageWriteReqQ' = Append(dmaPageWriteReqQ, x) /\ bufidxQ' = Append(bufidxQ, e)
        /\ UNCHANGED <<toWrite, dmaWriteReqQ, dmaWriteBufAddrQ, NextWord, dataWordsRemain>>
    BY <1>3 DEF splitDmaWriteReq2, WriteSplits, userVars, wordVars, NextWord, Sending
  <2>2. x \in Piece /\ BusPage(sending.addr) \in Nat
    BY <2>1, Bursts, QueueTypes
  <2>3. e \in Entry /\ e \in WriteEntries /\ e.page = BusPage(sending.addr)
    BY <2>2 DEF Entry, WriteEntries, ForWrite
  <2>4. /\ Covers(toWrite, t, BusPage(sending.addr) * PageWords + x.off, x.words)
        /\ Requested(toWrite, dmaWriteReqQ, AfterBurst(sending), t + x.words)
    BY <1>0, <2>1, RequestedCut, QueueTypes
  <2>5. t + x.words \in Nat
    BY <2>2, SendAssumption DEF Piece
  <2> HIDE DEF x, e
  <2>6. Tiled(toWrite, Append(dmaPageWriteReqQ, x), dmaWriteBufAddrQ, Append(bufidxQ, e),
              WriteEntries, NextWord + dataWordsRemain, t + x.words)
    BY <1>0, <2>2, <2>3, <2>4, TiledSplit, QueueTypes
  <2> QED  BY <2>1, <2>4, <2>5, <2>6 DEF WritesWait
<1>4. CASE splitDmaReadReq2
  <2> DEFINE e == [write |-> FALSE, page |-> BusPage(reading.addr)]
  <2>1. /\ reading.words > 0 /\ bufidxQ' = Append(bufidxQ, e)
        /\ UNCHANGED <<toWrite, dmaWriteReqQ, sending, dmaPageWriteReqQ, dmaWriteBufAddrQ,
                       NextWord, dataWordsRemain>>
    BY <1>4 DEF splitDmaReadReq2, writeReqs, userVars, wordVars, NextWord, Sending
  <2>2. BusPage(reading.addr) \in Nat
    BY <2>1, Bursts, QueueTypes
  <2>3. e \in Entry /\ e \notin WriteEntries
    BY <2>2 DEF Entry, WriteEntries, ForWrite
  <2> HIDE DEF e
  <2>4. Tiled(toWrite, dmaPageWriteReqQ, dmaWriteBufAddrQ, Append(bufidxQ, e), WriteEntries,
              NextWord + dataWordsRemain, t)
    BY <1>0, <2>3, TiledOther, QueueTypes
  <2> QED  BY <1>0, <2>1, <2>4 DEF WritesWait
<1>5. CASE relayBufIdxRead
  <2> DEFINE e == Head(bufidxQ)
  <2>1. /\ bufidxQ # <<>> /\ bufidxQ' = Tail(bufidxQ)
        /\ UNCHANGED <<toWrite, dmaWriteReqQ, sending, dmaPageWriteReqQ, NextWord,
                       dataWordsRemain>>
    BY <1>5 DEF relayBufIdxRead, writeReqs, userVars, wordVars, NextWord, Sending
  <2>2. e \in Entry
    BY <2>1, Queues, QueueTypes
  <2>3. IF e \in WriteEntries THEN dmaWriteBufAddrQ' = Append(dmaWriteBufAddrQ, e.page)
        ELSE dmaWriteBufAddrQ' = dmaWriteBufAddrQ
    BY <1>5, <2>2 DEF relayBufIdxRead, WriteEntries
  <2>4. Tiled(toWrite, dmaPageWriteReqQ, dmaWriteBufAddrQ', bufidxQ', WriteEntries,
              NextWord + dataWordsRemain, t)
    BY <1>0, <2>1, <2>3, TiledRelay, QueueTypes
  <2> QED  BY <1>0, <2>1, <2>4 DEF WritesWait
<1>6. CASE generateHeaderTLP
  <2> DEFINE n == Head(dmaPageWriteReqQ).words
  <2>1. /\ dmaPageWriteReqQ # <<>> /\ dmaWriteBufAddrQ # <<>>
        /\ dmaPageWriteReqQ' = Tail(dmaPageWriteReqQ)
        /\ dmaWriteBufAddrQ' = Tail(dmaWriteBufAddrQ) /\ dataWordsRemain' = n
        /\ UNCHANGED <<toWrite, dmaWriteReqQ, sending, bufidxQ>>
    BY <1>6 DEF generateHeaderTLP, userVars, writeReqs
  <2>2. NextWord' + dataWordsRemain' = (NextWord + dataWordsRemain) + n
    BY <1>6, <1>00, <2>1, WordsNext
  <2>3. Tiled(toWrite, Tail(dmaPageWriteReqQ), Tail(dmaWriteBufAddrQ), bufidxQ, WriteEntries,
              (NextWord + dataWordsRemain) + n, t)
    BY <1>0, <2>1, TiledTake, QueueTypes
  <2> HIDE DEF n
  <2> QED  BY <1>0, <2>1, <2>2, <2>3 DEF WritesWait
<1>7. CASE UNCHANGED <<toWrite, writeReqs, dmaPageWriteReqQ, dmaWriteBufAddrQ, bufidxQ>>
           /\ ~generateHeaderTLP
  <2>1. UNCHANGED <<toWrite, dmaWriteReqQ, sending, dmaPageWriteReqQ, dmaWriteBufAddrQ, bufidxQ>>
    BY <1>7 DEF writeReqs
  <2> QED  BY <1>0, <1>00, <1>7, <2>1 DEF WritesWait
<1> QED
  BY <1>1, <1>2, <1>3, <1>4, <1>5, <1>6, <1>7
  DEF Next, User, Rules, dmaReadReq, dmaWriteData, reply, readTagReturns, splitDmaReadReq,
      relayFreeWriteTag, generateDataTLP, generateDmaReadTLP, relayTLPm, relayTLP, userVars,
      pageVars

(* Read words wait as before, unless the next of them go to sendTLPQ.      *)
LEMMA ReadsWaitNext ==
  ASSUME SendInv, PlaceInv, Next, ~relayTLPm("read"), NEW s \in Nat, ReadsWait(s)
  PROVE  ReadsWait(s)'
<1>0. PICK u \in Nat, v \in Nat :
        /\ Path(Nat, sendTLPm["read"], s, u, PacketMoves(toRead))
        /\ Tiled(toRead, dmaPageReadReqQ, dmaReadBufAddrQ, bufidxQ, ReadEntries, u, v)
        /\ Requested(toRead, dmaReadReqQ, reading, v)
  BY DEF ReadsWait
<1>1. CASE \E r \in ReadRequests : dmaReadReq(r)
  <2>1. PICK r \in ReadRequests : dmaReadReq(r)
    BY <1>1
  <2>2. r \in Request /\ WordsAsked(r) \in Seq(Nat)
    BY SendAssumption, AddrsAsked DEF Request
  <2>3. /\ toRead' = toRead \o WordsAsked(r) /\ dmaReadReqQ' = Append(dmaReadReqQ, r)
        /\ UNCHANGED <<reading, sendTLPm, dmaPageReadReqQ, dmaReadBufAddrQ, bufidxQ>>
    BY <2>1 DEF dmaReadReq, pageVars, linkVars
  <2>4. Requested(toRead', dmaReadReqQ', reading', v)
    BY <1>0, <2>2, <2>3, RequestedMore, QueueTypes
  <2>5. Tiled(toRead', dmaPageReadReqQ, dmaReadBufAddrQ, bufidxQ, ReadEntries, u, v)
    BY <1>0, <2>2, <2>3, TiledMore, QueueTypes
  <2>6. PacketMoves(toRead) \subseteq PacketMoves(toRead')
    BY <2>2, <2>3, MovesMore, QueueTypes
  <2>7. Path(Nat, sendTLPm["read"], s, u, PacketMoves(toRead'))
    BY <1>0, <2>6, PathMore
  <2> QED  BY <2>3, <2>4, <2>5, <2>7 DEF ReadsWait
<1>2. CASE splitDmaReadReq
  <2>1. /\ reading.words = 0 /\ dmaReadReqQ # <<>>
        /\ reading' = Head(dmaReadReqQ) /\ dmaReadReqQ' = Tail(dmaReadReqQ)
        /\ UNCHANGED <<toRead, sendTLPm, dmaPageReadReqQ, dmaReadBufAddrQ, bufidxQ>>
    BY <1>2 DEF splitDmaReadReq, userVars, pageVars, linkVars
  <2>2. Requested(toRead, dmaReadReqQ', reading', v)
    BY <1>0, <2>1, RequestedNext, QueueTypes
  <2> QED  BY <1>0, <2>1, <2>2 DEF ReadsWait
<1>3. CASE splitDmaReadReq2
  <2> DEFINE x == InPage(reading)
             e == [write |-> FALSE, page |-> BusPage(reading.addr)]
  <2>1. /\ reading.words > 0 /\ reading' = AfterBurst(reading)
        /\ dmaPageReadReqQ' = Append(dmaPageReadReqQ, x) /\ bufidxQ' = Append(bufidxQ, e)
        /\ UNCHANGED <<toRead, dmaReadReqQ, sendTLPm, dmaReadBufAddrQ>>
    BY <1>3 DEF splitDmaReadReq2, userVars, linkVars
  <2>2. x \in Piece /\ BusPage(reading.addr) \in Nat
    BY <2>1, Bursts, QueueTypes
  <2>3. e \in Entry /\ e \in ReadEntries /\ e.page = BusPage(reading.addr)
    BY <2>2 DEF Entry, ReadEntries, ForWrite
  <2>4. /\ Covers(toRead, v, BusPage(reading.addr) * PageWords + x.off, x.words)
        /\ Requested(toRead, dmaReadReqQ, AfterBurst(reading), v + x.words)
    BY <1>0, <2>1, RequestedCut, QueueTypes
  <2>5. v + x.words \in Nat
    BY <2>2, SendAssumption DEF Piece
  <2> HIDE DEF x, e
  <2>6. Tiled(toRead, Append(dmaPageReadReqQ, x), dmaReadBufAddrQ, Append(bufidxQ, e),
              ReadEntries, u, v + x.words)
    BY <1>0, <2>2, <2>3, <2>4, TiledSplit, QueueTypes
  <2> QED  BY <1>0, <2>1, <2>4, <2>5, <2>6 DEF ReadsWait
<1>4. CASE splitDmaWriteReq2
  <2> DEFINE e == [write |-> TRUE, page |-> BusPage(sending.addr)]
  <2>1. /\ sending.words > 0 /\ bufidxQ' = Append(bufidxQ, e)
        /\ UNCHANGED <<toRead, dmaReadReqQ, reading, sendTLPm, dmaPageReadReqQ, dmaReadBufAddrQ>>
    BY <1>4 DEF splitDmaWriteReq2, WriteSplits, readReqs, userVars, linkVars
  <2>2. BusPage(sending.addr) \in Nat
    BY <2>1, Bursts, QueueTypes
  <2>3. e \in Entry /\ e \notin ReadEntries
    BY <2>2 DEF Entry, ReadEntries, ForWrite
  <2> HIDE DEF e
  <2>4. Tiled(toRead, dmaPageReadReqQ, dmaReadBufAddrQ, Append(bufidxQ, e), ReadEntries, u, v)
    BY <1>0, <2>3, TiledOther, QueueTypes
  <2> QED  BY <1>0, <2>1, <2>4 DEF ReadsWait
<1>5. CASE relayBufIdxRead
  <2> DEFINE e == Head(bufidxQ)
  <2>1. /\ bufidxQ # <<>> /\ bufidxQ' = Tail(bufidxQ)
        /\ UNCHANGED <<toRead, dmaReadReqQ, reading, sendTLPm, dmaPageReadReqQ>>
    BY <1>5 DEF relayBufIdxRead, readReqs, userVars, linkVars
  <2>2. e \in Entry
    BY <2>1, Queues, QueueTypes
  <2>3. IF e \in ReadEntries THEN dmaReadBufAddrQ' = Append(dmaReadBufAddrQ, e.page)
        ELSE dmaReadBufAddrQ' = dmaReadBufAddrQ
    BY <1>5, <2>2 DEF relayBufIdxRead, ReadEntries
  <2>4. Tiled(toRead, dmaPageReadReqQ, dmaReadBufAddrQ', bufidxQ', ReadEntries, u, v)
    BY <1>0, <2>1, <2>3, TiledRelay, QueueTypes
  <2> QED  BY <1>0, <2>1, <2>4 DEF ReadsWait
<1>6. CASE generateDmaReadTLP
  <2> DEFINE n == Head(dmaPageReadReqQ).words
             bus == Head(dmaReadBufAddrQ) * PageWords + Head(dmaPageReadReqQ).off
             b == [kind |-> "read", bus |-> bus, words |-> n]
  <2>1. /\ dmaPageReadReqQ # <<>> /\ dmaReadBufAddrQ # <<>>
        /\ dmaPageReadReqQ' = Tail(dmaPageReadReqQ)
        /\ dmaReadBufAddrQ' = Tail(dmaReadBufAddrQ)
        /\ sendTLPm' = [sendTLPm EXCEPT !["read"] = Append(@, b)]
        /\ UNCHANGED <<toRead, dmaReadReqQ, reading, bufidxQ>>
    BY <1>6 DEF generateDmaReadTLP, userVars, readReqs
  <2>2. /\ Covers(toRead, u, bus, n)
        /\ Tiled(toRead, Tail(dmaPageReadReqQ), Tail(dmaReadBufAddrQ), bufidxQ, ReadEntries,
                 u + n, v)
    BY <1>0, <2>1, TiledTake, QueueTypes
  <2>3. n \in 1 .. MaxBurst /\ bus \in Nat
    <3>1. Head(dmaPageReadReqQ) \in Piece /\ Head(dmaReadBufAddrQ) \in Nat
      BY <2>1, Queues, QueueTypes
    <3>2. n \in 1 .. MaxBurst /\ Head(dmaPageReadReqQ).off \in Nat
      BY <3>1, SendAssumption DEF Piece
    <3> QED  BY <3>1, <3>2, Address
  <2> HIDE DEF n, bus
  <2>4. b \in Single /\ b.kind = "read" /\ b.bus = bus /\ b.words = n
    BY <2>3 DEF Single
  <2>5. u + n \in Nat
    BY <2>3, SendAssumption
  <2> HIDE DEF b
  <2>6. <<u, b, u + n>> \in PacketMoves(toRead)
    BY <2>2, <2>4, <2>5 DEF PacketMoves
  <2>7. sendTLPm["read"] \in Seq(Single) /\ sendTLPm'["read"] = Append(sendTLPm["read"], b)
    BY <2>1, QueueTypes DEF Sources
  <2>8. Path(Nat, sendTLPm'["read"], s, u + n, PacketMoves(toRead))
    BY <1>0, <2>4, <2>5, <2>6, <2>7, PathAppend
  <2> QED  BY <1>0, <2>1, <2>2, <2>5, <2>8 DEF ReadsWait
<1>7. CASE UNCHANGED <<toRead, dmaReadReqQ, reading, dmaPageReadReqQ, dmaReadBufAddrQ, bufidxQ,
                       sendTLPm["read"]>>
  BY <1>0, <1>7 DEF ReadsWait
<1>8. CASE reply \/ relayTLPm("reply")
  <2>1. /\ \/ sendTLPm' = [sendTLPm EXCEPT !["reply"] = Append(@, [kind |-> "reply"])]
           \/ sendTLPm' = [sendTLPm EXCEPT !["reply"] = Tail(@)]
        /\ UNCHANGED <<toRead, readReqs, pageVars>>
    BY <1>8 DEF reply, relayTLPm, userVars
  <2>2. sendTLPm'["read"] = sendTLPm["read"]
    BY <2>1, QueueTypes DEF Sources
  <2> QED  BY <1>7, <2>1, <2>2 DEF readReqs, pageVars
<1>9. CASE UNCHANGED <<toRead, readReqs, pageVars, sendTLPm>>
  BY <1>7, <1>9 DEF readReqs, pageVars
<1>10. CASE generateHeaderTLP
  BY <1>7, <1>10 DEF generateHeaderTLP, userVars, readReqs
<1> QED
  BY <1>1, <1>2, <1>3, <1>4, <1>5, <1>6, <1>8, <1>9, <1>10
  DEF Next, User, Rules, dmaWriteReq, dmaWriteData, readTagReturns, splitDmaWriteReq,
      relayFreeWriteTag, generateDataTLP, relayTLP, userVars, linkVars, Sources

-----------------------------------------------------------------------------
(* A beat more in sendTLPQ.                                                *)
LEMMA BeatMore ==
  ASSUME SendInv, PlaceInv, Next, NEW b \in Beat, sendTLPQ' = Append(sendTLPQ, b),
         NEW s \in Nat, OnLink(s), NEW t \in Nat,
         <<[left |-> dataWordsRemain, word |-> NextWord, read |-> s], b,
           [left |-> dataWordsRemain', word |-> NextWord', read |-> t]>>
             \in LinkMoves(toWrite, toRead),
         UNCHANGED <<toWrite, toRead, wire, written, readOut>>
  PROVE  OnLink(t)'
<1> DEFINE c == [left |-> dataWordsRemain', word |-> NextWord', read |-> t]
           d == [left |-> dataWordsRemain, word |-> NextWord, read |-> s]
           a == [left |-> wire.left, word |-> Len(written) + 1, read |-> Len(readOut) + 1]
<1>1. c \in LinkState /\ <<d, b, c>> \in LinkMoves(toWrite, toRead)
  BY DEF LinkMoves
<1>2. Path(LinkState, sendTLPQ, a, d, LinkMoves(toWrite, toRead)) /\ sendTLPQ \in Seq(Beat)
  BY QueueTypes DEF OnLink
<1>3. /\ sendTLPQ' = Append(sendTLPQ, b)
      /\ a = [left |-> wire'.left, word |-> Len(written') + 1, read |-> Len(readOut') + 1]
      /\ toWrite' = toWrite /\ toRead' = toRead
  OBVIOUS
<1> HIDE DEF a, c, d
<1>4. Path(LinkState, Append(sendTLPQ, b), a, c, LinkMoves(toWrite, toRead))
  BY <1>1, <1>2, PathAppend
<1>5. Path(LinkState, sendTLPQ', a, c, LinkMoves(toWrite', toRead'))
  BY <1>3, <1>4
<1> QED  BY <1>3, <1>5 DEF OnLink, c

LEMMA LinkRightNext ==
  ASSUME SendInv, PlaceInv, Next
  PROVE  LinkRight'
<1>0. PICK s \in Nat : OnLink(s) /\ ReadsWait(s)
  BY DEF PlaceInv, LinkRight
<1>00. /\ NextWord \in Nat /\ NextWord' \in Nat /\ dataWordsRemain \in Nat
       /\ ~generateHeaderTLP /\ ~generateDataTLP =>
              NextWord' = NextWord /\ dataWordsRemain' = dataWordsRemain
  BY WordsNext, QueueTypes
<1> DEFINE d == [left |-> dataWordsRemain, word |-> NextWord, read |-> s]
<1>1. d \in LinkState /\ d.left = dataWordsRemain /\ d.word = NextWord /\ d.read = s
  BY <1>00 DEF LinkState
<1>2. CASE relayTLPm("read")
  <2> DEFINE q == sendTLPm["read"]
             b == Head(q)
  <2>1. /\ dataWordsRemain = 0 /\ q # <<>> /\ sendTLPQ' = Append(sendTLPQ, b)
        /\ sendTLPm' = [sendTLPm EXCEPT !["read"] = Tail(@)]
        /\ UNCHANGED <<toWrite, toRead, readReqs, pageVars, wordVars, wire, written, readOut>>
        /\ NextWord' = NextWord /\ dataWordsRemain' = dataWordsRemain
    BY <1>2 DEF relayTLPm, BetweenBursts, userVars, NextWord, Sending, wordVars
  <2>2. q \in Seq(Single) /\ b \in Single /\ b \in Beat
    <3>1. q \in Seq(Single)
      BY QueueTypes DEF Sources
    <3>2. b \in Single
      BY <2>1, <3>1, Queues
    <3> QED  BY <3>1, <3>2 DEF Beat
  <2>3. PICK u \in Nat, v \in Nat :
          /\ Path(Nat, q, s, u, PacketMoves(toRead))
          /\ Tiled(toRead, dmaPageReadReqQ, dmaReadBufAddrQ, bufidxQ, ReadEntries, u, v)
          /\ Requested(toRead, dmaReadReqQ, reading, v)
    BY <1>0 DEF ReadsWait
  <2>4. PICK t \in Nat : /\ <<s, b, t>> \in PacketMoves(toRead)
                         /\ Path(Nat, Tail(q), t, u, PacketMoves(toRead))
    BY <2>1, <2>2, <2>3, PathTail
  <2>5. b.kind = "read" /\ t = s + b.words /\ Covers(toRead, s, b.bus, b.words)
    BY <2>4 DEF PacketMoves
  <2>6. sendTLPm'["read"] = Tail(q)
    BY <2>1, QueueTypes DEF Sources
  <2> HIDE DEF b, q
  <2>7. ReadsWait(t)'
    BY <2>1, <2>3, <2>4, <2>6 DEF ReadsWait, readReqs, pageVars
  <2> DEFINE c == [left |-> dataWordsRemain, word |-> NextWord, read |-> t]
  <2>8. c \in LinkState /\ c = [left |-> d.left, word |-> d.word, read |-> d.read + b.words]
    BY <1>00, <1>1, <2>5 DEF LinkState
  <2> HIDE DEF c, d
  <2>9. <<d, b, c>> \in LinkMoves(toWrite, toRead)
    BY <1>1, <2>1, <2>2, <2>5, <2>8 DEF LinkMoves
  <2>10. OnLink(t)'
    <3>1. <<[left |-> dataWordsRemain, word |-> NextWord, read |-> s], b,
            [left |-> dataWordsRemain', word |-> NextWord', read |-> t]>>
              \in LinkMoves(toWrite, toRead)
      BY <2>1, <2>9 DEF c, d
    <3> QED  BY <1>0, <2>1, <2>2, <3>1, BeatMore
  <2> QED  BY <2>7, <2>10 DEF LinkRight
<1> SUFFICES ASSUME ~relayTLPm("read") PROVE LinkRight'
  BY <1>2
<1>3. ReadsWait(s)'
  BY <1>0, ReadsWaitNext
<1>4. CASE \E r \in WriteRequests : dmaWriteReq(r)
  <2>1. PICK r \in WriteRequests : dmaWriteReq(r)
    BY <1>4
  <2>2. WordsAsked(r) \in Seq(Nat)
    BY SendAssumption, AddrsAsked DEF Request
  <2>3. /\ toWrite' = toWrite \o WordsAsked(r) /\ toRead' = toRead
        /\ UNCHANGED <<linkVars, NextWord, dataWordsRemain>>
    BY <2>1 DEF dmaWriteReq, wordVars, NextWord, Sending
  <2>4. LinkMoves(toWrite, toRead) \subseteq LinkMoves(toWrite', toRead')
    BY <2>2, <2>3, MovesMore, QueueTypes
  <2>5. OnLink(s)'
    BY <1>0, <2>3, <2>4, PathMore DEF OnLink, linkVars
  <2> QED  BY <1>3, <2>5 DEF LinkRight
<1>5. CASE \E r \in ReadRequests : dmaReadReq(r)
  <2>1. PICK r \in ReadRequests : dmaReadReq(r)
    BY <1>5
  <2>2. WordsAsked(r) \in Seq(Nat)
    BY SendAssumption, AddrsAsked DEF Request
  <2>3. /\ toRead' = toRead \o WordsAsked(r) /\ toWrite' = toWrite
        /\ UNCHANGED <<linkVars, NextWord, dataWordsRemain>>
    BY <2>1 DEF dmaReadReq, wordVars, NextWord, Sending
  <2>4. LinkMoves(toWrite, toRead) \subseteq LinkMoves(toWrite', toRead')
    BY <2>2, <2>3, MovesMore, QueueTypes
  <2>5. OnLink(s)'
    BY <1>0, <2>3, <2>4, PathMore DEF OnLink, linkVars
  <2> QED  BY <1>3, <2>5 DEF LinkRight
<1>6. CASE generateHeaderTLP
  <2> DEFINE n == Head(dmaPageWriteReqQ).words
             bus == Head(dmaWriteBufAddrQ) * PageWords + Head(dmaPageWriteReqQ).off
             b == [kind |-> "write", bus |-> bus, words |-> n, first |-> Head(dmaWriteWordQ)]
  <2>1. /\ dmaPageWriteReqQ # <<>> /\ dmaWriteBufAddrQ # <<>> /\ dataWordsRemain' = n
        /\ sendTLPQ' = Append(sendTLPQ, b)
        /\ UNCHANGED <<toWrite, toRead, wire, written, readOut>>
    BY <1>6 DEF generateHeaderTLP, userVars
  <2>2. dataWordsRemain = 0 /\ NextWord' = NextWord /\ Head(dmaWriteWordQ) = NextWord
    BY <1>6, WordsNext
  <2>3. Covers(toWrite, NextWord, bus, n)
    <3>1. PICK t \in Nat :
            Tiled(toWrite, dmaPageWriteReqQ, dmaWriteBufAddrQ, bufidxQ, WriteEntries,
                  NextWord + dataWordsRemain, t)
      BY DEF PlaceInv, WritesWait
    <3>2. NextWord + dataWordsRemain = NextWord
      BY <1>00, <2>2
    <3> QED  BY <2>1, <3>1, <3>2, TiledTake, QueueTypes
  <2>4. n \in 1 .. MaxBurst /\ n \in Nat /\ bus \in Nat
    <3>1. Head(dmaPageWriteReqQ) \in Piece /\ Head(dmaWriteBufAddrQ) \in Nat
      BY <2>1, Queues, QueueTypes
    <3>2. n \in 1 .. MaxBurst /\ n \in Nat /\ Head(dmaPageWriteReqQ).off \in Nat
      BY <3>1, SendAssumption DEF Piece
    <3> QED  BY <3>1, <3>2, Address
  <2> HIDE DEF n, bus
  <2>5. b \in Beat /\ b.kind = "write" /\ b.bus = bus /\ b.words = n /\ b.first = NextWord
    BY <1>00, <2>2, <2>4 DEF Beat
  <2> HIDE DEF b
  <2> DEFINE c == [left |-> n, word |-> NextWord, read |-> s]
  <2>6. c \in LinkState /\ c = [left |-> b.words, word |-> d.word, read |-> d.read]
    BY <1>00, <1>1, <2>4, <2>5 DEF LinkState
  <2> HIDE DEF c, d
  <2>7. <<d, b, c>> \in LinkMoves(toWrite, toRead)
    BY <1>1, <2>2, <2>3, <2>5, <2>6 DEF LinkMoves
  <2>8. OnLink(s)'
    <3>1. <<[left |-> dataWordsRemain, word |-> NextWord, read |-> s], b,
            [left |-> dataWordsRemain', word |-> NextWord', read |-> s]>>
              \in LinkMoves(toWrite, toRead)
      BY <2>1, <2>2, <2>7 DEF c, d
    <3> QED  BY <1>0, <2>1, <2>5, <3>1, BeatMore
  <2> QED  BY <1>3, <2>8 DEF LinkRight
<1>7. CASE generateDataTLP
  <2>1. /\ dataWordsRemain > 0 /\ dataWordsRemain' = dataWordsRemain - 1
        /\ NextWord' = NextWord + 1 /\ dmaWriteBuf = NextWord
        /\ dataWordsRemain > 1 => Head(dmaWriteWordQ) = NextWord + 1
    BY <1>7, WordsNext DEF generateDataTLP
  <2>2. \E f \in Nat :
          /\ sendTLPQ' = Append(sendTLPQ, [kind |-> "data", rest |-> dmaWriteBuf, first |-> f])
          /\ dataWordsRemain > 1 => f = NextWord + 1
    <3>1. CASE dataWordsRemain > 1
      BY <1>00, <1>7, <2>1, <3>1 DEF generateDataTLP
    <3>2. CASE dataWordsRemain = 1
      BY <1>7, <3>2 DEF generateDataTLP
    <3> QED  BY <1>00, <2>1, <3>1, <3>2
  <2>3. PICK f \in Nat :
          /\ sendTLPQ' = Append(sendTLPQ, [kind |-> "data", rest |-> dmaWriteBuf, first |-> f])
          /\ dataWordsRemain > 1 => f = NextWord + 1
    BY <2>2
  <2> DEFINE b == [kind |-> "data", rest |-> dmaWriteBuf, first |-> f]
             c == [left |-> dataWordsRemain', word |-> NextWord', read |-> s]
  <2>4. UNCHANGED <<toWrite, toRead, wire, written, readOut>>
    BY <1>7 DEF generateDataTLP, userVars
  <2>5. b \in Beat /\ b.kind = "data" /\ b.rest = NextWord /\ b.first = f
    BY <1>00, <2>1 DEF Beat
  <2>6. /\ c \in LinkState
        /\ c = [left |-> d.left - 1, word |-> d.word + 1, read |-> d.read]
    BY <1>00, <1>1, <2>1 DEF LinkState
  <2>7. sendTLPQ' = Append(sendTLPQ, b)
    BY <2>3
  <2> HIDE DEF b, c, d
  <2>8. <<d, b, c>> \in LinkMoves(toWrite, toRead)
    BY <1>1, <2>1, <2>3, <2>5, <2>6 DEF LinkMoves
  <2>9. OnLink(s)'
    BY <1>0, <2>4, <2>5, <2>7, <2>8, BeatMore DEF c, d
  <2> QED  BY <1>3, <2>9 DEF LinkRight
<1>8. CASE relayTLPm("reply")
  <2> DEFINE q == sendTLPm["reply"]
             b == Head(q)
  <2>1. /\ dataWordsRemain = 0 /\ q # <<>> /\ sendTLPQ' = Append(sendTLPQ, b)
        /\ UNCHANGED <<toWrite, toRead, wire, written, readOut>>
        /\ NextWord' = NextWord /\ dataWordsRemain' = dataWordsRemain
    BY <1>8 DEF relayTLPm, BetweenBursts, userVars, NextWord, Sending, wordVars
  <2>2. q \in Seq(Single) /\ b \in Beat
    <3>1. q \in Seq(Single)
      BY QueueTypes DEF Sources
    <3> QED  BY <2>1, <3>1, Queues DEF Beat
  <2>3. b.kind = "reply"
    <3>1. 1 \in 1 .. Len(q) /\ b = q[1]
      BY <2>1, <2>2
    <3> QED  BY <3>1 DEF PlaceInv, PlaceTypes
  <2> HIDE DEF b, q, d
  <2>4. <<d, b, d>> \in LinkMoves(toWrite, toRead)
    BY <1>1, <2>1, <2>2, <2>3 DEF LinkMoves
  <2>5. OnLink(s)'
    <3>1. <<[left |-> dataWordsRemain, word |-> NextWord, read |-> s], b,
            [left |-> dataWordsRemain', word |-> NextWord', read |-> s]>>
              \in LinkMoves(toWrite, toRead)
      BY <2>1, <2>4 DEF d
    <3> QED  BY <1>0, <2>1, <2>2, <3>1, BeatMore
  <2> QED  BY <1>3, <2>5 DEF LinkRight
<1>9. CASE relayTLP
  <2> DEFINE b == Head(sendTLPQ)
             a == [left |-> wire.left, word |-> Len(written) + 1, read |-> Len(readOut) + 1]
  <2>1. /\ sendTLPQ # <<>> /\ sendTLPQ' = Tail(sendTLPQ)
        /\ UNCHANGED <<toWrite, toRead, wordVars, given>>
    BY <1>9 DEF relayTLP, userVars
  <2>2. sendTLPQ \in Seq(Beat) /\ b \in Beat
    BY <2>1, Queues, QueueTypes
  <2>3. NextWord' = NextWord /\ dataWordsRemain' = dataWordsRemain
    BY <2>1 DEF wordVars, NextWord, Sending
  <2>4. PICK c \in LinkState : /\ <<a, b, c>> \in LinkMoves(toWrite, toRead)
                               /\ Path(LinkState, Tail(sendTLPQ), c, d, LinkMoves(toWrite, toRead))
    BY <1>0, <2>1, <2>2, PathTail DEF OnLink
  <2>5. /\ b.kind = "data" <=> wire.left > 0
        /\ b.kind = "write" =>
             c = [left |-> b.words, word |-> Len(written) + 1, read |-> Len(readOut) + 1]
        /\ b.kind = "data" =>
             c = [left |-> wire.left - 1, word |-> (Len(written) + 1) + 1,
                  read |-> Len(readOut) + 1]
        /\ b.kind = "read" =>
             c = [left |-> wire.left, word |-> Len(written) + 1,
                  read |-> (Len(readOut) + 1) + b.words]
        /\ b.kind = "reply" => c = a
    BY <2>4 DEF LinkMoves
  <2>6. /\ wire.left \in Nat /\ readOut \in Seq(Nat)
        /\ written \in Seq([bus : Nat, first : Nat, rest : Nat])
    BY SendAssumption DEF SendInv, BeatInv, PlaceInv, PlaceTypes
  <2> HIDE DEF b, d
  <2>7. c = [left |-> wire'.left, word |-> Len(written') + 1, read |-> Len(readOut') + 1]
    <3>1. CASE b.kind = "write"
      BY <1>9, <2>5, <3>1 DEF relayTLP, b
    <3>2. CASE b.kind = "data"
      <4>1. /\ written' = Append(written, [bus |-> wire.bus, first |-> wire.first,
                                           rest |-> b.rest])
            /\ wire' = IF wire.left <= 1 THEN NoPacket
                       ELSE [left |-> wire.left - 1, bus |-> wire.bus + 1, first |-> b.first]
            /\ readOut' = readOut
        BY <1>9, <3>2 DEF relayTLP, b
      <4>2. Len(written') = Len(written) + 1
        BY <2>6, <4>1
      <4>3. wire'.left = wire.left - 1
        BY <2>5, <2>6, <3>2, <4>1 DEF NoPacket
      <4> QED  BY <2>5, <3>2, <4>1, <4>2, <4>3
    <3>3. CASE b.kind = "read"
      <4> DEFINE more == [i \in 1 .. b.words |-> b.bus + i - 1]
      <4>1. readOut' = readOut \o more /\ UNCHANGED <<wire, written>>
        BY <1>9, <3>3 DEF relayTLP, b
      <4>2. b.words \in Nat /\ b.bus \in Nat
        BY <2>2, <3>3, SendAssumption DEF Beat, Single, b
      <4>3. more \in [1 .. b.words -> Nat]
        BY <4>2
      <4> HIDE DEF more
      <4>4. more \in Seq(Nat) /\ Len(more) = b.words
        <5>1. ASSUME NEW n \in Nat, NEW g \in [1 .. n -> Nat] PROVE g \in Seq(Nat) /\ Len(g) = n
          OBVIOUS
        <5> QED  BY <4>2, <4>3, <5>1
      <4>5. Len(readOut') = Len(readOut) + b.words
        <5>1. Len(readOut \o more) = Len(readOut) + Len(more)
          BY <2>6, <4>4, MoreAsked
        <5> QED  BY <4>1, <4>4, <5>1
      <4>6. (Len(readOut) + 1) + b.words = Len(readOut') + 1
        BY <2>6, <4>2, <4>5
      <4> QED  BY <2>5, <3>3, <4>1, <4>6
    <3>4. CASE b.kind = "reply"
      <4>1. UNCHANGED <<wire, written, readOut>>
        BY <1>9, <3>4 DEF relayTLP, b
      <4> QED  BY <2>5, <3>4, <4>1
    <3> QED  BY <2>2, <3>1, <3>2, <3>3, <3>4 DEF Beat, Single, b
  <2> HIDE DEF a
  <2>8. OnLink(s)'
    BY <2>1, <2>3, <2>4, <2>7 DEF OnLink, d
  <2> QED  BY <1>3, <2>8 DEF LinkRight
<1>10. CASE UNCHANGED <<toWrite, toRead, sendTLPQ, wire, written, readOut>>
            /\ ~generateHeaderTLP /\ ~generateDataTLP
  <2>1. OnLink(s)'
    BY <1>0, <1>00, <1>10 DEF OnLink
  <2> QED  BY <1>3, <2>1 DEF LinkRight
<1> QED
  BY <1>4, <1>5, <1>6, <1>7, <1>8, <1>9, <1>10
  DEF Next, User, Rules, dmaWriteData, reply, readTagReturns, splitDmaWriteReq,
      splitDmaReadReq, splitDmaWriteReq2, splitDmaReadReq2, relayFreeWriteTag, relayBufIdxRead,
      generateDmaReadTLP, userVars, linkVars, Sources

-----------------------------------------------------------------------------
LEMMA PlaceInvHolds == Spec => []PlaceInv
<1>1. SendInv /\ PlaceInv /\ [Next]_vars => PlaceInv'
  <2> SUFFICES ASSUME SendInv, PlaceInv, [Next]_vars PROVE PlaceInv'
    OBVIOUS
  <2>1. CASE Next
    BY <2>1, PlaceTypesNext, WordsNext, LeftNext, WritesWaitNext, LinkRightNext DEF PlaceInv
  <2>2. CASE UNCHANGED vars
    <3>1. UNCHANGED <<toWrite, toRead, given, dmaWriteReqQ, sending, dmaReadReqQ, reading,
                      pageVars, wordVars, linkVars>>
      BY <2>2 DEF vars, userVars, writeReqs, readReqs
    <3>2. NextWord' = NextWord
      BY <3>1 DEF NextWord, Sending, wordVars
    <3> USE <3>1, <3>2 DEF PlaceInv
    <3>3. PlaceTypes'    BY DEF PlaceTypes, linkVars
    <3>4. WordsInOrder'  BY DEF WordsInOrder, wordVars
    <3>5. WireRight'     BY DEF WireRight, linkVars
    <3>6. WritesWait'    BY DEF WritesWait, pageVars, wordVars
    <3>7. LinkRight'     BY DEF LinkRight, OnLink, ReadsWait, pageVars, wordVars, linkVars
    <3>8. LeftRight'     BY DEF LeftRight, linkVars
    <3> QED  BY <3>3, <3>4, <3>5, <3>6, <3>7, <3>8
  <2> QED  BY <2>1, <2>2
<1> QED  BY <1>1, SendInvHolds, PlaceInvInit, PTL DEF Spec

(* The n-th word the user gave is written whole to the n-th address it     *)
(* asked for, and reads leave for the addresses asked for, in order:       *)
(* relayBufIdxRead hands every page of configBuffer to the direction that  *)
(* asked for it, and no header overtakes the words of another.             *)
THEOREM AlwaysInPlace == Spec => []InPlace
<1>1. PlaceInv => InPlace
  <2> SUFFICES ASSUME PlaceInv PROVE InPlace
    OBVIOUS
  <2>1. /\ LeftRight /\ readOut \in Seq(Nat) /\ toRead \in Seq(Nat) /\ toWrite \in Seq(Nat)
        /\ Len(readOut) \in Nat
    BY DEF PlaceInv, PlaceTypes
  <2>2. WrittenInPlace
    BY <2>1 DEF WrittenInPlace, LeftRight
  <2>3. ReadInPlace
    <3>1. \A n \in 1 .. Len(readOut) : n \in 1 .. Len(toRead) /\ readOut[n] = toRead[n]
      BY <2>1 DEF LeftRight
    <3>2. ASSUME NEW a \in Seq(Nat), NEW b \in Seq(Nat),
                 \A n \in 1 .. Len(a) : n \in 1 .. Len(b) /\ a[n] = b[n]
          PROVE  a = SubSeq(b, 1, Len(a))
      <4> DEFINE c == SubSeq(b, 1, Len(a))
      <4>1. /\ Len(a) \in Nat /\ c \in Seq(Nat) /\ Len(c) = Len(a)
            /\ \A n \in 1 .. Len(a) : c[n] = b[n]
        BY <3>2
      <4> HIDE DEF c
      <4>2. a = c
        <5>1. a = [n \in 1 .. Len(a) |-> a[n]]
          OBVIOUS
        <5>2. c = [n \in 1 .. Len(c) |-> c[n]]
          BY <4>1
        <5>3. \A n \in 1 .. Len(a) : a[n] = c[n]
          BY <3>2, <4>1
        <5> QED  BY <4>1, <5>1, <5>2, <5>3
      <4> QED  BY <4>2 DEF c
    <3> QED  BY <2>1, <3>1, <3>2 DEF ReadInPlace
  <2> QED  BY <2>2, <2>3 DEF InPlace
<1> QED  BY <1>1, PlaceInvHolds, PTL
=============================================================================
