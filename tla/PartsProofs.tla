----------------------------- MODULE PartsProofs -----------------------------
(***************************************************************************)
(* Theorems about the parts of MCParts, each for every value of its        *)
(* constants.                                                              *)
(***************************************************************************)
EXTENDS ShmFifo, RecvTlp, DramBurst, MergeN, SequenceTheorems,
        FiniteSetTheorems, WellFoundedInduction, TLAPS

-----------------------------------------------------------------------------
(* recvTLP rejoins every packet, for any packet lengths the host can send, *)
(* any number of halves and any size of tlpQ.                              *)
Got == gotBeats \o tlpQ

(* Between beats the core is either on a boundary of the beats behind tlpQ,*)
(* and nothing waits; or one half past it, and that half waits.            *)
OnBoundary ==
  /\ halvesLeft % 2 = 0 /\ partBuffer = Invalid /\ 2 * Len(Got) = sentHalves
  /\ halvesLeft > 0 => partOffset = 0

HalfPast ==
  /\ halvesLeft % 2 = 1 /\ partBuffer = sentHalves /\ sentHalves > 0
  /\ 2 * Len(Got) = sentHalves - 1
  /\ partOffset = 8

Paired(s) == \A k \in 1 .. Len(s) : s[k] = <<2 * k - 1, 2 * k>>

RecvTypes ==
  /\ sentHalves \in Nat /\ halvesLeft \in Nat
  /\ partOffset \in {0, 8} /\ partBuffer \in Nat
  /\ tlpQ \in Seq(Nat \X Nat) /\ gotBeats \in Seq(Nat \X Nat)

RecvInv == RecvTypes /\ (OnBoundary \/ HalfPast) /\ Paired(Got)

-----------------------------------------------------------------------------
(* Initially nothing has been sent and nothing waits.                      *)
LEMMA RecvInitInv == RecvInit => RecvInv
<1> SUFFICES ASSUME RecvInit PROVE RecvInv
  OBVIOUS
<1>1. RecvTypes
  BY DEF RecvInit, RecvTypes, Invalid
<1>2. Got = <<>> /\ Len(Got) = 0
  BY DEF RecvInit, Got
<1>3. OnBoundary /\ Paired(Got)
  BY <1>2 DEF RecvInit, OnBoundary, Paired, Invalid
<1> QED
  BY <1>1, <1>3 DEF RecvInv

(* A packet has at least two halves, and an even number of them.           *)
LEMMA LenEven ==
  ASSUME NEW n \in PacketLens
  PROVE  n \in Nat /\ n >= 2 /\ n % 2 = 0
<1>1. n \in Nat /\ \E k \in 1 .. n : n = 2 * k
  BY RecvAssumption DEF RecvAssumption
<1>2. PICK k \in 1 .. n : n = 2 * k
  BY <1>1
<1> QED
  BY <1>1, <1>2

(* enqTlp puts one beat behind those there are.                            *)
LEMMA EnqAppends ==
  ASSUME RecvTypes, NEW a \in Nat, NEW b \in Nat, enqTlp(a, b), UNCHANGED gotBeats
  PROVE  /\ tlpQ' \in Seq(Nat \X Nat)
         /\ Len(Got') = Len(Got) + 1
         /\ Got'[Len(Got) + 1] = <<a, b>>
         /\ \A k \in 1 .. Len(Got) : Got'[k] = Got[k]
<1>1. <<a, b>> \in Nat \X Nat
  OBVIOUS
<1>2. tlpQ' = Append(tlpQ, <<a, b>>)
  BY DEF enqTlp
<1>3. gotBeats \in Seq(Nat \X Nat) /\ tlpQ \in Seq(Nat \X Nat)
  BY DEF RecvTypes
<1>4. tlpQ' \in Seq(Nat \X Nat)
  BY <1>1, <1>2, <1>3
<1>5. Got' = gotBeats \o Append(tlpQ, <<a, b>>)
  BY <1>2 DEF Got
<1>6. /\ Len(gotBeats) \in Nat /\ Len(tlpQ) \in Nat
      /\ Len(Got) = Len(gotBeats) + Len(tlpQ)
      /\ Len(tlpQ') = Len(tlpQ) + 1 /\ Len(Got') = Len(gotBeats) + Len(tlpQ')
  BY <1>2, <1>3, <1>4 DEF Got
<1>7. Got'[Len(Got) + 1] = <<a, b>>
  <2>1. Got'[Len(Got) + 1] = tlpQ'[Len(tlpQ) + 1]
    BY <1>2, <1>3, <1>4, <1>6 DEF Got
  <2> QED
    BY <1>1, <1>2, <1>3, <2>1
<1>8. ASSUME NEW k \in 1 .. Len(Got) PROVE Got'[k] = Got[k]
  <2>1. CASE k <= Len(gotBeats)
    BY <1>3, <1>4, <1>6, <2>1 DEF Got
  <2>2. CASE k > Len(gotBeats)
    <3>1. (k - Len(gotBeats)) \in 1 .. Len(tlpQ)
      BY <1>6, <2>2
    <3>2. /\ Got[k] = tlpQ[k - Len(gotBeats)]
          /\ Got'[k] = tlpQ'[k - Len(gotBeats)]
      BY <1>3, <1>4, <1>6, <2>2, <3>1, SMTT(40) DEF Got
    <3> QED
      BY <1>1, <1>2, <1>3, <3>1, <3>2
  <2> QED
    BY <1>6, <2>1, <2>2
<1> QED
  BY <1>4, <1>6, <1>7, <1>8

(* The next pair of halves keeps the beats behind tlpQ paired.             *)
LEMMA PairAppended ==
  ASSUME RecvTypes, Paired(Got), NEW a \in Nat, enqTlp(a, a + 1), UNCHANGED gotBeats,
         a = 2 * Len(Got) + 1
  PROVE  /\ tlpQ' \in Seq(Nat \X Nat)
         /\ Len(Got) \in Nat /\ Len(Got') = Len(Got) + 1
         /\ Paired(Got')
<1>0. Len(Got) \in Nat
  BY DEF Got, RecvTypes
<1>1. /\ tlpQ' \in Seq(Nat \X Nat)
      /\ Len(Got') = Len(Got) + 1
      /\ Got'[Len(Got) + 1] = <<a, a + 1>>
      /\ \A k \in 1 .. Len(Got) : Got'[k] = Got[k]
  BY EnqAppends
<1>2. ASSUME NEW k \in 1 .. Len(Got') PROVE Got'[k] = <<2 * k - 1, 2 * k>>
  <2>1. CASE k = Len(Got) + 1
    <3>1. 2 * k - 1 = a /\ 2 * k = a + 1
      BY <1>0, <2>1
    <3> QED
      BY <1>1, <2>1, <3>1
  <2>2. CASE k # Len(Got) + 1
    <3>1. k \in 1 .. Len(Got)
      BY <1>0, <1>1, <2>2
    <3> QED
      BY <1>1, <3>1 DEF Paired
  <2> QED
    BY <2>1, <2>2
<1> QED
  BY <1>0, <1>1, <1>2 DEF Paired

-----------------------------------------------------------------------------
(* Every beat the core may hand over keeps the invariant.                  *)
LEMMA BeatKeeps == RecvInv /\ recvTLP => RecvInv'
<1> SUFFICES ASSUME RecvInv, recvTLP PROVE RecvInv'
  OBVIOUS
<1>0. PICK b \in Beats :
        /\ sofRight(b) \/ sofMid(b) \/ inPacket(b) \/ inStraddled(b)
        /\ sentHalves' = sentHalves + HalvesIn(b) /\ halvesLeft' = b.left
        /\ UNCHANGED gotBeats
  BY DEF recvTLP
<1>1. /\ RecvTypes /\ (OnBoundary \/ HalfPast) /\ Paired(Got)
      /\ sentHalves \in Nat /\ halvesLeft \in Nat /\ gotBeats \in Seq(Nat \X Nat)
      /\ Len(Got) \in Nat
  BY DEF RecvInv, RecvTypes, Got
<1>2. CASE OnBoundary
  <2>1. /\ halvesLeft % 2 = 0 /\ halvesLeft # 1 /\ partBuffer = Invalid
        /\ First = 2 * Len(Got) + 1 /\ First \in Nat /\ First # 0
        /\ halvesLeft > 0 => partOffset = 0
    <3>1. /\ halvesLeft % 2 = 0 /\ partBuffer = Invalid /\ 2 * Len(Got) = sentHalves
          /\ halvesLeft > 0 => partOffset = 0
      BY <1>2 DEF OnBoundary
    <3>2. halvesLeft # 1
      BY <3>1
    <3>3. First = 2 * Len(Got) + 1 /\ First \in Nat /\ First # 0
      BY <1>1, <3>1 DEF First
    <3> QED
      BY <3>1, <3>2, <3>3
  <2>2. CASE \E n \in PacketLens : halvesLeft = 0 /\ b = MidAlone(n)
    <3>1. PICK n \in PacketLens : b = MidAlone(n)
      BY <2>2
    <3>2. b.sof = "mid" /\ b.low = Invalid /\ b.high = First /\ b.left = n - 1
      BY <3>1 DEF MidAlone
    <3>3. partOffset' = 8 /\ partBuffer' = First /\ UNCHANGED tlpQ
      BY <1>0, <2>1, <3>2 DEF sofRight, sofMid, inPacket, inStraddled
    <3>4. sentHalves' = First /\ halvesLeft' = n - 1
      BY <1>0, <3>2 DEF HalvesIn, First
    <3>5. n \in Nat /\ n >= 2 /\ n % 2 = 0
      BY LenEven
    <3>6. (n - 1) \in Nat /\ (n - 1) % 2 = 1
      BY <3>5
    <3>7. Got' = Got
      BY <1>0, <3>3 DEF Got
    <3>8. RecvTypes'
      BY <1>0, <1>1, <2>1, <3>3, <3>4, <3>6 DEF RecvTypes
    <3>9. HalfPast'
      <4>1. sentHalves' > 0 /\ 2 * Len(Got') = sentHalves' - 1
        BY <1>1, <2>1, <3>4, <3>7
      <4>2. halvesLeft' % 2 = 1
        BY <3>4, <3>6
      <4> QED
        BY <3>3, <3>4, <4>1, <4>2 DEF HalfPast
    <3> QED
      BY <1>1, <3>7, <3>8, <3>9 DEF RecvInv, Paired
  <2>3. CASE \/ \E n \in PacketLens : halvesLeft = 0 /\ b = Right(n)
             \/ halvesLeft >= 2 /\ b = Both
    <3>1. /\ b.low = First /\ b.high = First + 1 /\ b.left \in Nat /\ b.left % 2 = 0
          /\ b.sof = "right" \/ (b.sof = "none" /\ halvesLeft >= 2)
      <4>1. CASE \E n \in PacketLens : halvesLeft = 0 /\ b = Right(n)
        <5>1. PICK n \in PacketLens : b = Right(n)
          BY <4>1
        <5>2. n \in Nat /\ n >= 2 /\ n % 2 = 0
          BY LenEven
        <5>3. (n - 2) \in Nat /\ (n - 2) % 2 = 0
          BY <5>2
        <5> QED
          BY <5>1, <5>3 DEF Right
      <4>2. CASE halvesLeft >= 2 /\ b = Both
        <5>1. (halvesLeft - 2) \in Nat /\ (halvesLeft - 2) % 2 = 0
          BY <1>1, <2>1, <4>2
        <5> QED
          BY <4>2, <5>1 DEF Both
      <4> QED
        BY <2>3, <4>1, <4>2
    <3>2. enqTlp(First, First + 1) /\ partOffset' = 0 /\ partBuffer' = Invalid
      <4>1. CASE b.sof = "right"
        BY <1>0, <3>1, <4>1 DEF sofRight, sofMid, inPacket, inStraddled
      <4>2. CASE b.sof = "none" /\ halvesLeft >= 2
        <5>1. partOffset = 0
          BY <1>1, <2>1, <4>2
        <5>2. inPacket(b)
          BY <1>0, <4>2, <5>1 DEF sofRight, sofMid, inStraddled
        <5> QED
          BY <2>1, <3>1, <5>1, <5>2 DEF inPacket
      <4> QED
        BY <3>1, <4>1, <4>2
    <3>3. /\ tlpQ' \in Seq(Nat \X Nat) /\ Len(Got') = Len(Got) + 1 /\ Paired(Got')
      BY <1>0, <1>1, <2>1, <3>2, PairAppended
    <3>4. HalvesIn(b) = 2
      BY <2>1, <3>1 DEF HalvesIn, Invalid
    <3>5. sentHalves' = sentHalves + 2 /\ halvesLeft' = b.left
      BY <1>0, <3>4
    <3>6. RecvTypes'
      BY <1>0, <1>1, <3>1, <3>2, <3>3, <3>5 DEF RecvTypes, Invalid
    <3>7. OnBoundary'
      <4>1. 2 * Len(Got') = sentHalves'
        <5>1. 2 * Len(Got) = sentHalves
          BY <1>2 DEF OnBoundary
        <5> QED
          BY <1>1, <3>3, <3>5, <5>1
      <4>2. halvesLeft' % 2 = 0
        BY <3>1, <3>5
      <4> QED
        BY <3>2, <4>1, <4>2 DEF OnBoundary
    <3> QED
      BY <3>3, <3>6, <3>7 DEF RecvInv
  <2> QED
    BY <1>1, <2>1, <2>2, <2>3 DEF Beats
<1>3. CASE HalfPast
  <2>1. /\ halvesLeft % 2 = 1 /\ halvesLeft # 0 /\ partOffset = 8
        /\ partBuffer = sentHalves /\ partBuffer # Invalid
        /\ sentHalves = 2 * Len(Got) + 1 /\ First = sentHalves + 1 /\ First \in Nat
    BY <1>1, <1>3 DEF HalfPast, First, Invalid
  <2>2. /\ b.low = First /\ b.left \in Nat
        /\ \/ b.sof = "mid" /\ b.high = First + 1 /\ b.left % 2 = 1
           \/ b.sof = "none" /\ b.last /\ b.high = Invalid /\ b.left = 0
           \/ b.sof = "none" /\ ~b.last /\ b.high = First + 1 /\ b.left % 2 = 1
    <3>1. CASE \E n \in PacketLens : b = MidAfter(n)
      <4>1. PICK n \in PacketLens : b = MidAfter(n)
        BY <3>1
      <4>2. n \in Nat /\ n >= 2 /\ n % 2 = 0
        BY LenEven
      <4>3. (n - 1) \in Nat /\ (n - 1) % 2 = 1
        BY <4>2
      <4> QED
        BY <4>1, <4>3 DEF MidAfter
    <3>2. CASE b = LowAlone
      BY <3>2 DEF LowAlone
    <3>3. CASE halvesLeft # 1 /\ b = Both
      <4>1. halvesLeft # 2
        BY <2>1
      <4>2. (halvesLeft - 2) \in Nat
        BY <1>1, <2>1, <3>3, <4>1
      <4>3. (halvesLeft - 2) % 2 = 1
        BY <1>1, <2>1
      <4> QED
        BY <3>3, <4>1, <4>2, <4>3 DEF Both
    <3> QED
      BY <2>1, <3>1, <3>2, <3>3 DEF Beats
  <2>3. enqTlp(sentHalves, sentHalves + 1) /\ partOffset' = 8
    BY <1>0, <2>1, <2>2 DEF sofRight, sofMid, inPacket, inStraddled
  <2>4. partBuffer' = b.high
    BY <1>0, <2>1, <2>2 DEF sofRight, sofMid, inPacket, inStraddled
  <2>5. /\ tlpQ' \in Seq(Nat \X Nat) /\ Len(Got') = Len(Got) + 1 /\ Paired(Got')
    BY <1>0, <1>1, <2>1, <2>3, PairAppended
  <2>6. CASE b.high = First + 1 /\ b.left % 2 = 1
    <3>1. HalvesIn(b) = 2
      BY <1>1, <2>1, <2>2, <2>6 DEF HalvesIn, Invalid
    <3>2. sentHalves' = sentHalves + 2 /\ halvesLeft' = b.left
      BY <1>0, <3>1
    <3>3. RecvTypes'
      BY <1>0, <1>1, <2>1, <2>2, <2>3, <2>4, <2>5, <2>6, <3>2 DEF RecvTypes
    <3>4. HalfPast'
      BY <1>1, <2>1, <2>2, <2>3, <2>4, <2>5, <2>6, <3>2 DEF HalfPast
    <3> QED
      BY <2>5, <3>3, <3>4 DEF RecvInv
  <2>7. CASE b.high = Invalid /\ b.left = 0
    <3>1. HalvesIn(b) = 1
      BY <2>7 DEF HalvesIn
    <3>2. sentHalves' = sentHalves + 1 /\ halvesLeft' = 0
      BY <1>0, <2>7, <3>1
    <3>3. RecvTypes'
      BY <1>0, <1>1, <2>3, <2>4, <2>5, <2>7, <3>2 DEF RecvTypes, Invalid
    <3>4. OnBoundary'
      BY <1>1, <2>1, <2>4, <2>5, <2>7, <3>2 DEF OnBoundary
    <3> QED
      BY <2>5, <3>3, <3>4 DEF RecvInv
  <2> QED
    BY <2>2, <2>6, <2>7
<1> QED
  BY <1>1, <1>2, <1>3

(* The head of a sequence put behind another one leaves the two joined.    *)
LEMMA HeadMoves ==
  ASSUME NEW S, NEW g \in Seq(S), NEW q \in Seq(S), q # <<>>
  PROVE  Append(g, Head(q)) \o Tail(q) = g \o q
<1> DEFINE f == Append(g, Head(q))  t == Tail(q)
<1>1. /\ Head(q) \in S /\ t \in Seq(S) /\ Len(t) = Len(q) - 1
      /\ \A i \in 1 .. Len(t) : t[i] = q[i + 1]
  BY HeadTailProperties
<1>2. /\ f \in Seq(S) /\ Len(f) = Len(g) + 1 /\ f[Len(g) + 1] = Head(q)
      /\ \A i \in 1 .. Len(g) : f[i] = g[i]
  BY <1>1, AppendProperties
<1>3. Head(q) = q[1] /\ Len(g) \in Nat /\ Len(q) \in Nat
  OBVIOUS
<1> HIDE DEF f, t
<1>4. f \o t \in Seq(S) /\ g \o q \in Seq(S) /\ Len(f \o t) = Len(g \o q)
  <2>1. f \o t \in Seq(S) /\ Len(f \o t) = Len(f) + Len(t)
    BY <1>1, <1>2, ConcatProperties
  <2>2. g \o q \in Seq(S) /\ Len(g \o q) = Len(g) + Len(q)
    BY ConcatProperties
  <2> QED
    BY <1>1, <1>2, <1>3, <2>1, <2>2
<1>5. ASSUME NEW i \in 1 .. Len(f \o t) PROVE (f \o t)[i] = (g \o q)[i]
  <2>1. /\ i \in 1 .. Len(g) + Len(q) /\ i \in 1 .. Len(f) + Len(t)
    BY <1>1, <1>2, <1>3
  <2>2. /\ (f \o t)[i] = IF i <= Len(f) THEN f[i] ELSE t[i - Len(f)]
        /\ (g \o q)[i] = IF i <= Len(g) THEN g[i] ELSE q[i - Len(g)]
    BY <1>1, <1>2, <2>1, ConcatProperties
  <2>3. CASE i <= Len(g)
    BY <1>2, <1>3, <2>1, <2>2, <2>3
  <2>4. CASE i = Len(g) + 1
    BY <1>2, <1>3, <2>1, <2>2, <2>4
  <2>5. CASE i > Len(g) + 1
    <3>1. (i - Len(f)) \in 1 .. Len(t) /\ i - Len(f) + 1 = i - Len(g)
      BY <1>1, <1>2, <1>3, <2>1, <2>5
    <3>2. (f \o t)[i] = t[i - Len(f)] /\ (g \o q)[i] = q[i - Len(g)]
      BY <1>2, <1>3, <2>1, <2>2, <2>5
    <3>3. t[i - Len(f)] = q[i - Len(f) + 1]
      BY <1>1, <3>1
    <3> QED
      BY <3>1, <3>2, <3>3
  <2> QED
    BY <1>3, <2>1, <2>3, <2>4, <2>5
<1>6. f \o t = g \o q
  BY <1>4, <1>5, SeqEqual
<1> QED
  BY <1>6 DEF f, t

(* Taking a beat from tlpQ moves it from one part of Got to the other.     *)
LEMMA TakeKeeps == RecvInv /\ takeTlp => RecvInv'
<1> SUFFICES ASSUME RecvInv, takeTlp PROVE RecvInv'
  OBVIOUS
<1>1. /\ tlpQ \in Seq(Nat \X Nat) /\ gotBeats \in Seq(Nat \X Nat) /\ tlpQ # <<>>
      /\ tlpQ' = Tail(tlpQ) /\ gotBeats' = Append(gotBeats, Head(tlpQ))
      /\ UNCHANGED <<sentHalves, halvesLeft, partOffset, partBuffer>>
  BY DEF RecvInv, RecvTypes, takeTlp
<1>2. RecvTypes'
  BY <1>1 DEF RecvInv, RecvTypes
<1>3. Got' = Got
  BY <1>1, HeadMoves DEF Got
<1>4. (OnBoundary \/ HalfPast)' /\ Paired(Got')
  BY <1>1, <1>3 DEF RecvInv, OnBoundary, HalfPast
<1> QED
  BY <1>2, <1>4 DEF RecvInv

(* The beats behind tlpQ are those of the packets, each half once and in   *)
(* order, and no half is held back between packets: recvTLP loses, doubles *)
(* or misplaces none, for any alternation of aligned and straddling ones.  *)
THEOREM RecvWhole == RecvSpec => []PacketsWhole
<1>1. RecvInv /\ [RecvNext]_recvVars => RecvInv'
  <2> SUFFICES ASSUME RecvInv, [RecvNext]_recvVars PROVE RecvInv'
    OBVIOUS
  <2>1. CASE recvTLP
    BY <2>1, BeatKeeps
  <2>2. CASE takeTlp
    BY <2>2, TakeKeeps
  <2>3. CASE UNCHANGED recvVars
    BY <2>3 DEF RecvInv, RecvTypes, OnBoundary, HalfPast, Paired, Got, recvVars
  <2> QED
    BY <2>1, <2>2, <2>3 DEF RecvNext
<1>2. RecvInv => PacketsWhole
  <2> SUFFICES ASSUME RecvInv PROVE PacketsWhole
    OBVIOUS
  <2>1. halvesLeft = 0 => 2 * Len(Got) = sentHalves
    BY DEF RecvInv, OnBoundary, HalfPast
  <2> QED
    BY <2>1 DEF RecvInv, PacketsWhole, Paired, Got
<1> QED
  BY RecvInitInv, <1>1, <1>2, PTL DEF RecvSpec

-----------------------------------------------------------------------------
(* The ring of the simulation, for any size and any number of words, when  *)
(* the source stays within the ring (Window): its type invariant, and that *)
(* the two sides' single accesses implement a FIFO.                        *)

(* The place of the word at an index that has gone round at most once.     *)
Place(k) == IF k >= Size THEN k - Size ELSE k
Oldest == IF tail = Size THEN 0 ELSE tail
Under == word - 1 - Len(taken)          \* words pushed and not yet taken

Setting == at[Creator] \in {"magic", "head0", "tail0", "setMagic"}

(* The constructor: the second side waits for the first.                   *)
SetUp ==
  /\ Setting => /\ head = 0 /\ tail = 0 /\ word = 1 /\ taken = <<>>
                /\ \A s \in Sides : s # Creator => at[s] = "magic"
  /\ ~Setting => magic
  /\ \A s \in Sides : s # Creator => at[s] \notin {"head0", "tail0", "setMagic"}

(* Which accesses are whose.                                               *)
Turns ==
  /\ at["source"] \notin {"read", "wrap"}
  /\ at["drain"] \notin {"store", "publish"}

(* headidx is as far in front of tailidx as there are words in the ring;   *)
(* a side in the middle of push or pop has seen that it may.               *)
Room ==
  /\ Under \in 0 .. Size - 1
  /\ head = Place(Oldest + Under)
  /\ at["source"] \in {"test", "store", "publish"} => Under <= Size - 2 /\ word <= MaxWords
  /\ at["drain"] \in {"read", "test"} => Under >= 1
  /\ at["drain"] = "wrap" <=> tail = Size

(* From tailidx on are the next words, in order, and beyond them the one   *)
(* about to be published.                                                  *)
Stored ==
  /\ \A i \in 0 .. Size - 1 : i < Under => mem[Place(Oldest + i)] = Len(taken) + 1 + i
  /\ at["source"] = "publish" => mem[head] = word
  /\ at["drain"] = "test" => seen = Len(taken) + 1

RingInv == TypeOK /\ SetUp /\ Turns /\ Room /\ Stored

-----------------------------------------------------------------------------
(* The next index is the next place, and the ring is not full with two     *)
(* places free.                                                            *)
LEMMA NextPlace ==
  ASSUME RingInv
  PROVE  NextIndex(head) = Place(Oldest + Under + 1) \/ Under = Size - 1
BY RingAssumption DEF RingInv, TypeOK, Room, NextIndex, Place, Oldest

LEMMA NotFullNow ==
  ASSUME RingInv, Under <= Size - 2
  PROVE  ~RingFull(tail) /\ NextIndex(head) = Place(Oldest + Under + 1)
BY RingAssumption DEF RingInv, TypeOK, Room, RingFull, NextIndex, Place, Oldest

LEMMA RingInvInit == Init => RingInv
<1> SUFFICES ASSUME Init PROVE RingInv
  OBVIOUS
<1>1. /\ mem = [i \in 0 .. Size - 1 |-> 0] /\ head = 0 /\ tail = 0 /\ magic = FALSE
      /\ word = 1 /\ seen = 0 /\ taken = <<>>
  BY DEF Init
<1>2. at = [s \in {"source", "drain"} |-> "magic"]
  BY DEF Init, Sides
<1> USE RingAssumption DEF Sides
<1>3. TypeOK
  <2>1. taken \in Seq(0 .. MaxWords)
    BY <1>1
  <2>2. mem \in [0 .. Size - 1 -> 0 .. MaxWords]
    BY <1>1
  <2>3. at \in [Sides -> {"magic", "head0", "tail0", "setMagic", "idle", "test", "store",
                         "publish", "read", "wrap"}]
    BY <1>2
  <2>4. /\ head \in 0 .. Size - 1 /\ tail \in 0 .. Size /\ tail # Size
        /\ word \in 1 .. MaxWords + 1 /\ seen \in 0 .. MaxWords
    <3>1. head = 0 /\ tail = 0 /\ word = 1 /\ seen = 0
      BY <1>1
    <3> QED  BY <3>1
  <2>5. magic \in BOOLEAN
    BY <1>1
  <2> QED  BY <2>1, <2>2, <2>3, <2>4, <2>5 DEF TypeOK
<1>4. SetUp /\ Turns  BY <1>1, <1>2 DEF SetUp, Turns, Setting
<1>5. Under = 0
  <2>1. Len(<<>>) = 0  OBVIOUS
  <2> QED  BY <1>1, <2>1 DEF Under
<1>6. Room  BY <1>1, <1>2, <1>5 DEF Room, Place, Oldest
<1>7. Stored  BY <1>1, <1>2, <1>5 DEF Stored
<1> QED  BY <1>3, <1>4, <1>6, <1>7 DEF RingInv

LEMMA ConstructKeeps ==
  ASSUME Window <= Size - 1, RingInv, NEW s \in Sides, Construct(s)
  PROVE  RingInv' /\ UNCHANGED <<head, tail, mem, word, taken>>
<1> USE RingAssumption DEF Construct, Goes, Sides
<1>1. /\ UNCHANGED <<head, tail, mem, word, taken, seen>>
      /\ at' = [at EXCEPT ![s] = at'[s]]
      /\ at'[s] \in {"head0", "tail0", "setMagic", "idle"}
      /\ at[s] \in {"magic", "head0", "tail0", "setMagic"}
  BY DEF TestMagic, ClearHead, ClearTail, SetMagic, RingInv, TypeOK, SetUp, Setting
<1>2. TypeOK'
  <2>1. magic' \in BOOLEAN
    BY DEF RingInv, TypeOK, TestMagic, ClearHead, ClearTail, SetMagic
  <2>2. tail' = Size => at'["drain"] = "wrap"
    BY <1>1 DEF RingInv, TypeOK
  <2> QED  BY <1>1, <2>1, <2>2 DEF RingInv, TypeOK
<1>3. SetUp'
  BY <1>1 DEF RingInv, TypeOK, SetUp, Setting, TestMagic, ClearHead, ClearTail, SetMagic
<1>4. Turns'
  BY <1>1 DEF RingInv, TypeOK, Turns
<1>5. Under' = Under /\ Oldest' = Oldest
  BY <1>1 DEF Under, Oldest
<1>6. Room'
  BY <1>1, <1>5 DEF RingInv, TypeOK, Room, Place
<1>7. Stored'
  BY <1>1, <1>5 DEF RingInv, TypeOK, Stored, Place
<1> QED  BY <1>1, <1>2, <1>3, <1>4, <1>6, <1>7 DEF RingInv

-----------------------------------------------------------------------------
(* Steps of push and pop that change neither index.                        *)
LEMMA Running ==
  ASSUME RingInv, Source \/ Drain
  PROVE  ~Setting /\ magic
BY DEF RingInv, SetUp, Setting, Source, Drain, NotFull, PushTests, PushStores, PushPublishes,
       NotEmpty, TailReads, PopAdvances, PopWraps, Sides, RingAssumption

LEMMA StaysUp ==
  ASSUME RingInv, Source \/ Drain, UNCHANGED magic,
         NEW d \in Sides, NEW a \in {"idle", "test", "store", "publish", "read", "wrap"},
         at[d] \notin {"magic", "head0", "tail0", "setMagic"}, Goes(d, a)
  PROVE  SetUp'
BY Running, RingAssumption DEF RingInv, TypeOK, SetUp, Setting, Goes, Sides

LEMMA SourceQuietKeeps ==
  ASSUME Window <= Size - 1, RingInv, NotFull \/ PushTests \/ PushStores
  PROVE  RingInv' /\ UNCHANGED <<head, tail, word, taken>>
         /\ \A i \in 0 .. Size - 1 : i < Under => mem'[Place(Oldest + i)] = mem[Place(Oldest + i)]
<1> USE RingAssumption DEF Sides
<1>1. CASE NotFull
  <2>1. UNCHANGED <<head, tail, mem, word, taken, seen, magic>> /\ Goes("source", "test")
    BY <1>1 DEF NotFull
  <2>2. Under' = Under /\ Oldest' = Oldest
    BY <2>1 DEF Under, Oldest
  <2>3. at["source"] = "idle" /\ word <= MaxWords /\ Under <= Size - 2
    BY <1>1 DEF NotFull, Under, RingInv, TypeOK, Room
  <2>4. TypeOK'  BY <2>1 DEF RingInv, TypeOK, Goes
  <2>5. SetUp'  BY <1>1, <2>1, <2>3, StaysUp DEF Source
  <2>6. Turns' /\ Room'
    BY <2>1, <2>2, <2>3 DEF RingInv, TypeOK, Turns, Room, Place, Goes
  <2>7. Stored'
    BY <2>1, <2>2 DEF RingInv, TypeOK, Stored, Place, Goes
  <2> QED  BY <2>1, <2>4, <2>5, <2>6, <2>7 DEF RingInv
<1>2. CASE PushTests
  <2>1. /\ at["source"] = "test" /\ Under <= Size - 2 /\ word <= MaxWords
    BY <1>2 DEF PushTests, RingInv, Room
  <2>2. /\ UNCHANGED <<head, tail, mem, word, taken, seen, magic>>
        /\ Goes("source", "store")
    BY <1>2, <2>1, NotFullNow DEF PushTests
  <2>3. Under' = Under /\ Oldest' = Oldest
    BY <2>2 DEF Under, Oldest
  <2>4. TypeOK'  BY <2>2 DEF RingInv, TypeOK, Goes
  <2>5. SetUp'  BY <1>2, <2>1, <2>2, StaysUp DEF Source
  <2>6. Turns' /\ Room'
    BY <2>1, <2>2, <2>3 DEF RingInv, TypeOK, Turns, Room, Place, Goes
  <2>7. Stored'
    BY <2>2, <2>3 DEF RingInv, TypeOK, Stored, Place, Goes
  <2> QED  BY <2>2, <2>4, <2>5, <2>6, <2>7 DEF RingInv
<1>3. CASE PushStores
  <2>1. /\ at["source"] = "store" /\ Under <= Size - 2 /\ word <= MaxWords
    BY <1>3 DEF PushStores, RingInv, Room
  <2>2. /\ UNCHANGED <<head, tail, word, taken, seen, magic>>
        /\ Goes("source", "publish") /\ mem' = [mem EXCEPT ![head] = word]
    BY <1>3 DEF PushStores
  <2>3. Under' = Under /\ Oldest' = Oldest
    BY <2>2 DEF Under, Oldest
  <2>4. \A i \in 0 .. Size - 1 : i < Under =>
          Place(Oldest + i) # head /\ Place(Oldest + i) \in 0 .. Size - 1
    BY <2>1 DEF RingInv, TypeOK, Room, Place, Oldest
  <2>5. \A i \in 0 .. Size - 1 : i < Under => mem'[Place(Oldest + i)] = mem[Place(Oldest + i)]
    BY <2>2, <2>4 DEF RingInv, TypeOK
  <2>6. TypeOK'  BY <2>1, <2>2 DEF RingInv, TypeOK, Goes
  <2>7. SetUp'  BY <1>3, <2>1, <2>2, StaysUp DEF Source
  <2>8. Turns' /\ Room'
    BY <2>1, <2>2, <2>3 DEF RingInv, TypeOK, Turns, Room, Place, Goes
  <2>9. mem'[head] = word
    BY <2>2 DEF RingInv, TypeOK
  <2>10. Stored'
    BY <2>2, <2>3, <2>5, <2>9 DEF RingInv, TypeOK, Stored, Place, Goes
  <2> QED  BY <2>2, <2>5, <2>6, <2>7, <2>8, <2>10 DEF RingInv
<1> QED  BY <1>1, <1>2, <1>3

LEMMA PublishKeeps ==
  ASSUME Window <= Size - 1, RingInv, PushPublishes
  PROVE  /\ RingInv' /\ Under <= Size - 2 /\ Under' = Under + 1 /\ word \in 1 .. MaxWords
         /\ taken' = taken
<1> USE RingAssumption DEF Sides
<1>1. at["source"] = "publish" /\ Under <= Size - 2 /\ word <= MaxWords
  BY DEF PushPublishes, RingInv, Room
<1>2. /\ UNCHANGED <<tail, mem, taken, seen, magic>> /\ Goes("source", "idle")
      /\ word' = word + 1 /\ head' = Place(Oldest + Under + 1)
  BY <1>1, NotFullNow DEF PushPublishes
<1>3. Under' = Under + 1 /\ Oldest' = Oldest
  BY <1>2 DEF Under, Oldest, RingInv, TypeOK
<1>4. TypeOK'
  <2>1. head' \in 0 .. Size - 1
    BY <1>1, <1>2 DEF RingInv, TypeOK, Room, Place, Oldest
  <2> QED  BY <1>1, <1>2, <2>1 DEF RingInv, TypeOK, Goes
<1>5. SetUp'
  BY <1>1, <1>2, StaysUp DEF Source
<1>6. Turns' /\ Room'
  <2>1. at'["source"] = "idle" /\ at'["drain"] = at["drain"]
    BY <1>2 DEF Goes, RingInv, TypeOK
  <2>2. Under' \in 0 .. Size - 1
    BY <1>1, <1>3 DEF RingInv, Room
  <2>3. head' = Place(Oldest' + Under')
    <3>1. Oldest \in 0 .. Size - 1 /\ Under \in 0 .. Size - 1
      BY DEF RingInv, TypeOK, Room, Oldest
    <3> HIDE DEF Place
    <3> QED  BY <1>2, <1>3, <3>1
  <2>4. tail' = tail
    BY <1>2
  <2> QED  BY <1>3, <2>1, <2>2, <2>3, <2>4 DEF RingInv, Turns, Room
<1>7. Stored'
  <2>1. mem[head] = word /\ head = Place(Oldest + Under) /\ word = Len(taken) + 1 + Under
    BY <1>1 DEF RingInv, TypeOK, Stored, Room, Under
  <2>2. ASSUME NEW i \in 0 .. Size - 1, i < Under'
        PROVE  mem[Place(Oldest + i)] = Len(taken) + 1 + i
    <3>1. CASE i < Under  BY <3>1 DEF RingInv, Stored
    <3>2. CASE i = Under  BY <3>2, <2>1
    <3> QED  BY <1>3, <2>2, <3>1, <3>2 DEF RingInv, Room
  <2>3. at'["source"] = "idle" /\ at'["drain"] = at["drain"]
    BY <1>2 DEF Goes, RingInv, TypeOK
  <2> QED  BY <1>2, <1>3, <2>2, <2>3 DEF RingInv, Stored, Place
<1> QED  BY <1>1, <1>2, <1>3, <1>4, <1>5, <1>6, <1>7 DEF RingInv, TypeOK

-----------------------------------------------------------------------------
(* Steps of the drain that take nothing.                                   *)
LEMMA DrainQuietKeeps ==
  ASSUME RingInv, NotEmpty \/ TailReads \/ PopWraps
  PROVE  RingInv' /\ UNCHANGED <<head, mem, word, taken>> /\ Oldest' = Oldest
<1> USE RingAssumption DEF Sides
<1>1. CASE NotEmpty
  <2>1. UNCHANGED <<head, tail, mem, word, taken, seen, magic>> /\ Goes("drain", "read")
    BY <1>1 DEF NotEmpty
  <2>2. Under' = Under /\ Oldest' = Oldest
    BY <2>1 DEF Under, Oldest
  <2>3. at["drain"] = "idle" /\ tail # Size /\ Under >= 1
    BY <1>1 DEF NotEmpty, RingInv, TypeOK, Room, Place, Oldest
  <2>4. TypeOK'  BY <2>1, <2>3 DEF RingInv, TypeOK, Goes
  <2>5. SetUp'  BY <1>1, <2>1, <2>3, StaysUp DEF Drain
  <2>6. Turns' /\ Room'
    BY <2>1, <2>2, <2>3 DEF RingInv, TypeOK, Turns, Room, Place, Goes
  <2>7. Stored'
    BY <2>1, <2>2 DEF RingInv, TypeOK, Stored, Place, Goes
  <2> QED  BY <2>1, <2>2, <2>4, <2>5, <2>6, <2>7 DEF RingInv
<1>2. CASE TailReads
  <2>1. /\ UNCHANGED <<head, tail, mem, word, taken, magic>> /\ Goes("drain", "test")
        /\ seen' = mem[tail] /\ at["drain"] = "read"
    BY <1>2 DEF TailReads
  <2>2. Under' = Under /\ Oldest' = Oldest
    BY <2>1 DEF Under, Oldest
  <2>3. Under >= 1 /\ tail # Size /\ Place(Oldest + 0) = tail
    BY <2>1 DEF RingInv, TypeOK, Room, Place, Oldest
  <2>4. seen' = Len(taken) + 1
    <3>1. 0 \in 0 .. Size - 1 /\ 0 < Under
      BY <2>3 DEF RingInv, Room
    <3>2. mem[Place(Oldest + 0)] = Len(taken) + 1 + 0
      BY <3>1 DEF RingInv, Stored
    <3> QED  BY <2>1, <2>3, <3>2 DEF RingInv, TypeOK
  <2>5. TypeOK'
    <3>1. mem[tail] \in 0 .. MaxWords
      BY <2>3 DEF RingInv, TypeOK
    <3> QED  BY <2>1, <2>3, <3>1 DEF RingInv, TypeOK, Goes
  <2>6. SetUp'  BY <1>2, <2>1, StaysUp DEF Drain
  <2>7. Turns' /\ Room'
    BY <2>1, <2>2, <2>3 DEF RingInv, TypeOK, Turns, Room, Place, Goes
  <2>8. Stored'
    BY <2>1, <2>2, <2>4 DEF RingInv, TypeOK, Stored, Place, Goes
  <2> QED  BY <2>1, <2>2, <2>5, <2>6, <2>7, <2>8 DEF RingInv
<1>3. CASE PopWraps
  <2>1. /\ UNCHANGED <<head, mem, word, taken, seen, magic>> /\ Goes("drain", "idle")
        /\ tail' = 0 /\ at["drain"] = "wrap" /\ tail = Size
    BY <1>3 DEF PopWraps, RingInv, Room
  <2>2. Under' = Under /\ Oldest' = Oldest
    BY <2>1 DEF Under, Oldest
  <2>3. TypeOK'  BY <2>1 DEF RingInv, TypeOK, Goes
  <2>4. SetUp'  BY <1>3, <2>1, StaysUp DEF Drain
  <2>5. Turns' /\ Room'
    BY <2>1, <2>2 DEF RingInv, TypeOK, Turns, Room, Place, Goes
  <2>6. Stored'
    BY <2>1, <2>2 DEF RingInv, TypeOK, Stored, Place, Goes
  <2> QED  BY <2>1, <2>2, <2>3, <2>4, <2>5, <2>6 DEF RingInv
<1> QED  BY <1>1, <1>2, <1>3

LEMMA PopKeeps ==
  ASSUME RingInv, PopAdvances
  PROVE  /\ RingInv' /\ Under >= 1 /\ Under' = Under - 1
         /\ taken' = Append(taken, Len(taken) + 1)
<1> USE RingAssumption DEF Sides
<1>1. at["drain"] = "test" /\ Under >= 1 /\ tail # Size /\ tail # head
  BY DEF PopAdvances, RingInv, TypeOK, Room, Place, Oldest
<1>2. /\ UNCHANGED <<head, mem, word, seen, magic>> /\ tail' = tail + 1
      /\ Goes("drain", IF tail' >= Size THEN "wrap" ELSE "idle")
      /\ taken' = Append(taken, Len(taken) + 1)
  BY <1>1 DEF PopAdvances, RingInv, Stored
<1>3. /\ Len(taken') = Len(taken) + 1 /\ taken' \in Seq(0 .. MaxWords)
      /\ Under' = Under - 1
  <2>1. Len(taken) \in Nat /\ Len(taken) + 1 \in 0 .. MaxWords
    BY <1>1 DEF RingInv, TypeOK, Under
  <2> QED  BY <1>2, <2>1 DEF RingInv, TypeOK, Under
<1>4. Oldest' = Place(Oldest + 1) /\ Oldest \in 0 .. Size - 1 /\ Under \in 0 .. Size - 1
  BY <1>1, <1>2 DEF Oldest, Place, RingInv, TypeOK, Room
<1>5. TypeOK'  BY <1>1, <1>2, <1>3 DEF RingInv, TypeOK, Goes
<1>6. SetUp'
  <2>1. Goes("drain", "wrap") \/ Goes("drain", "idle")
    BY <1>2
  <2> QED  BY <1>1, <1>2, <2>1, StaysUp DEF Drain
<1>7. Turns'
  BY <1>2 DEF RingInv, TypeOK, Turns, Goes
<1>8. Room'
  <2>1. head = Place(Oldest' + Under')
    <3>1. head = Place(Oldest + Under)
      BY DEF RingInv, Room
    <3> QED  BY <1>1, <1>3, <1>4, <3>1 DEF Place
  <2>2. at'["drain"] = "wrap" <=> tail' = Size
    BY <1>1, <1>2 DEF RingInv, TypeOK, Goes
  <2>3. at'["source"] = at["source"] /\ at'["drain"] \in {"wrap", "idle"}
    BY <1>2 DEF RingInv, TypeOK, Goes
  <2>4. Under' \in 0 .. Size - 1
    BY <1>1, <1>3, <1>4
  <2>5. /\ at["source"] \in {"test", "store", "publish"} =>
              Under' <= Size - 2 /\ word' <= MaxWords
        /\ head' = head
    BY <1>2, <1>3, <1>4 DEF RingInv, Room
  <2> QED  BY <2>1, <2>2, <2>3, <2>4, <2>5 DEF Room
<1>9. Stored'
  <2>1. at'["source"] = at["source"] /\ at'["drain"] \in {"wrap", "idle"}
    BY <1>2 DEF RingInv, TypeOK, Goes
  <2>2. ASSUME NEW i \in 0 .. Size - 1, i < Under'
        PROVE  mem[Place(Oldest' + i)] = Len(taken) + 1 + 1 + i
    <3>1. i + 1 \in 0 .. Size - 1 /\ i + 1 < Under
      BY <1>3, <2>2 DEF RingInv, Room
    <3>2. Place(Oldest' + i) = Place(Oldest + (i + 1))
      BY <1>4, <3>1 DEF Place
    <3>3. mem[Place(Oldest + (i + 1))] = Len(taken) + 1 + (i + 1)
      BY <3>1 DEF RingInv, Stored
    <3> QED  BY <3>2, <3>3 DEF RingInv, TypeOK
  <2> QED  BY <1>2, <1>3, <2>1, <2>2 DEF RingInv, Stored, Place
<1> QED  BY <1>1, <1>2, <1>3, <1>5, <1>6, <1>7, <1>8, <1>9 DEF RingInv

LEMMA RingInvNext ==
  ASSUME Window <= Size - 1, RingInv, [Next]_vars
  PROVE  RingInv'
<1>1. CASE UNCHANGED vars
  <2>1. Under' = Under /\ Oldest' = Oldest /\ (Setting <=> Setting')
    BY <1>1 DEF vars, Under, Oldest, Setting
  <2>2. TypeOK' /\ SetUp' /\ Turns'
    BY <1>1, <2>1 DEF vars, RingInv, TypeOK, SetUp, Turns
  <2>3. Room' /\ Stored'
    BY <1>1, <2>1 DEF vars, RingInv, Room, Stored, Place
  <2> QED  BY <2>2, <2>3 DEF RingInv
<1>2. CASE \E s \in Sides : Construct(s)
  BY <1>2, ConstructKeeps
<1>3. CASE Source
  BY <1>3, SourceQuietKeeps, PublishKeeps DEF Source
<1>4. CASE Drain
  BY <1>4, DrainQuietKeeps, PopKeeps DEF Drain
<1> QED
  BY <1>1, <1>2, <1>3, <1>4 DEF Next

LEMMA RingInvHolds ==
  ASSUME Window <= Size - 1
  PROVE  Spec => []RingInv
<1>1. RingInv /\ [Next]_vars => RingInv'
  BY RingInvNext
<1> QED
  BY <1>1, RingInvInit, PTL DEF Spec

(* Neither side leaves the ring: the index that is past its end for a      *)
(* moment is never used to read, and the source never writes there.        *)
THEOREM RingTypeCorrect ==
  ASSUME Window <= Size - 1
  PROVE  Spec => []TypeOK
<1>1. RingInv => TypeOK
  BY DEF RingInv
<1> QED
  BY <1>1, RingInvHolds, PTL

-----------------------------------------------------------------------------
(* The words in the ring, as a FIFO sees them.                             *)
Run(first, n) == [i \in 1 .. n |-> first + i]

LEMMA Modulo ==
  ASSUME NEW a \in Int
  PROVE  /\ a \in 0 .. Size - 1 => a % Size = a
         /\ a \in Size .. 2 * Size - 1 => a % Size = a - Size
         /\ a \in -Size .. -1 => a % Size = a + Size
<1> USE RingAssumption
<1>1. a \in 0 .. Size - 1 => a % Size = a
  OBVIOUS
<1>2. a \in Size .. 2 * Size - 1 => a % Size = a - Size
  OBVIOUS
<1>3. a \in -Size .. -1 => a % Size = a + Size
  OBVIOUS
<1> QED  BY <1>1, <1>2, <1>3

LEMMA ContentsRun ==
  ASSUME RingInv
  PROVE  Contents = Run(Len(taken), Under)
<1> USE RingAssumption
<1>1. /\ Oldest \in 0 .. Size - 1 /\ Under \in 0 .. Size - 1 /\ head = Place(Oldest + Under)
      /\ tail \in 0 .. Size /\ Len(taken) \in Nat
  BY DEF RingInv, TypeOK, Room, Oldest
<1>2. tail % Size = Oldest
  <2>1. Size \in Size .. 2 * Size - 1 => Size % Size = 0
    BY Modulo
  <2>2. tail \in 0 .. Size - 1 => tail % Size = tail
    BY <1>1, Modulo
  <2> QED  BY <1>1, <2>1, <2>2 DEF Oldest
<1>3. (head - Oldest) % Size = Under
  <2>1. head - Oldest = Under \/ head - Oldest = Under - Size
    BY <1>1 DEF Place
  <2>2. Under % Size = Under
    BY <1>1, Modulo
  <2>3. Under - Size \in -Size .. -1 /\ Under - Size \in Int
    BY <1>1
  <2>4. (Under - Size) % Size = (Under - Size) + Size
    BY <2>3, Modulo
  <2> QED  BY <1>1, <2>1, <2>2, <2>4
<1>4. ASSUME NEW i \in 1 .. Under
      PROVE  mem[(Oldest + i - 1) % Size] = Len(taken) + i
  <2>1. Oldest + i - 1 \in 0 .. 2 * Size - 1 /\ Oldest + i - 1 \in Int
        /\ i - 1 \in 0 .. Size - 1 /\ i - 1 < Under
    BY <1>1
  <2>2. (Oldest + i - 1) % Size = Place(Oldest + (i - 1))
    BY <1>1, <2>1, Modulo DEF Place
  <2>3. mem[Place(Oldest + (i - 1))] = Len(taken) + 1 + (i - 1)
    BY <2>1 DEF RingInv, Stored
  <2> QED  BY <1>1, <2>2, <2>3
<1>5. Contents = [i \in 1 .. Under |-> mem[(Oldest + i - 1) % Size]]
  BY <1>2, <1>3 DEF Contents
<1> QED  BY <1>4, <1>5 DEF Run

(* After a step, too.                                                      *)
LEMMA ContentsRunNext == RingInv' => (Contents = Run(Len(taken), Under))'
<1>1. RingInv => Contents = Run(Len(taken), Under)
  BY ContentsRun
<1> QED  BY <1>1, PTL

LEMMA RunSeq ==
  ASSUME NEW c \in Nat, NEW n \in Nat
  PROVE  /\ Run(c, n) \in Seq(Nat) /\ Len(Run(c, n)) = n
         /\ Append(Run(c, n), c + n + 1) = Run(c, n + 1)
         /\ n >= 1 => /\ Run(c, n) # <<>> /\ Head(Run(c, n)) = c + 1
                      /\ Tail(Run(c, n)) = Run(c + 1, n - 1)
<1> USE DEF Run
<1>1. Run(c, n) \in Seq(Nat) /\ Len(Run(c, n)) = n
  OBVIOUS
<1>2. Append(Run(c, n), c + n + 1) = Run(c, n + 1)
  BY <1>1
<1>3. n >= 1 => Run(c, n) # <<>> /\ Head(Run(c, n)) = c + 1
  BY <1>1
<1>4. n >= 1 => Tail(Run(c, n)) = Run(c + 1, n - 1)
  BY <1>1
<1> QED  BY <1>1, <1>2, <1>3, <1>4

(* While the source keeps its words within the ring, every step of either  *)
(* side, access by access, is a step of the FIFO or none: for every size,  *)
(* every number of words and whichever side starts first.                  *)
THEOREM RingImplements ==
  ASSUME Window <= Size - 1
  PROVE  Spec => RingIsQueue
<1>1. Init => Queue!QueueInit
  <2> SUFFICES ASSUME Init PROVE Contents = <<>> /\ taken = <<>>
    BY DEF Queue!QueueInit
  <2>1. taken = <<>> /\ word = 1
    BY DEF Init
  <2>2. Len(<<>>) = 0
    OBVIOUS
  <2>3. Contents = Run(0, 0)
    BY <2>1, <2>2, RingInvInit, ContentsRun DEF Under
  <2> QED  BY <2>1, <2>3 DEF Run
<1>2. RingInv /\ RingInv' /\ [Next]_vars => [Queue!QueueNext]_<<Contents, taken>>
  <2> SUFFICES ASSUME RingInv, RingInv', [Next]_vars
               PROVE  [Queue!QueueNext]_<<Contents, taken>>
    OBVIOUS
  <2>1. Contents = Run(Len(taken), Under) /\ Contents' = Run(Len(taken'), Under')
    <3>1. Contents = Run(Len(taken), Under)
      BY ContentsRun
    <3>2. (Contents = Run(Len(taken), Under))'
      BY ContentsRunNext
    <3> QED  BY <3>1, <3>2 DEF Run
  <2>2. Len(taken) \in Nat /\ Under \in 0 .. Size - 1 /\ Under \in Nat
    BY RingAssumption DEF RingInv, TypeOK, Room
  <2>3. CASE PushPublishes
    <3>1. /\ Under <= Size - 2 /\ Under' = Under + 1 /\ word \in 1 .. MaxWords
          /\ taken' = taken /\ word = Len(taken) + Under + 1
      BY <2>2, <2>3, PublishKeeps, SMTT(40) DEF Under, RingInv, TypeOK
    <3>2. Len(Contents) < Size - 1 /\ Contents' = Append(Contents, word)
      <4>1. /\ Len(Run(Len(taken), Under)) = Under
            /\ Append(Run(Len(taken), Under), Len(taken) + Under + 1) = Run(Len(taken), Under + 1)
        BY <2>2, RunSeq
      <4>2. Under < Size - 1
        BY <2>2, <3>1, RingAssumption
      <4> HIDE DEF Run, Under, Contents
      <4> QED  BY <2>1, <3>1, <4>1, <4>2
    <3>3. Queue!Put(word)
      BY <3>1, <3>2 DEF Queue!Put
    <3> QED  BY <3>1, <3>3 DEF Queue!QueueNext
  <2>4. CASE PopAdvances
    <3>1. /\ Under >= 1 /\ Under' = Under - 1 /\ Len(taken') = Len(taken) + 1
          /\ taken' = Append(taken, Len(taken) + 1)
      BY <2>4, PopKeeps, SMTT(40) DEF RingInv, TypeOK
    <3>2. /\ Contents # <<>> /\ Head(Contents) = Len(taken) + 1
          /\ Contents' = Tail(Contents)
      BY <2>1, <2>2, <3>1, RunSeq, ZenonT(60)
    <3>3. Queue!Take
      BY <3>1, <3>2 DEF Queue!Take
    <3> QED  BY <3>3 DEF Queue!QueueNext
  <2>5. CASE ~PushPublishes /\ ~PopAdvances
    <3>1. UNCHANGED <<word, taken>>
      BY <2>5, ConstructKeeps, SourceQuietKeeps, DrainQuietKeeps DEF Next, Source, Drain, vars
    <3>2. Under' = Under
      BY <3>1 DEF Under
    <3> QED  BY <2>1, <3>1, <3>2
  <2> QED  BY <2>3, <2>4, <2>5
<1> QED
  BY <1>1, <1>2, RingInvHolds, PTL DEF Spec, RingIsQueue, Queue!QueueSpec

-----------------------------------------------------------------------------
(* A queue takes a state a to a state b, one entry after the other, by     *)
(* moves <<state, entry, state>> of M.                                     *)
Path(S, q, a, b, M) ==
  \E st \in [0 .. Len(q) -> S] :
    /\ st[0] = a /\ st[Len(q)] = b
    /\ \A k \in 1 .. Len(q) : <<st[k - 1], q[k], st[k]>> \in M

(* A set of numbers has a least one: what an induction over the entries of *)
(* a queue rests on.                                                       *)
LEMMA LeastOf ==
  ASSUME NEW T, T \subseteq Nat, T # {}
  PROVE  \E x \in T : \A y \in T : x <= y
<1> DEFINE R == OpToRel(<, Nat)
<1>1. IsWellFoundedOn(R, Nat)
  BY NatLessThanWellFounded
<1>2. \A x, y \in Nat : <<x, y>> \in R <=> x < y
  BY DEF OpToRel
<1> HIDE DEF R
<1>3. PICK x \in T : \A y \in T : ~(<<y, x>> \in R)
  BY <1>1, WFMin
<1>4. \A y \in T : ~(y < x)
  BY <1>2, <1>3
<1> QED  BY <1>4

(* Paths.                                                                  *)
(* An empty queue leaves the state as it is.                               *)
LEMMA PathEmpty ==
  ASSUME NEW S, NEW a \in S, NEW M
  PROVE  Path(S, <<>>, a, a, M)
<1> DEFINE st == [k \in 0 .. 0 |-> a]
<1>1. Len(<<>>) = 0 /\ st \in [0 .. 0 -> S] /\ st[0] = a
  OBVIOUS
<1> HIDE DEF st
<1> QED  BY <1>1 DEF Path

(* A path begins and ends in its states.                                   *)
LEMMA PathEnds ==
  ASSUME NEW S, NEW U, NEW q \in Seq(U), NEW a, NEW b, NEW M, Path(S, q, a, b, M)
  PROVE  a \in S /\ b \in S /\ (q = <<>> => a = b)
<1>1. Len(q) \in Nat /\ (q = <<>> => Len(q) = 0)
  OBVIOUS
<1> QED  BY <1>1 DEF Path

(* An entry put in makes one more move at the end.                         *)
LEMMA PathAppend ==
  ASSUME NEW S, NEW U, NEW q \in Seq(U), NEW e \in U, NEW a, NEW b, NEW c \in S, NEW M,
         Path(S, q, a, b, M), <<b, e, c>> \in M
  PROVE  Path(S, Append(q, e), a, c, M)
<1> DEFINE r == Append(q, e)
<1>1. /\ Len(q) \in Nat /\ Len(r) = Len(q) + 1 /\ r[Len(q) + 1] = e
      /\ \A k \in 1 .. Len(q) : r[k] = q[k]
  OBVIOUS
<1>2. PICK st \in [0 .. Len(q) -> S] :
        /\ st[0] = a /\ st[Len(q)] = b
        /\ \A k \in 1 .. Len(q) : <<st[k - 1], q[k], st[k]>> \in M
  BY DEF Path
<1> DEFINE more == [k \in 0 .. Len(q) + 1 |-> IF k <= Len(q) THEN st[k] ELSE c]
<1> HIDE DEF r
<1>3. /\ more \in [0 .. Len(r) -> S] /\ more[0] = a /\ more[Len(r)] = c
      /\ \A k \in 0 .. Len(q) : more[k] = st[k]
  BY <1>1, <1>2
<1> HIDE DEF more
<1>4. ASSUME NEW k \in 1 .. Len(r)
      PROVE  <<more[k - 1], r[k], more[k]>> \in M
  <2>1. CASE k = Len(q) + 1
    <3>1. r[k] = e /\ more[k] = c /\ more[k - 1] = b
      BY <1>1, <1>2, <1>3, <2>1, SMTT(40)
    <3> QED  BY <3>1
  <2>2. CASE k \in 1 .. Len(q)
    <3>1. r[k] = q[k] /\ more[k] = st[k] /\ more[k - 1] = st[k - 1]
      BY <1>1, <1>3, <2>2
    <3> QED  BY <1>2, <2>2, <3>1
  <2> QED  BY <1>1, <2>1, <2>2
<1>5. Path(S, r, a, c, M)
  BY <1>3, <1>4 DEF Path
<1> QED  BY <1>5 DEF r

(* Taking the first entry out makes the first move.                        *)
LEMMA PathTail ==
  ASSUME NEW S, NEW U, NEW q \in Seq(U), q # <<>>, NEW a, NEW b, NEW M, Path(S, q, a, b, M)
  PROVE  \E c \in S : <<a, Head(q), c>> \in M /\ Path(S, Tail(q), c, b, M)
<1> DEFINE r == Tail(q)
<1>1. /\ Len(q) \in Nat \ {0} /\ Len(r) = Len(q) - 1 /\ Head(q) = q[1]
      /\ \A k \in 1 .. Len(r) : r[k] = q[k + 1]
  OBVIOUS
<1>2. PICK st \in [0 .. Len(q) -> S] :
        /\ st[0] = a /\ st[Len(q)] = b
        /\ \A k \in 1 .. Len(q) : <<st[k - 1], q[k], st[k]>> \in M
  BY DEF Path
<1> DEFINE rest == [k \in 0 .. Len(q) - 1 |-> st[k + 1]]
<1> HIDE DEF r
<1>3. /\ rest \in [0 .. Len(r) -> S] /\ rest[0] = st[1] /\ rest[Len(r)] = b
      /\ \A k \in 0 .. Len(r) : rest[k] = st[k + 1]
  BY <1>1, <1>2
<1> HIDE DEF rest
<1>4. ASSUME NEW k \in 1 .. Len(r)
      PROVE  <<rest[k - 1], r[k], rest[k]>> \in M
  <2>1. /\ r[k] = q[k + 1] /\ rest[k] = st[k + 1] /\ rest[k - 1] = st[(k + 1) - 1]
        /\ k + 1 \in 1 .. Len(q)
    BY <1>1, <1>3
  <2>2. <<st[(k + 1) - 1], q[k + 1], st[k + 1]>> \in M
    BY <1>2, <2>1
  <2> QED  BY <2>1, <2>2
<1>5. Path(S, r, st[1], b, M)
  BY <1>3, <1>4 DEF Path
<1>6. st[1] \in S /\ <<a, Head(q), st[1]>> \in M
  <2>1. 1 \in 1 .. Len(q) /\ 1 - 1 = 0
    BY <1>1
  <2>2. <<st[1 - 1], q[1], st[1]>> \in M
    BY <1>2, <2>1
  <2> QED  BY <1>1, <1>2, <2>1, <2>2
<1> QED  BY <1>5, <1>6 DEF r

(* A queue after an entry is put in, or taken out.                         *)
LEMMA PutIn ==
  ASSUME NEW S, NEW s \in Seq(S), NEW x \in S
  PROVE  /\ Append(s, x) \in Seq(S) /\ Len(Append(s, x)) = Len(s) + 1 /\ Len(s) \in Nat
         /\ \A k \in 1 .. Len(s) : Append(s, x)[k] = s[k] /\ s[k] \in S
         /\ Append(s, x)[Len(s) + 1] = x
<1>1. \A k \in 1 .. Len(s) : s[k] \in S
  BY ElementOfSeq
<1> QED  BY <1>1, AppendProperties, LenProperties

LEMMA TakenOut ==
  ASSUME NEW S, NEW s \in Seq(S), s # <<>>
  PROVE  /\ Tail(s) \in Seq(S) /\ Len(Tail(s)) = Len(s) - 1 /\ Len(s) \in Nat \ {0}
         /\ \A k \in 1 .. Len(s) - 1 : Tail(s)[k] = s[k + 1]
         /\ Head(s) = s[1] /\ s[1] \in S
<1>1. Len(s) \in Nat /\ Len(s) # 0
  BY LenProperties, EmptySeq
<1>2. s[1] \in S
  BY <1>1, ElementOfSeq
<1> QED  BY <1>1, <1>2, HeadTailProperties

(* Numbers.                                                                *)
LEMMA Times ==
  ASSUME NEW n \in Nat \ {0}, NEW p \in Int, NEW q \in Int
  PROVE  /\ n * p \in Int /\ n * (p - q) = n * p - n * q /\ n * (p + q) = n * p + n * q
         /\ (p > q => n * p - n * q >= n)
<1>1. /\ n * p \in Int /\ n * (p - q) = n * p - n * q /\ n * (p + q) = n * p + n * q
  OBVIOUS
<1>2. ASSUME p > q PROVE n * p - n * q >= n
  <2>1. ASSUME NEW d \in Nat PROVE n * (d + 1) >= n
    OBVIOUS
  <2>2. (p - q) - 1 \in Nat
    BY <1>2
  <2>3. n * (((p - q) - 1) + 1) >= n
    BY <2>1, <2>2
  <2>4. ((p - q) - 1) + 1 = p - q
    OBVIOUS
  <2> QED BY <1>1, <2>3, <2>4
<1> QED BY <1>1, <1>2

(* A remainder is what is left of a multiple.                              *)
LEMMA Rest ==
  ASSUME NEW n \in Nat \ {0}, NEW a \in Int
  PROVE  a % n \in 0 .. n - 1 /\ a \div n \in Int /\ a = n * (a \div n) + (a % n)
OBVIOUS

(* A number has one remainder.                                             *)
LEMMA OneRest ==
  ASSUME NEW n \in Nat \ {0}, NEW q \in Int, NEW r \in 0 .. n - 1
  PROVE  (n * q + r) % n = r
<1> DEFINE a == n * q + r
<1>1. a \in Int /\ n * q \in Int
  BY Times
<1>2. a % n \in 0 .. n - 1 /\ a \div n \in Int /\ a = n * (a \div n) + (a % n)
  BY <1>1, Rest
<1>3. PICK p : p = a \div n
  OBVIOUS
<1>4. PICK m : m = a % n
  OBVIOUS
<1>5. m \in 0 .. n - 1 /\ p \in Int /\ n * q + r = n * p + m
  BY <1>2, <1>3, <1>4
<1>6. n * p \in Int /\ (p > q => n * p - n * q >= n) /\ (q > p => n * q - n * p >= n)
  BY <1>5, Times
<1>7. p = q
  BY <1>1, <1>5, <1>6
<1> QED  BY <1>1, <1>4, <1>5, <1>7

-----------------------------------------------------------------------------
(* The tree of MergeN: items of a source stay in order, for any number of  *)
(* sources and any depth of the queues.                                    *)
Item == [src : SourceIds, no : 0 .. NoMod - 1]
Nos  == 0 .. NoMod - 1
Input(h) == inQ[Into(h).node][Into(h).side]     \* what number h of the heap puts into

(* An item of Watched has the number that is due and makes the next one    *)
(* due; the others do not count.                                           *)
Counts ==
  {m \in Nos \X Item \X Nos :
     IF m[2].src = Watched THEN m[2].no = m[1] /\ m[3] = (m[1] + 1) % NoMod ELSE m[3] = m[1]}
OthersOnly(q) == \A k \in 1 .. Len(q) : q[k].src # Watched

(* The way of Watched: P[0] is the source, P[d] the root.                  *)
Way(P, d, n) ==
  /\ P \in [0 .. d -> Nat \ {0}] /\ P[0] = n /\ P[d] = 1
  /\ \A i \in 0 .. d - 1 : P[i] > 1 /\ P[i + 1] = P[i] \div 2
  /\ \A i, j \in 0 .. d : i < j => P[j] < P[i]

MergeTypes ==
  /\ inQ \in [Nodes -> [0 .. 1 -> Seq(Item)]] /\ outQ \in [Nodes -> Seq(Item)]
  /\ prio \in [Nodes -> 0 .. 1] /\ put \in Nos /\ got \in Nos

(* On the way the queues lead from got to put: node P[i] puts out m[i]     *)
(* next and takes c[i] in next.  Elsewhere there is nothing of Watched.    *)
OnTheWayIn(P, d, c, m) ==
  /\ c \in [1 .. d -> Nos] /\ m \in [0 .. d -> Nos] /\ m[0] = put /\ m[d] = got
  /\ \A i \in 1 .. d : Path(Nos, outQ[P[i]], m[i], c[i], Counts)
  /\ \A i \in 1 .. d : Path(Nos, Input(P[i - 1]), c[i], m[i - 1], Counts)
Elsewhere(P, d) ==
  /\ \A k \in Nodes : (\A i \in 1 .. d : P[i] # k) => OthersOnly(outQ[k])
  /\ \A h \in 2 .. 2 * Sources - 1 : (\A i \in 0 .. d - 1 : P[i] # h) => OthersOnly(Input(h))
WayInv(P, d) == Elsewhere(P, d) /\ \E c, m : OnTheWayIn(P, d, c, m)

MergeInv ==
  MergeTypes /\ \E d \in Nat : \E P : Way(P, d, Watched + Sources) /\ WayInv(P, d)

-----------------------------------------------------------------------------
(* Every number of a heap has a way to the root.                           *)
LEMMA WayUp == \A n \in Nat \ {0} : \E d \in Nat : \E P : Way(P, d, n)
<1> DEFINE T == {n \in Nat \ {0} : ~ \E d \in Nat : \E P : Way(P, d, n)}
<1> SUFFICES ASSUME T # {} PROVE FALSE
  OBVIOUS
<1>1. T \subseteq Nat
  OBVIOUS
<1>2. PICK n \in T : \A y \in T : n <= y
  BY <1>1, LeastOf
<1>3. CASE n = 1
  <2> DEFINE P == [i \in 0 .. 0 |-> 1]
  <2>1. P \in [0 .. 0 -> Nat \ {0}] /\ P[0] = 1
    OBVIOUS
  <2> HIDE DEF P
  <2>2. Way(P, 0, n)
    BY <1>3, <2>1 DEF Way
  <2> QED  BY <1>2, <2>2
<1>4. CASE n # 1
  <2>1. n \in Nat \ {0} /\ n > 1
    BY <1>2, <1>4
  <2>2. PICK h : h = n \div 2
    OBVIOUS
  <2>3. h \in Nat \ {0} /\ h < n
    BY <2>1, <2>2
  <2>4. PICK d \in Nat : \E Q : Way(Q, d, h)
    BY <1>2, <2>3
  <2>5. PICK Q : Way(Q, d, h)
    BY <2>4
  <2> DEFINE P == [i \in 0 .. d + 1 |-> IF i = 0 THEN n ELSE Q[i - 1]]
  <2>6. Q \in [0 .. d -> Nat \ {0}] /\ Q[0] = h /\ Q[d] = 1
    BY <2>5 DEF Way
  <2>7. P[0] = n /\ \A i \in 0 .. d : P[i + 1] = Q[i]
    BY <2>1, <2>6
  <2>8. P \in [0 .. d + 1 -> Nat \ {0}]
    <3>1. \A i \in 0 .. d + 1 : (IF i = 0 THEN n ELSE Q[i - 1]) \in Nat \ {0}
      <4> TAKE i \in 0 .. d + 1
      <4>1. i # 0 => i - 1 \in 0 .. d
        OBVIOUS
      <4> QED  BY <2>1, <2>6, <4>1
    <3> QED  BY <3>1
  <2> HIDE DEF P
  <2>9. \A i \in 0 .. d + 1 : i = 0 \/ \E j \in 0 .. d : i = j + 1
    <3> TAKE i \in 0 .. d + 1
    <3>1. i # 0 => i - 1 \in 0 .. d /\ i = (i - 1) + 1
      OBVIOUS
    <3> QED  BY <3>1
  <2>10. \A i \in 0 .. d : Q[i] < n
    <3> TAKE i \in 0 .. d
    <3>1. i > 0 => Q[i] < Q[0]
      BY <2>5 DEF Way
    <3>2. Q[i] \in Nat
      BY <2>6
    <3> QED  BY <2>1, <2>3, <2>6, <3>1, <3>2
  <2>11. \A i \in 0 .. (d + 1) - 1 : P[i] > 1 /\ P[i + 1] = P[i] \div 2
    <3> TAKE i \in 0 .. (d + 1) - 1
    <3>1. CASE i = 0
      <4>1. P[0 + 1] = Q[0]
        BY <2>7
      <4> QED  BY <2>1, <2>2, <2>6, <2>7, <3>1, <4>1
    <3>2. CASE i # 0
      <4>1. PICK j \in 0 .. d - 1 : i = j + 1
        <5>1. i - 1 \in 0 .. d - 1 /\ i = (i - 1) + 1
          BY <3>2
        <5> QED  BY <5>1
      <4>2. Q[j] > 1 /\ Q[j + 1] = Q[j] \div 2
        BY <2>5 DEF Way
      <4>3. P[j + 1] = Q[j] /\ P[(j + 1) + 1] = Q[j + 1]
        <5>1. j \in 0 .. d /\ j + 1 \in 0 .. d
          BY <4>1
        <5> QED  BY <2>7, <5>1
      <4> QED  BY <4>1, <4>2, <4>3
    <3> QED  BY <3>1, <3>2
  <2>12. \A i, j \in 0 .. d + 1 : i < j => P[j] < P[i]
    <3> SUFFICES ASSUME NEW i \in 0 .. d + 1, NEW j \in 0 .. d + 1, i < j PROVE P[j] < P[i]
      OBVIOUS
    <3>1. PICK b \in 0 .. d : j = b + 1
      BY <2>9
    <3>2. CASE i = 0
      BY <2>7, <2>10, <3>1, <3>2
    <3>3. CASE i # 0
      <4>1. PICK a \in 0 .. d : i = a + 1
        BY <2>9, <3>3
      <4>2. a < b
        BY <3>1, <4>1
      <4>3. Q[b] < Q[a]
        BY <2>5, <4>2 DEF Way
      <4> QED  BY <2>7, <3>1, <4>1, <4>3
    <3> QED  BY <3>2, <3>3
  <2>13. P[d + 1] = 1
    BY <2>6, <2>7
  <2>14. Way(P, d + 1, n)
    BY <2>7, <2>8, <2>11, <2>12, <2>13 DEF Way
  <2>15. d + 1 \in Nat
    OBVIOUS
  <2> QED  BY <1>2, <2>14, <2>15
<1> QED  BY <1>3, <1>4

(* Where a way runs: its nodes are those of the tree, and it has every     *)
(* node once.                                                              *)
LEMMA WayNodes ==
  ASSUME NEW d \in Nat, NEW P, Way(P, d, Watched + Sources)
  PROVE  /\ d >= 1
         /\ \A i \in 0 .. d : P[i] \in 1 .. 2 * Sources - 1
         /\ \A i \in 1 .. d : P[i] \in Nodes
         /\ \A i, j \in 0 .. d : P[i] = P[j] => i = j
         /\ \A i \in 1 .. d : Into(P[i - 1]).node = P[i] /\ P[i - 1] \in 2 .. 2 * Sources - 1
         /\ \A i \in 0 .. d : P[i] = 1 => i = d
         /\ \A i \in 0 .. d : P[i] >= Sources => i = 0
<1>1. /\ Sources \in Nat /\ Sources >= 2 /\ Watched \in 0 .. Sources - 1
      /\ Watched + Sources \in Nat
  BY MergeAssumption
<1>2. P[0] = Watched + Sources /\ P[d] = 1 /\ \A i \in 0 .. d : P[i] \in Nat \ {0}
  BY DEF Way
<1>3. \A i, j \in 0 .. d : P[i] = P[j] => i = j
  <2> SUFFICES ASSUME NEW i \in 0 .. d, NEW j \in 0 .. d, P[i] = P[j], i # j PROVE FALSE
    OBVIOUS
  <2>1. P[i] \in Nat /\ P[j] \in Nat /\ (i < j \/ j < i)
    BY <1>2
  <2> QED  BY <2>1 DEF Way
<1>4. d >= 1
  BY <1>1, <1>2
<1>5. ASSUME NEW i \in 1 .. d PROVE P[i] \in Nodes /\ P[i] < Sources
  <2>1. 0 \in 0 .. d - 1 /\ 0 + 1 = 1 /\ 1 \in 0 .. d
    BY <1>4
  <2>2. P[1] = P[0] \div 2
    BY <2>1 DEF Way
  <2>3. P[1] <= Sources - 1
    BY <1>1, <1>2, <2>1, <2>2
  <2>4. i > 1 => P[i] < P[1]
    BY <2>1 DEF Way
  <2>5. P[i] \in Nat \ {0} /\ P[1] \in Nat
    BY <1>2, <2>1
  <2> QED  BY <1>1, <2>3, <2>4, <2>5 DEF Nodes
<1>6. ASSUME NEW i \in 0 .. d PROVE P[i] \in 1 .. 2 * Sources - 1
  <2>1. i = 0 \/ i \in 1 .. d
    OBVIOUS
  <2> QED  BY <1>1, <1>2, <1>5, <2>1 DEF Nodes
<1>7. ASSUME NEW i \in 1 .. d
      PROVE  Into(P[i - 1]).node = P[i] /\ P[i - 1] \in 2 .. 2 * Sources - 1
  <2>1. i - 1 \in 0 .. d - 1 /\ i - 1 \in 0 .. d /\ (i - 1) + 1 = i
    OBVIOUS
  <2>2. P[i - 1] > 1 /\ P[(i - 1) + 1] = P[i - 1] \div 2
    BY <2>1 DEF Way
  <2>3. P[i - 1] \in 1 .. 2 * Sources - 1
    BY <1>6, <2>1
  <2> QED  BY <1>1, <2>1, <2>2, <2>3 DEF Into
<1>8. ASSUME NEW i \in 0 .. d PROVE P[i] = 1 => i = d
  <2>1. d \in 0 .. d
    OBVIOUS
  <2> QED  BY <1>2, <1>3, <2>1
<1>9. ASSUME NEW i \in 0 .. d PROVE P[i] >= Sources => i = 0
  <2>1. i = 0 \/ i \in 1 .. d
    OBVIOUS
  <2>2. P[i] \in Nat
    BY <1>2
  <2> QED  BY <1>1, <1>5, <2>1, <2>2
<1> QED  BY <1>3, <1>4, <1>5, <1>6, <1>7, <1>8, <1>9

(* Numbers of the heap and inputs of nodes are the same.                   *)
LEMMA Inputs ==
  /\ \A h \in 2 .. 2 * Sources - 1 : Into(h).node \in Nodes /\ Into(h).side \in 0 .. 1
  /\ \A g, h \in 2 .. 2 * Sources - 1 :
       Into(g).node = Into(h).node /\ Into(g).side = Into(h).side => g = h
  /\ \A k \in Nodes : \A i \in 0 .. 1 :
       /\ 2 * k + i \in 2 .. 2 * Sources - 1
       /\ Into(2 * k + i).node = k /\ Into(2 * k + i).side = i
<1>1. Sources \in Nat /\ Sources >= 2
  BY MergeAssumption
<1>2. \A h \in 2 .. 2 * Sources - 1 : Into(h).node \in Nodes /\ Into(h).side \in 0 .. 1
  BY <1>1 DEF Into, Nodes
<1>3. \A g, h \in 2 .. 2 * Sources - 1 :
        Into(g).node = Into(h).node /\ Into(g).side = Into(h).side => g = h
  BY <1>1 DEF Into
<1>4. ASSUME NEW k \in Nodes, NEW i \in 0 .. 1
      PROVE  /\ 2 * k + i \in 2 .. 2 * Sources - 1
             /\ Into(2 * k + i).node = k /\ Into(2 * k + i).side = i
  <2>1. k \in Nat /\ k >= 1 /\ k <= Sources - 1
    BY <1>1 DEF Nodes
  <2>2. PICK n : n = 2 * k + i
    OBVIOUS
  <2>3. n \in Nat /\ n \div 2 = k /\ n % 2 = i /\ n \in 2 .. 2 * Sources - 1
    BY <1>1, <2>1, <2>2
  <2> QED  BY <2>2, <2>3 DEF Into
<1> QED  BY <1>2, <1>3, <1>4

(* An input changes alone.                                                 *)
LEMMA InputSet ==
  ASSUME MergeTypes, NEW h \in 2 .. 2 * Sources - 1, NEW v \in Seq(Item),
         inQ' = [inQ EXCEPT ![Into(h).node][Into(h).side] = v]
  PROVE  /\ inQ' \in [Nodes -> [0 .. 1 -> Seq(Item)]]
         /\ Input(h)' = v
         /\ \A g \in 2 .. 2 * Sources - 1 : g # h => Input(g)' = Input(g)
<1>1. inQ \in [Nodes -> [0 .. 1 -> Seq(Item)]]
  BY DEF MergeTypes
<1>2. PICK n : n = Into(h).node
  OBVIOUS
<1>3. PICK s : s = Into(h).side
  OBVIOUS
<1>4. n \in Nodes /\ s \in 0 .. 1
  BY <1>2, <1>3, Inputs
<1>5. inQ' = [inQ EXCEPT ![n][s] = v]
  BY <1>2, <1>3
<1>6. ASSUME NEW g \in 2 .. 2 * Sources - 1, g # h PROVE Input(g)' = Input(g)
  <2>1. PICK a : a = Into(g).node
    OBVIOUS
  <2>2. PICK b : b = Into(g).side
    OBVIOUS
  <2>3. a \in Nodes /\ b \in 0 .. 1 /\ (a # n \/ b # s)
    BY <1>2, <1>3, <1>6, <2>1, <2>2, Inputs
  <2>4. inQ'[a][b] = inQ[a][b]
    BY <1>1, <1>4, <1>5, <2>3
  <2> QED  BY <2>1, <2>2, <2>4 DEF Input
<1>7. inQ'[n][s] = v
  BY <1>1, <1>4, <1>5
<1>8. inQ' \in [Nodes -> [0 .. 1 -> Seq(Item)]]
  <2>1. PICK f : f = [inQ[n] EXCEPT ![s] = v]
    OBVIOUS
  <2>2. inQ[n] \in [0 .. 1 -> Seq(Item)]
    BY <1>1, <1>4
  <2>3. f \in [0 .. 1 -> Seq(Item)]
    BY <1>4, <2>1, <2>2
  <2>4. inQ' = [inQ EXCEPT ![n] = f]
    BY <1>5, <2>1
  <2> QED  BY <1>1, <1>4, <2>3, <2>4
<1> QED  BY <1>2, <1>3, <1>6, <1>7, <1>8 DEF Input

LEMMA InputType ==
  ASSUME MergeTypes, NEW h \in 2 .. 2 * Sources - 1
  PROVE  Input(h) \in Seq(Item)
<1>1. Into(h).node \in Nodes /\ Into(h).side \in 0 .. 1
  BY Inputs
<1> QED  BY <1>1 DEF MergeTypes, Input

(* What counts does so in one way, and the rest not at all.                *)
LEMMA CountMoves ==
  ASSUME NEW e \in Item, NEW a \in Nos
  PROVE  /\ e.src # Watched => <<a, e, a>> \in Counts
         /\ e.src = Watched /\ e.no = a => <<a, e, (a + 1) % NoMod>> \in Counts
         /\ \A b : <<a, e, b>> \in Counts =>
              b \in Nos /\ b = (IF e.src = Watched THEN (a + 1) % NoMod ELSE a)
<1>1. (a + 1) % NoMod \in Nos
  BY MergeAssumption DEF Nos
<1> QED  BY <1>1 DEF Counts

LEMMA OthersMove ==
  ASSUME NEW q \in Seq(Item)
  PROVE  /\ \A e \in Item : OthersOnly(q) /\ e.src # Watched => OthersOnly(Append(q, e))
         /\ q # <<>> /\ OthersOnly(q) => OthersOnly(Tail(q)) /\ Head(q).src # Watched
<1>1. ASSUME NEW e \in Item, OthersOnly(q), e.src # Watched PROVE OthersOnly(Append(q, e))
  <2> PICK r : r = Append(q, e)
    OBVIOUS
  <2>1. Len(r) = Len(q) + 1 /\ Len(q) \in Nat /\ r[Len(q) + 1] = e /\ \A k \in 1 .. Len(q) : r[k] = q[k]
    <3>1. r = Append(q, e)
      OBVIOUS
    <3> QED  BY <3>1, PutIn
  <2>2. OthersOnly(r)
    BY <1>1, <2>1 DEF OthersOnly
  <2> QED  BY <2>2
<1>2. ASSUME q # <<>>, OthersOnly(q) PROVE OthersOnly(Tail(q)) /\ Head(q).src # Watched
  <2> PICK r : r = Tail(q)
    OBVIOUS
  <2>1. /\ Len(r) = Len(q) - 1 /\ Len(q) \in Nat \ {0} /\ Head(q) = q[1]
        /\ \A k \in 1 .. Len(q) - 1 : r[k] = q[k + 1]
    <3>1. r = Tail(q)
      OBVIOUS
    <3> QED  BY <1>2, <3>1, TakenOut
  <2>2. OthersOnly(r) /\ Head(q).src # Watched
    BY <1>2, <2>1 DEF OthersOnly
  <2> QED  BY <2>2
<1> QED  BY <1>1, <1>2

(* A source puts an item in.                                               *)
LEMMA EnqKeeps ==
  ASSUME MergeTypes, NEW d \in Nat, NEW P, Way(P, d, Watched + Sources), WayInv(P, d),
         NEW s \in SourceIds, enq(s)
  PROVE  MergeTypes' /\ WayInv(P, d)'
<1>1. PICK c, m : OnTheWayIn(P, d, c, m)
  BY DEF WayInv
<1> PICK h : h = s + Sources
  OBVIOUS
<1>2. /\ h \in 2 .. 2 * Sources - 1 /\ h >= Sources /\ s \in 0 .. Sources - 1
      /\ (h = Watched + Sources <=> s = Watched)
  <2>1. h = s + Sources
    OBVIOUS
  <2> QED  BY <2>1, MergeAssumption DEF SourceIds
<1> PICK e : e = [src |-> s, no |-> IF s = Watched THEN put ELSE 0]
  OBVIOUS
<1>3. e \in Item /\ e.src = s /\ (s = Watched => e.no = put) /\ put \in Nos
  <2>1. 0 \in Nos
    BY MergeAssumption DEF Nos
  <2> QED  BY <2>1 DEF Item, Nos, MergeTypes
<1>4. Input(h) \in Seq(Item) /\ Append(Input(h), e) \in Seq(Item)
  <2>1. Input(h) \in Seq(Item)
    BY <1>2, InputType
  <2> QED  BY <1>3, <2>1, PutIn
<1>5. inQ' = [inQ EXCEPT ![Into(h).node][Into(h).side] = Append(Input(h), e)]
  <2>1. h = s + Sources /\ e = [src |-> s, no |-> IF s = Watched THEN put ELSE 0]
    OBVIOUS
  <2> QED  BY <2>1 DEF enq, putIn, Input
<1>6. /\ inQ' \in [Nodes -> [0 .. 1 -> Seq(Item)]]
      /\ Input(h)' = Append(Input(h), e)
      /\ \A g \in 2 .. 2 * Sources - 1 : g # h => Input(g)' = Input(g)
  BY <1>2, <1>4, <1>5, InputSet
<1>7. /\ put' = (IF s = Watched THEN (put + 1) % NoMod ELSE put) /\ UNCHANGED <<outQ, prio, got>>
      /\ put' \in Nos
  <2>1. (put + 1) % NoMod \in Nos
    BY <1>3, MergeAssumption DEF Nos
  <2> QED  BY <1>3, <2>1 DEF enq
<1>8. MergeTypes'
  BY <1>6, <1>7 DEF MergeTypes
<1>9. P[0] = Watched + Sources /\ 0 \in 0 .. d - 1
  BY WayNodes DEF Way
<1>10. Elsewhere(P, d)'
  <2>1. ASSUME NEW k \in Nodes, \A i \in 1 .. d : P[i] # k PROVE OthersOnly(outQ[k])'
    BY <1>7, <2>1 DEF WayInv, Elsewhere, OthersOnly
  <2>2. ASSUME NEW g \in 2 .. 2 * Sources - 1, \A i \in 0 .. d - 1 : P[i] # g
        PROVE  OthersOnly(Input(g)')
    <3>1. OthersOnly(Input(g))
      BY <2>2 DEF WayInv, Elsewhere
    <3>2. g = h => e.src # Watched
      BY <1>2, <1>3, <1>9, <2>2
    <3>3. g = h => OthersOnly(Append(Input(h), e))
      BY <1>3, <1>4, <3>1, <3>2, OthersMove
    <3> QED  BY <1>6, <3>1, <3>3
  <2> QED  BY <2>1, <2>2 DEF Elsewhere, OthersOnly
<1> PICK n : n = [m EXCEPT ![0] = put']
  OBVIOUS
<1>11. /\ n \in [0 .. d -> Nos] /\ n[0] = put' /\ n[d] = got'
       /\ \A i \in 1 .. d : n[i] = m[i]
  <2>1. m \in [0 .. d -> Nos] /\ m[d] = got /\ d >= 1
    BY <1>1, WayNodes DEF OnTheWayIn
  <2>2. n = [m EXCEPT ![0] = put']
    OBVIOUS
  <2> QED  BY <1>7, <2>1, <2>2
<1>12. ASSUME NEW i \in 1 .. d PROVE Path(Nos, outQ'[P[i]], n[i], c[i], Counts)
  BY <1>1, <1>7, <1>11, <1>12 DEF OnTheWayIn
<1>13. ASSUME NEW i \in 1 .. d PROVE Path(Nos, Input(P[i - 1])', c[i], n[i - 1], Counts)
  <2>1. Path(Nos, Input(P[i - 1]), c[i], m[i - 1], Counts) /\ m[0] = put
    BY <1>1 DEF OnTheWayIn
  <2>2. P[i - 1] \in 2 .. 2 * Sources - 1 /\ (P[i - 1] >= Sources => i - 1 = 0)
    <3>1. i - 1 \in 0 .. d
      OBVIOUS
    <3> QED  BY <3>1, WayNodes
  <2>3. CASE P[i - 1] = h
    <3>1. i - 1 = 0 /\ s = Watched
      BY <1>2, <1>9, <2>2, <2>3
    <3>2. <<put, e, put'>> \in Counts
      BY <1>3, <1>7, <3>1, CountMoves
    <3>3. Path(Nos, Append(Input(h), e), c[i], put', Counts)
      BY <1>3, <1>4, <1>7, <2>1, <2>3, <3>1, <3>2, PathAppend
    <3> QED  BY <1>6, <1>11, <2>3, <3>1, <3>3
  <2>4. CASE P[i - 1] # h
    <3>1. Input(P[i - 1])' = Input(P[i - 1])
      BY <1>6, <2>2, <2>4
    <3>2. n[i - 1] = m[i - 1]
      <4>1. CASE i - 1 = 0
        <5>1. s # Watched
          BY <1>2, <1>9, <2>4, <4>1
        <5> QED  BY <1>7, <1>11, <2>1, <4>1, <5>1
      <4>2. CASE i - 1 # 0
        <5>1. i - 1 \in 1 .. d
          BY <4>2
        <5> QED  BY <1>11, <5>1
      <4> QED  BY <4>1, <4>2
    <3> QED  BY <2>1, <3>1, <3>2
  <2> QED  BY <2>3, <2>4
<1>14. OnTheWayIn(P, d, c, n)'
  <2>1. c \in [1 .. d -> Nos]
    BY <1>1 DEF OnTheWayIn
  <2> QED  BY <1>11, <1>12, <1>13, <2>1 DEF OnTheWayIn
<1> QED  BY <1>8, <1>10, <1>14 DEF WayInv

(* A node moves an item from one of its inputs to its output.              *)
LEMMA MergeKeeps ==
  ASSUME MergeTypes, NEW d \in Nat, NEW P, Way(P, d, Watched + Sources), WayInv(P, d),
         NEW k \in Nodes, merge(k)
  PROVE  MergeTypes' /\ WayInv(P, d)'
<1>1. PICK c, m : OnTheWayIn(P, d, c, m)
  BY DEF WayInv
<1>2. PICK u : u = Turn(k)
  OBVIOUS
<1>3. u \in 0 .. 1 /\ prio' = [prio EXCEPT ![k] = 1 - @] /\ prio' \in [Nodes -> 0 .. 1]
  <2>1. prio \in [Nodes -> 0 .. 1] /\ prio[k] \in {0, 1}
    BY DEF MergeTypes
  <2>2. 1 - prio[k] \in 0 .. 1 /\ prio[k] \in 0 .. 1
    BY <2>1
  <2> QED  BY <1>2, <2>1, <2>2 DEF Turn, merge
<1>4. CASE UNCHANGED <<inQ, outQ>>
  <2>1. UNCHANGED <<put, got>>
    BY DEF merge
  <2>2. MergeTypes'
    BY <1>3, <1>4, <2>1 DEF MergeTypes
  <2>3. \A h : Input(h)' = Input(h)
    BY <1>4 DEF Input
  <2>4. Elsewhere(P, d)'
    BY <1>4, <2>3 DEF WayInv, Elsewhere, OthersOnly
  <2>5. OnTheWayIn(P, d, c, m)'
    BY <1>1, <1>4, <2>1, <2>3 DEF OnTheWayIn
  <2> QED  BY <2>2, <2>4, <2>5 DEF WayInv
<1>5. CASE /\ inQ[k][u] # <<>> /\ outQ' = [outQ EXCEPT ![k] = Append(@, Head(inQ[k][u]))]
           /\ inQ' = [inQ EXCEPT ![k][u] = Tail(@)]
  <2> PICK h : h = 2 * k + u
    OBVIOUS
  <2>1. h \in 2 .. 2 * Sources - 1 /\ Into(h).node = k /\ Into(h).side = u
    <3>1. h = 2 * k + u
      OBVIOUS
    <3>2. 2 * k + u \in 2 .. 2 * Sources - 1 /\ Into(2 * k + u).node = k /\ Into(2 * k + u).side = u
      BY <1>3, Inputs
    <3> QED  BY <3>1, <3>2
  <2>2. Input(h) = inQ[k][u] /\ Input(h) \in Seq(Item)
    BY <2>1, InputType DEF Input
  <2>3. PICK e : e = Head(Input(h))
    OBVIOUS
  <2>4. /\ Tail(Input(h)) \in Seq(Item) /\ e \in Item /\ Input(h) # <<>>
    BY <1>5, <2>2, <2>3, TakenOut
  <2>5. inQ' = [inQ EXCEPT ![Into(h).node][Into(h).side] = Tail(Input(h))]
    BY <1>5, <2>1, <2>2
  <2>6. /\ inQ' \in [Nodes -> [0 .. 1 -> Seq(Item)]]
        /\ Input(h)' = Tail(Input(h))
        /\ \A g \in 2 .. 2 * Sources - 1 : g # h => Input(g)' = Input(g)
    BY <2>1, <2>4, <2>5, InputSet
  <2>7. /\ outQ \in [Nodes -> Seq(Item)] /\ outQ' = [outQ EXCEPT ![k] = Append(outQ[k], e)]
        /\ Append(outQ[k], e) \in Seq(Item) /\ outQ[k] \in Seq(Item)
    <3>1. outQ \in [Nodes -> Seq(Item)] /\ outQ[k] \in Seq(Item)
      BY DEF MergeTypes
    <3> QED  BY <1>5, <2>2, <2>3, <2>4, <3>1, PutIn
  <2>8. /\ outQ' \in [Nodes -> Seq(Item)] /\ outQ'[k] = Append(outQ[k], e)
        /\ \A j \in Nodes : j # k => outQ'[j] = outQ[j]
    BY <2>7
  <2>9. UNCHANGED <<put, got>>
    BY DEF merge
  <2>10. MergeTypes'
    BY <1>3, <2>6, <2>8, <2>9 DEF MergeTypes
  <2>11. (\A i \in 0 .. d - 1 : P[i] # h) => e.src # Watched
    <3>1. (\A i \in 0 .. d - 1 : P[i] # h) => OthersOnly(Input(h))
      BY <2>1 DEF WayInv, Elsewhere
    <3> QED  BY <2>2, <2>3, <2>4, <3>1, OthersMove
  <2>12. ASSUME NEW i \in 0 .. d - 1, P[i] = h PROVE i + 1 \in 1 .. d /\ P[i + 1] = k
    <3>1. i + 1 \in 1 .. d /\ (i + 1) - 1 = i
      OBVIOUS
    <3>2. Into(P[(i + 1) - 1]).node = P[i + 1]
      BY <3>1, WayNodes
    <3> QED  BY <2>1, <2>12, <3>1, <3>2
  <2>13. Elsewhere(P, d)'
    <3>1. ASSUME NEW j \in Nodes, \A i \in 1 .. d : P[i] # j PROVE OthersOnly(outQ'[j])
      <4>1. OthersOnly(outQ[j])
        BY <3>1 DEF WayInv, Elsewhere
      <4>2. j = k => e.src # Watched
        BY <2>11, <2>12, <3>1
      <4>3. j = k => OthersOnly(Append(outQ[k], e))
        BY <2>4, <2>7, <4>1, <4>2, OthersMove
      <4> QED  BY <2>8, <4>1, <4>3
    <3>2. ASSUME NEW g \in 2 .. 2 * Sources - 1, \A i \in 0 .. d - 1 : P[i] # g
          PROVE  OthersOnly(Input(g)')
      <4>1. OthersOnly(Input(g))
        BY <3>2 DEF WayInv, Elsewhere
      <4>2. g = h => OthersOnly(Tail(Input(h)))
        BY <2>2, <2>4, <4>1, OthersMove
      <4> QED  BY <2>6, <4>1, <4>2
    <3> QED  BY <3>1, <3>2 DEF Elsewhere, OthersOnly
  <2>14. c \in [1 .. d -> Nos] /\ m \in [0 .. d -> Nos] /\ m[0] = put /\ m[d] = got
    BY <1>1 DEF OnTheWayIn
  <2>15. ASSUME NEW j \in 0 .. d - 1, P[j] = h PROVE WayInv(P, d)'
    <3>1. PICK b : b = j + 1
      OBVIOUS
    <3>2. b \in 1 .. d /\ b - 1 = j /\ P[b] = k
      BY <2>12, <2>15, <3>1
    <3>3. Path(Nos, Input(h), c[b], m[j], Counts) /\ Path(Nos, outQ[k], m[b], c[b], Counts)
      BY <1>1, <2>15, <3>2 DEF OnTheWayIn
    <3>4. PICK x \in Nos : <<c[b], e, x>> \in Counts /\ Path(Nos, Tail(Input(h)), x, m[j], Counts)
      BY <2>2, <2>3, <2>4, <3>3, PathTail
    <3>5. Path(Nos, Append(outQ[k], e), m[b], x, Counts)
      BY <2>4, <2>7, <3>3, <3>4, PathAppend
    <3> DEFINE n == [c EXCEPT ![b] = x]
    <3>6. n \in [1 .. d -> Nos] /\ n[b] = x /\ \A i \in 1 .. d : i # b => n[i] = c[i]
      BY <2>14, <3>2
    <3> HIDE DEF n
    <3>7. ASSUME NEW i \in 1 .. d PROVE Path(Nos, outQ'[P[i]], m[i], n[i], Counts)
      <4>1. CASE i = b
        BY <2>8, <3>2, <3>5, <3>6, <4>1
      <4>2. CASE i # b
        <5>1. P[i] # k /\ P[i] \in Nodes
          BY <3>2, <4>2, WayNodes
        <5> QED  BY <1>1, <2>8, <3>6, <4>2, <5>1 DEF OnTheWayIn
      <4> QED  BY <4>1, <4>2
    <3>8. ASSUME NEW i \in 1 .. d PROVE Path(Nos, Input(P[i - 1])', n[i], m[i - 1], Counts)
      <4>1. CASE i = b
        BY <2>6, <2>15, <3>2, <3>4, <3>6, <4>1
      <4>2. CASE i # b
        <5>1. P[i - 1] # h /\ P[i - 1] \in 2 .. 2 * Sources - 1
          <6>1. i - 1 \in 0 .. d /\ j \in 0 .. d /\ i - 1 # j
            BY <3>2, <4>2
          <6> QED  BY <2>15, <6>1, WayNodes
        <5> QED  BY <1>1, <2>6, <3>6, <4>2, <5>1 DEF OnTheWayIn
      <4> QED  BY <4>1, <4>2
    <3>9. OnTheWayIn(P, d, n, m)'
      BY <2>9, <2>14, <3>6, <3>7, <3>8 DEF OnTheWayIn
    <3> QED  BY <2>13, <3>9 DEF WayInv
  <2>16. ASSUME \A j \in 0 .. d - 1 : P[j] # h PROVE WayInv(P, d)'
    <3>1. e.src # Watched
      BY <2>11, <2>16
    <3>2. ASSUME NEW i \in 1 .. d PROVE Path(Nos, outQ'[P[i]], m[i], c[i], Counts)
      <4>1. Path(Nos, outQ[P[i]], m[i], c[i], Counts) /\ P[i] \in Nodes /\ c[i] \in Nos
        BY <1>1, WayNodes DEF OnTheWayIn
      <4>2. CASE P[i] = k
        <5>1. <<c[i], e, c[i]>> \in Counts
          BY <2>4, <3>1, <4>1, CountMoves
        <5>2. Path(Nos, Append(outQ[k], e), m[i], c[i], Counts)
          BY <2>4, <2>7, <4>1, <4>2, <5>1, PathAppend
        <5> QED  BY <2>8, <4>2, <5>2
      <4>3. CASE P[i] # k
        BY <2>8, <4>1, <4>3
      <4> QED  BY <4>2, <4>3
    <3>3. ASSUME NEW i \in 1 .. d PROVE Path(Nos, Input(P[i - 1])', c[i], m[i - 1], Counts)
      <4>1. P[i - 1] # h /\ P[i - 1] \in 2 .. 2 * Sources - 1
        <5>1. i - 1 \in 0 .. d - 1
          OBVIOUS
        <5> QED  BY <2>16, <5>1, WayNodes
      <4> QED  BY <1>1, <2>6, <4>1 DEF OnTheWayIn
    <3>4. OnTheWayIn(P, d, c, m)'
      BY <2>9, <2>14, <3>2, <3>3 DEF OnTheWayIn
    <3> QED  BY <2>13, <3>4 DEF WayInv
  <2> QED  BY <2>10, <2>15, <2>16
<1>6. UNCHANGED <<inQ, outQ>> \/
      (/\ inQ[k][u] # <<>> /\ outQ' = [outQ EXCEPT ![k] = Append(@, Head(inQ[k][u]))]
       /\ inQ' = [inQ EXCEPT ![k][u] = Tail(@)])
  BY <1>2 DEF merge
<1> QED  BY <1>4, <1>5, <1>6

(* The output of a node goes into the next.                                *)
LEMMA MaKeeps ==
  ASSUME MergeTypes, NEW d \in Nat, NEW P, Way(P, d, Watched + Sources), WayInv(P, d),
         NEW k \in Nodes, ma1(k)
  PROVE  MergeTypes' /\ WayInv(P, d)'
<1>1. PICK c, m : OnTheWayIn(P, d, c, m)
  BY DEF WayInv
<1>2. k \in 2 .. 2 * Sources - 1 /\ k # 1
  BY MergeAssumption DEF ma1, Nodes
<1>3. outQ \in [Nodes -> Seq(Item)] /\ outQ[k] \in Seq(Item) /\ outQ[k] # <<>>
  BY DEF MergeTypes, ma1
<1>4. PICK e : e = Head(outQ[k])
  OBVIOUS
<1>5. Tail(outQ[k]) \in Seq(Item) /\ e \in Item
  BY <1>3, <1>4, TakenOut
<1>6. Input(k) \in Seq(Item) /\ Append(Input(k), e) \in Seq(Item)
  <2>1. Input(k) \in Seq(Item)
    BY <1>2, InputType
  <2> QED  BY <1>5, <2>1, PutIn
<1>7. inQ' = [inQ EXCEPT ![Into(k).node][Into(k).side] = Append(Input(k), e)]
  BY <1>4 DEF ma1, putIn, Input
<1>8. /\ inQ' \in [Nodes -> [0 .. 1 -> Seq(Item)]]
      /\ Input(k)' = Append(Input(k), e)
      /\ \A g \in 2 .. 2 * Sources - 1 : g # k => Input(g)' = Input(g)
  BY <1>2, <1>6, <1>7, InputSet
<1>9. /\ outQ' \in [Nodes -> Seq(Item)] /\ outQ'[k] = Tail(outQ[k])
      /\ \A j \in Nodes : j # k => outQ'[j] = outQ[j]
  <2>1. outQ' = [outQ EXCEPT ![k] = Tail(outQ[k])]
    BY DEF ma1
  <2> QED  BY <1>3, <1>5, <2>1
<1>10. UNCHANGED <<prio, put, got>>
  BY DEF ma1
<1>11. MergeTypes'
  BY <1>8, <1>9, <1>10 DEF MergeTypes
<1>12. (\A i \in 1 .. d : P[i] # k) => e.src # Watched
  <2>1. (\A i \in 1 .. d : P[i] # k) => OthersOnly(outQ[k])
    BY DEF WayInv, Elsewhere
  <2> QED  BY <1>3, <1>4, <2>1, OthersMove
<1>13. ASSUME NEW i \in 0 .. d, P[i] = k PROVE i \in 1 .. d - 1
  <2>1. P[0] = Watched + Sources /\ P[d] = 1
    BY DEF Way
  <2>2. k < Watched + Sources
    BY MergeAssumption DEF Nodes
  <2>3. i # 0 /\ i # d
    BY <1>2, <1>13, <2>1, <2>2
  <2> QED  BY <2>3
<1>14. Elsewhere(P, d)'
  <2>1. ASSUME NEW j \in Nodes, \A i \in 1 .. d : P[i] # j PROVE OthersOnly(outQ'[j])
    <3>1. OthersOnly(outQ[j])
      BY <2>1 DEF WayInv, Elsewhere
    <3>2. j = k => OthersOnly(Tail(outQ[k]))
      BY <1>3, <3>1, OthersMove
    <3> QED  BY <1>9, <3>1, <3>2
  <2>2. ASSUME NEW g \in 2 .. 2 * Sources - 1, \A i \in 0 .. d - 1 : P[i] # g
        PROVE  OthersOnly(Input(g)')
    <3>1. OthersOnly(Input(g))
      BY <2>2 DEF WayInv, Elsewhere
    <3>2. g = k => e.src # Watched
      <4>1. ASSUME g = k, NEW i \in 1 .. d PROVE P[i] # k
        <5>1. i \in 0 .. d
          OBVIOUS
        <5>2. P[i] = k => i \in 0 .. d - 1
          BY <1>13, <5>1
        <5> QED  BY <2>2, <4>1, <5>2
      <4> QED  BY <1>12, <4>1
    <3>3. g = k => OthersOnly(Append(Input(k), e))
      BY <1>5, <1>6, <3>1, <3>2, OthersMove
    <3> QED  BY <1>8, <3>1, <3>3
  <2> QED  BY <2>1, <2>2 DEF Elsewhere, OthersOnly
<1>15. c \in [1 .. d -> Nos] /\ m \in [0 .. d -> Nos] /\ m[0] = put /\ m[d] = got
  BY <1>1 DEF OnTheWayIn
<1>16. ASSUME NEW j \in 0 .. d, P[j] = k PROVE WayInv(P, d)'
  <2>1. PICK b : b = j + 1
    OBVIOUS
  <2>2. j \in 1 .. d - 1 /\ b \in 1 .. d /\ b - 1 = j
    BY <1>13, <1>16, <2>1
  <2>3. Path(Nos, Input(k), c[b], m[j], Counts) /\ Path(Nos, outQ[k], m[j], c[j], Counts)
    <3>1. j \in 1 .. d
      BY <2>2
    <3> QED  BY <1>1, <1>16, <2>2, <3>1 DEF OnTheWayIn
  <2>4. PICK x \in Nos : <<m[j], e, x>> \in Counts /\ Path(Nos, Tail(outQ[k]), x, c[j], Counts)
    BY <1>3, <1>4, <2>3, PathTail
  <2>5. Path(Nos, Append(Input(k), e), c[b], x, Counts)
    BY <1>5, <1>6, <2>3, <2>4, PathAppend
  <2> DEFINE n == [m EXCEPT ![j] = x]
  <2>6. n \in [0 .. d -> Nos] /\ n[j] = x /\ \A i \in 0 .. d : i # j => n[i] = m[i]
    BY <1>15
  <2> HIDE DEF n
  <2>7. n[0] = put' /\ n[d] = got'
    <3>1. 0 \in 0 .. d /\ d \in 0 .. d /\ j # 0 /\ j # d
      BY <2>2
    <3> QED  BY <1>10, <1>15, <2>6, <3>1
  <2>8. ASSUME NEW i \in 1 .. d PROVE Path(Nos, outQ'[P[i]], n[i], c[i], Counts)
    <3>1. CASE i = j
      BY <1>9, <1>16, <2>4, <2>6, <3>1
    <3>2. CASE i # j
      <4>1. P[i] # k /\ P[i] \in Nodes /\ i \in 0 .. d
        BY <1>16, <3>2, WayNodes
      <4> QED  BY <1>1, <1>9, <2>6, <3>2, <4>1 DEF OnTheWayIn
    <3> QED  BY <3>1, <3>2
  <2>9. ASSUME NEW i \in 1 .. d PROVE Path(Nos, Input(P[i - 1])', c[i], n[i - 1], Counts)
    <3>1. CASE i = b
      BY <1>8, <1>16, <2>2, <2>5, <2>6, <3>1
    <3>2. CASE i # b
      <4>1. i - 1 \in 0 .. d /\ i - 1 # j
        BY <2>2, <3>2
      <4>2. P[i - 1] # k /\ P[i - 1] \in 2 .. 2 * Sources - 1
        BY <1>16, <4>1, WayNodes
      <4> QED  BY <1>1, <1>8, <2>6, <4>1, <4>2 DEF OnTheWayIn
    <3> QED  BY <3>1, <3>2
  <2>10. OnTheWayIn(P, d, c, n)'
    BY <1>15, <2>6, <2>7, <2>8, <2>9 DEF OnTheWayIn
  <2> QED  BY <1>14, <2>10 DEF WayInv
<1>17. ASSUME \A j \in 0 .. d : P[j] # k PROVE WayInv(P, d)'
  <2>1. ASSUME NEW i \in 1 .. d PROVE Path(Nos, outQ'[P[i]], m[i], c[i], Counts)
    <3>1. P[i] # k /\ P[i] \in Nodes
      BY <1>17, WayNodes
    <3> QED  BY <1>1, <1>9, <3>1 DEF OnTheWayIn
  <2>2. ASSUME NEW i \in 1 .. d PROVE Path(Nos, Input(P[i - 1])', c[i], m[i - 1], Counts)
    <3>1. i - 1 \in 0 .. d
      OBVIOUS
    <3>2. P[i - 1] # k /\ P[i - 1] \in 2 .. 2 * Sources - 1
      BY <1>17, <3>1, WayNodes
    <3> QED  BY <1>1, <1>8, <3>2 DEF OnTheWayIn
  <2>3. OnTheWayIn(P, d, c, m)'
    BY <1>10, <1>15, <2>1, <2>2 DEF OnTheWayIn
  <2> QED  BY <1>14, <2>3 DEF WayInv
<1> QED  BY <1>11, <1>16, <1>17

(* The user takes an item out.                                             *)
LEMMA DeqKeeps ==
  ASSUME MergeTypes, NEW d \in Nat, NEW P, Way(P, d, Watched + Sources), WayInv(P, d), deq
  PROVE  MergeTypes' /\ WayInv(P, d)'
<1>1. PICK c, m : OnTheWayIn(P, d, c, m)
  BY DEF WayInv
<1>2. 1 \in Nodes
  BY MergeAssumption DEF Nodes
<1>3. outQ \in [Nodes -> Seq(Item)] /\ outQ[1] \in Seq(Item) /\ outQ[1] # <<>>
  BY <1>2 DEF MergeTypes, deq
<1>4. PICK e : e = Head(outQ[1])
  OBVIOUS
<1>5. Tail(outQ[1]) \in Seq(Item) /\ e \in Item
  BY <1>3, <1>4, TakenOut
<1>6. /\ outQ' \in [Nodes -> Seq(Item)] /\ outQ'[1] = Tail(outQ[1])
      /\ \A j \in Nodes : j # 1 => outQ'[j] = outQ[j]
  <2>1. outQ' = [outQ EXCEPT ![1] = Tail(outQ[1])]
    BY DEF deq
  <2> QED  BY <1>2, <1>3, <1>5, <2>1
<1>7. c \in [1 .. d -> Nos] /\ m \in [0 .. d -> Nos] /\ m[0] = put /\ m[d] = got
  BY <1>1 DEF OnTheWayIn
<1>8. d >= 1 /\ P[d] = 1 /\ d \in 1 .. d /\ d \in 0 .. d
  BY WayNodes DEF Way
<1>9. Path(Nos, outQ[1], got, c[d], Counts)
  BY <1>1, <1>7, <1>8 DEF OnTheWayIn
<1>10. PICK x \in Nos : <<got, e, x>> \in Counts /\ Path(Nos, Tail(outQ[1]), x, c[d], Counts)
  BY <1>3, <1>4, <1>9, PathTail
<1>11. got' = x /\ UNCHANGED <<inQ, prio, put>>
  <2>1. x = (IF e.src = Watched THEN (got + 1) % NoMod ELSE got)
    BY <1>5, <1>7, <1>8, <1>10, CountMoves
  <2> QED  BY <1>4, <2>1 DEF deq
<1>12. MergeTypes'
  BY <1>6, <1>11 DEF MergeTypes
<1>13. \A h : Input(h)' = Input(h)
  BY <1>11 DEF Input
<1>14. Elsewhere(P, d)'
  <2>1. ASSUME NEW j \in Nodes, \A i \in 1 .. d : P[i] # j PROVE OthersOnly(outQ'[j])
    <3>1. OthersOnly(outQ[j]) /\ j # 1
      BY <1>8, <2>1 DEF WayInv, Elsewhere
    <3> QED  BY <1>6, <3>1
  <2> QED  BY <1>13, <2>1 DEF WayInv, Elsewhere, OthersOnly
<1> DEFINE n == [m EXCEPT ![d] = x]
<1>15. n \in [0 .. d -> Nos] /\ n[d] = x /\ \A i \in 0 .. d : i # d => n[i] = m[i]
  BY <1>7
<1> HIDE DEF n
<1>16. ASSUME NEW i \in 1 .. d PROVE Path(Nos, outQ'[P[i]], n[i], c[i], Counts)
  <2>1. CASE i = d
    BY <1>6, <1>8, <1>10, <1>15, <2>1
  <2>2. CASE i # d
    <3>1. P[i] # 1 /\ P[i] \in Nodes /\ i \in 0 .. d
      BY <2>2, WayNodes
    <3> QED  BY <1>1, <1>6, <1>15, <2>2, <3>1 DEF OnTheWayIn
  <2> QED  BY <2>1, <2>2
<1>17. ASSUME NEW i \in 1 .. d PROVE Path(Nos, Input(P[i - 1])', c[i], n[i - 1], Counts)
  <2>1. i - 1 \in 0 .. d /\ i - 1 # d
    OBVIOUS
  <2> QED  BY <1>1, <1>13, <1>15, <2>1 DEF OnTheWayIn
<1>18. n[0] = put'
  <2>1. 0 \in 0 .. d /\ 0 # d
    BY <1>8
  <2> QED  BY <1>7, <1>11, <1>15, <2>1
<1>19. OnTheWayIn(P, d, c, n)'
  BY <1>7, <1>11, <1>15, <1>16, <1>17, <1>18 DEF OnTheWayIn
<1> QED  BY <1>12, <1>14, <1>19 DEF WayInv

LEMMA MergeStep == MergeInv /\ [MergeNext]_mergeVars => MergeInv'
<1> SUFFICES ASSUME MergeInv, [MergeNext]_mergeVars PROVE MergeInv'
  OBVIOUS
<1>1. MergeTypes
  BY DEF MergeInv
<1>2. PICK d \in Nat : \E P : Way(P, d, Watched + Sources) /\ WayInv(P, d)
  BY DEF MergeInv
<1>3. PICK P : Way(P, d, Watched + Sources) /\ WayInv(P, d)
  BY <1>2
<1>4. CASE UNCHANGED mergeVars
  <2>1. \A h : Input(h)' = Input(h)
    BY <1>4 DEF mergeVars, Input
  <2>2. MergeTypes'
    BY <1>1, <1>4 DEF mergeVars, MergeTypes
  <2>3. Elsewhere(P, d)'
    BY <1>3, <1>4, <2>1 DEF mergeVars, WayInv, Elsewhere, OthersOnly
  <2>4. PICK c, m : OnTheWayIn(P, d, c, m)
    BY <1>3 DEF WayInv
  <2>5. OnTheWayIn(P, d, c, m)'
    BY <1>4, <2>1, <2>4 DEF mergeVars, OnTheWayIn
  <2> QED  BY <1>3, <2>2, <2>3, <2>5 DEF MergeInv, WayInv
<1>5. CASE MergeNext
  <2>1. MergeTypes' /\ WayInv(P, d)'
    BY <1>1, <1>3, <1>5, EnqKeeps, MergeKeeps, MaKeeps, DeqKeeps DEF MergeNext
  <2> QED  BY <1>3, <2>1 DEF MergeInv
<1> QED  BY <1>4, <1>5

LEMMA MergeStart == MergeInit => MergeInv
<1> SUFFICES ASSUME MergeInit PROVE MergeInv
  OBVIOUS
<1>1. 0 \in Nos /\ Watched + Sources \in Nat \ {0}
  BY MergeAssumption DEF Nos
<1>2. PICK d \in Nat : \E P : Way(P, d, Watched + Sources)
  BY <1>1, WayUp
<1>3. PICK P : Way(P, d, Watched + Sources)
  BY <1>2
<1>4. /\ inQ \in [Nodes -> [0 .. 1 -> Seq(Item)]] /\ outQ \in [Nodes -> Seq(Item)]
      /\ prio \in [Nodes -> 0 .. 1]
  BY DEF MergeInit
<1>5. MergeTypes
  BY <1>1, <1>4 DEF MergeInit, MergeTypes
<1>6. \A h \in 2 .. 2 * Sources - 1 : Input(h) = <<>>
  BY Inputs DEF MergeInit, Input
<1>7. \A k \in Nodes : outQ[k] = <<>>
  BY DEF MergeInit
<1>8. Elsewhere(P, d)
  BY <1>6, <1>7 DEF Elsewhere, OthersOnly
<1> DEFINE c == [i \in 1 .. d |-> 0]  m == [i \in 0 .. d |-> 0]
<1>9. /\ c \in [1 .. d -> Nos] /\ m \in [0 .. d -> Nos] /\ m[0] = 0 /\ m[d] = 0
      /\ \A i \in 1 .. d : c[i] = 0 /\ m[i] = 0 /\ m[i - 1] = 0
  BY <1>1
<1> HIDE DEF c, m
<1>10. Path(Nos, <<>>, 0, 0, Counts)
  BY <1>1, PathEmpty
<1>11. \A i \in 1 .. d : outQ[P[i]] = <<>> /\ Input(P[i - 1]) = <<>>
  BY <1>3, <1>6, <1>7, WayNodes
<1>12. OnTheWayIn(P, d, c, m)
  BY <1>9, <1>10, <1>11 DEF OnTheWayIn, MergeInit
<1> QED  BY <1>3, <1>5, <1>8, <1>12 DEF MergeInv, WayInv

-----------------------------------------------------------------------------
(* From the queues of the way to all that is inside.                       *)
LEMMA PathJoin ==
  ASSUME NEW S, NEW U, NEW q \in Seq(U), NEW r \in Seq(U), NEW a, NEW b, NEW c, NEW M,
         Path(S, q, a, b, M), Path(S, r, b, c, M)
  PROVE  q \o r \in Seq(U) /\ Path(S, q \o r, a, c, M)
<1> PICK s : s = q \o r
  OBVIOUS
<1>1. /\ Len(q) \in Nat /\ Len(r) \in Nat /\ s \in Seq(U) /\ Len(s) = Len(q) + Len(r)
      /\ \A k \in 1 .. Len(q) : s[k] = q[k]
      /\ \A k \in 1 .. Len(r) : s[Len(q) + k] = r[k]
  <2>1. s = q \o r
    OBVIOUS
  <2>2. /\ Len(q) \in Nat /\ Len(r) \in Nat /\ s \in Seq(U) /\ Len(s) = Len(q) + Len(r)
        /\ \A k \in 1 .. Len(s) : s[k] = IF k <= Len(q) THEN q[k] ELSE r[k - Len(q)]
    BY <2>1, ConcatProperties, LenProperties
  <2>3. \A k \in 1 .. Len(q) : s[k] = q[k]
    BY <2>2
  <2>4. ASSUME NEW k \in 1 .. Len(r) PROVE s[Len(q) + k] = r[k]
    <3>1. PICK n \in 1 .. Len(s) : n = Len(q) + k
      BY <2>2
    <3>2. ~(n <= Len(q)) /\ n - Len(q) = k
      BY <2>2, <3>1
    <3> QED  BY <2>2, <3>1, <3>2
  <2> QED  BY <2>2, <2>3, <2>4
<1>2. PICK f \in [0 .. Len(q) -> S] :
        /\ f[0] = a /\ f[Len(q)] = b
        /\ \A k \in 1 .. Len(q) : <<f[k - 1], q[k], f[k]>> \in M
  BY DEF Path
<1>3. PICK g \in [0 .. Len(r) -> S] :
        /\ g[0] = b /\ g[Len(r)] = c
        /\ \A k \in 1 .. Len(r) : <<g[k - 1], r[k], g[k]>> \in M
  BY DEF Path
<1> DEFINE st == [k \in 0 .. Len(q) + Len(r) |-> IF k <= Len(q) THEN f[k] ELSE g[k - Len(q)]]
<1>4. \A k \in 0 .. Len(q) : st[k] = f[k]
  BY <1>1
<1>5. \A k \in 0 .. Len(r) : st[Len(q) + k] = g[k]
  <2> TAKE k \in 0 .. Len(r)
  <2>1. Len(q) + k \in 0 .. Len(q) + Len(r) /\ (Len(q) + k) - Len(q) = k
    BY <1>1
  <2>2. CASE k = 0
    <3>1. Len(q) + k = Len(q) /\ Len(q) \in 0 .. Len(q)
      BY <1>1, <2>2
    <3> QED  BY <1>2, <1>3, <1>4, <2>2, <3>1
  <2>3. CASE k # 0
    <3>1. ~(Len(q) + k <= Len(q))
      BY <1>1, <2>3
    <3> QED  BY <2>1, <3>1
  <2> QED  BY <2>2, <2>3
<1>6. st \in [0 .. Len(q) + Len(r) -> S]
  <2>1. ASSUME NEW k \in 0 .. Len(q) + Len(r)
        PROVE  (IF k <= Len(q) THEN f[k] ELSE g[k - Len(q)]) \in S
    <3>1. k <= Len(q) => k \in 0 .. Len(q)
      BY <1>1
    <3>2. ~(k <= Len(q)) => k - Len(q) \in 0 .. Len(r)
      BY <1>1
    <3> QED  BY <1>2, <1>3, <3>1, <3>2
  <2> QED  BY <2>1
<1> HIDE DEF st
<1>7. st[0] = a /\ st[Len(s)] = c
  <2>1. 0 \in 0 .. Len(q) /\ Len(r) \in 0 .. Len(r)
    BY <1>1
  <2> QED  BY <1>1, <1>2, <1>3, <1>4, <1>5, <2>1
<1>8. ASSUME NEW k \in 1 .. Len(s) PROVE <<st[k - 1], s[k], st[k]>> \in M
  <2>1. CASE k <= Len(q)
    <3>1. k \in 1 .. Len(q) /\ k \in 0 .. Len(q) /\ k - 1 \in 0 .. Len(q)
      BY <1>1, <2>1
    <3> QED  BY <1>1, <1>2, <1>4, <3>1
  <2>2. CASE ~(k <= Len(q))
    <3>1. PICK j \in 1 .. Len(r) : k = Len(q) + j
      <4>1. k - Len(q) \in 1 .. Len(r) /\ k = Len(q) + (k - Len(q))
        BY <1>1, <2>2
      <4> QED  BY <4>1
    <3>2. st[k] = g[j] /\ s[k] = r[j]
      <4>1. j \in 0 .. Len(r)
        OBVIOUS
      <4> QED  BY <1>1, <1>5, <3>1, <4>1
    <3>3. st[k - 1] = g[j - 1]
      <4>1. PICK i \in 0 .. Len(r) : i = j - 1
        BY <1>1
      <4>2. k - 1 = Len(q) + i
        BY <1>1, <3>1, <4>1
      <4> QED  BY <1>5, <4>1, <4>2
    <3> QED  BY <1>3, <3>2, <3>3
  <2> QED  BY <2>1, <2>2
<1>9. Path(S, s, a, c, M)
  BY <1>1, <1>6, <1>7, <1>8 DEF Path
<1> QED  BY <1>1, <1>9

(* What Along is at h, over what it is at the number h puts into.          *)
AlongAt(f, h, i, o) ==
  IF h = 1 THEN o[1]
  ELSE f[h \div 2] \o i[Into(h).node][Into(h).side]
                   \o (IF h < Sources THEN o[h] ELSE <<>>)

AlongTo(f, n, i, o) == f = [h \in 1 .. n |-> AlongAt(f, h, i, o)]

(* One number more.                                                        *)
LEMMA AlongMore ==
  ASSUME NEW k \in Nat, NEW n, n = k + 1, NEW i, NEW o, NEW f, AlongTo(f, k, i, o)
  PROVE  \E g : AlongTo(g, n, i, o)
<1>0. f = [h \in 1 .. k |-> AlongAt(f, h, i, o)]
  BY DEF AlongTo
<1> PICK z : z = AlongAt(f, k + 1, i, o)
  OBVIOUS
<1> PICK g : g = [h \in 1 .. k + 1 |-> IF h <= k THEN f[h] ELSE z]
  OBVIOUS
<1>1. g = [h \in 1 .. k + 1 |-> IF h <= k THEN f[h] ELSE z] /\ z = AlongAt(f, k + 1, i, o)
  OBVIOUS
<1>2. \A h \in 1 .. k : h \in 1 .. k + 1 /\ h <= k /\ g[h] = f[h]
  BY <1>1
<1>3. ASSUME NEW h \in 1 .. k + 1
      PROVE  (IF h <= k THEN f[h] ELSE z) = AlongAt(g, h, i, o)
  <2>1. h # 1 => h \div 2 \in 1 .. k
    OBVIOUS
  <2>2. h # 1 => f[h \div 2] = g[h \div 2]
    <3> SUFFICES ASSUME h # 1 PROVE f[h \div 2] = g[h \div 2]
      OBVIOUS
    <3> PICK x : x = h \div 2
      OBVIOUS
    <3>1. x \in 1 .. k /\ x = h \div 2
      BY <2>1
    <3>2. g[x] = f[x]
      BY <3>1, <1>2
    <3> QED  BY <3>1, <3>2, Zenon
  <2>3. AlongAt(f, h, i, o) = AlongAt(g, h, i, o)
    <3>1. CASE h = 1
      BY <3>1, Zenon DEF AlongAt
    <3>2. CASE h # 1
      <4>1. f[h \div 2] = g[h \div 2]
        BY <2>2, <3>2
      <4> QED  BY <3>2, <4>1, Zenon DEF AlongAt
    <3> QED  BY <3>1, <3>2
  <2>4. CASE h <= k
    <3>1. h \in 1 .. k
      BY <2>4
    <3>2. f[h] = AlongAt(f, h, i, o)
      BY <1>0, <3>1, Zenon
    <3> QED  BY <2>4, <3>2, <2>3, Zenon
  <2>5. CASE ~(h <= k)
    <3>1. h = k + 1
      BY <2>5
    <3>2. z = AlongAt(f, h, i, o)
      BY <1>1, <3>1, Zenon
    <3> QED  BY <2>5, <3>2, <2>3, Zenon
  <2> QED  BY <2>4, <2>5
<1>4. [h \in 1 .. k + 1 |-> IF h <= k THEN f[h] ELSE z] = [h \in 1 .. k + 1 |-> AlongAt(g, h, i, o)]
  BY <1>3, Zenon
<1>5. g = [h \in 1 .. k + 1 |-> AlongAt(g, h, i, o)]
  BY <1>1, <1>4, Zenon
<1> QED  BY <1>5, Zenon DEF AlongTo

(* Along is defined at every number of the heap.                           *)
LEMMA AlongExists ==
  ASSUME NEW i, NEW o
  PROVE  \E f : AlongTo(f, 2 * Sources - 1, i, o)
<1> DEFINE Has(n) == \E f : AlongTo(f, n, i, o)
           T == {n \in Nat : ~Has(n)}
<1>1. 2 * Sources - 1 \in Nat
  BY MergeAssumption
<1>2. ASSUME T # {} PROVE FALSE
  <2>1. PICK n \in T : \A y \in T : n <= y
    <3>1. T \subseteq Nat
      OBVIOUS
    <3> HIDE DEF T
    <3> QED  BY <1>2, <3>1, LeastOf
  <2>2. CASE n = 0
    <3> DEFINE f == [h \in 1 .. 0 |-> 0]
    <3>1. f = [h \in 1 .. 0 |-> AlongAt(f, h, i, o)]
      OBVIOUS
    <3> QED  BY <2>1, <2>2, <3>1 DEF AlongTo
  <2>3. CASE n # 0
    <3>1. PICK k \in Nat : n = k + 1
      <4>1. n \in Nat
        BY <2>1
      <4>2. n - 1 \in Nat /\ n = (n - 1) + 1
        BY <2>3, <4>1
      <4> QED  BY <4>2
    <3>2. k \notin T
      <4> HIDE DEF T
      <4>1. ~(n <= k)
        BY <3>1
      <4> QED  BY <2>1, <4>1
    <3>3. PICK f : AlongTo(f, k, i, o)
      BY <3>2
    <3>4. Has(n)
      BY <3>1, <3>3, AlongMore
    <3> QED  BY <2>1, <3>4
  <2> QED  BY <2>2, <2>3
<1>3. Has(2 * Sources - 1)
  BY <1>1, <1>2
<1> QED  BY <1>3

LEMMA AlongIs ==
  ASSUME NEW h \in 1 .. 2 * Sources - 1
  PROVE  /\ h = 1 => Along[h] = outQ[1]
         /\ h # 1 => Along[h] = Along[h \div 2] \o Input(h)
                                  \o (IF h < Sources THEN outQ[h] ELSE <<>>)
<1>1. Along = [g \in 1 .. 2 * Sources - 1 |-> AlongAt(Along, g, inQ, outQ)]
  <2>1. \E f : AlongTo(f, 2 * Sources - 1, inQ, outQ)
    BY AlongExists, Zenon
  <2> QED  BY <2>1, Zenon DEF Along, AlongAt, AlongTo
<1>2. Along[h] = AlongAt(Along, h, inQ, outQ)
  BY <1>1, Zenon
<1> QED  BY <1>2, Zenon DEF AlongAt, Input

LEMMA AlongWay ==
  ASSUME MergeTypes, NEW d \in Nat, NEW P, Way(P, d, Watched + Sources),
         NEW c, NEW m, OnTheWayIn(P, d, c, m)
  PROVE  Inside \in Seq(Item) /\ Path(Nos, Inside, got, put, Counts)
<1>1. d >= 1 /\ P[d] = 1 /\ P[0] = Watched + Sources
  BY WayNodes DEF Way
<1>2. c \in [1 .. d -> Nos] /\ m \in [0 .. d -> Nos] /\ m[0] = put /\ m[d] = got
  BY DEF OnTheWayIn
<1>3. \A i \in 1 .. d : /\ Path(Nos, outQ[P[i]], m[i], c[i], Counts)
                        /\ outQ[P[i]] \in Seq(Item)
  BY WayNodes DEF OnTheWayIn, MergeTypes
<1>4. \A i \in 1 .. d : /\ Path(Nos, Input(P[i - 1]), c[i], m[i - 1], Counts)
                        /\ Input(P[i - 1]) \in Seq(Item)
  BY WayNodes, InputType DEF OnTheWayIn
<1> DEFINE Good(i) == Along[P[i]] \in Seq(Item) /\ Path(Nos, Along[P[i]], got, c[i], Counts)
           T == {j \in 0 .. d - 1 : ~Good(d - j)}
<1>5. Good(d)
  <2>1. 1 \in 1 .. 2 * Sources - 1
    BY MergeAssumption
  <2>2. Along[1] = outQ[1]
    BY <2>1, AlongIs
  <2>3. d \in 1 .. d
    BY <1>1
  <2> QED  BY <1>1, <1>2, <1>3, <2>2, <2>3
<1>6. ASSUME NEW i \in 1 .. d
      PROVE  /\ P[i - 1] \in 1 .. 2 * Sources - 1 /\ P[i - 1] # 1 /\ P[i - 1] \div 2 = P[i]
             /\ i > 1 => P[i - 1] < Sources
             /\ i = 1 => ~(P[i - 1] < Sources)
  <2>1. i - 1 \in 0 .. d /\ i - 1 \in 0 .. d - 1 /\ (i - 1) + 1 = i
    OBVIOUS
  <2>2. P[i - 1] \in 1 .. 2 * Sources - 1 /\ (P[i - 1] >= Sources => i - 1 = 0)
    BY <2>1, WayNodes
  <2>3. P[i - 1] > 1 /\ P[(i - 1) + 1] = P[i - 1] \div 2
    BY <2>1 DEF Way
  <2>4. i = 1 => P[i - 1] = Watched + Sources
    BY <1>1
  <2> QED  BY <2>1, <2>2, <2>3, <2>4, MergeAssumption
<1>7. ASSUME T # {} PROVE FALSE
  <2>1. T \subseteq Nat
    OBVIOUS
  <2> HIDE DEF T
  <2>2. PICK j \in T : \A y \in T : j <= y
    BY <1>7, <2>1, LeastOf
  <2> USE DEF T
  <2>3. j \in 0 .. d - 1 /\ ~Good(d - j)
    BY <2>2
  <2>4. j # 0
    <3>1. j = 0 => d - j = d
      OBVIOUS
    <3> QED  BY <1>5, <2>3, <3>1
  <2>5. PICK i \in 1 .. d : i = (d - j) + 1
    <3>1. (d - j) + 1 \in 1 .. d
      BY <2>3, <2>4
    <3> QED  BY <3>1
  <2>6. /\ i - 1 = d - j /\ i - 1 \in 1 .. d /\ i > 1
        /\ j - 1 \in 0 .. d - 1 /\ d - (j - 1) = i /\ ~(j <= j - 1)
    BY <2>3, <2>4, <2>5
  <2>7. Good(i)
    <3>1. j - 1 \notin T
      BY <2>2, <2>6
    <3> QED  BY <2>6, <3>1
  <2>8. Along[P[i - 1]] = Along[P[i]] \o Input(P[i - 1]) \o outQ[P[i - 1]]
    BY <1>6, <2>6, AlongIs
  <2>9. /\ Along[P[i]] \o Input(P[i - 1]) \in Seq(Item)
        /\ Path(Nos, Along[P[i]] \o Input(P[i - 1]), got, m[i - 1], Counts)
    BY <1>4, <2>7, PathJoin
  <2>10. Good(i - 1)
    <3>1. PICK n \in 1 .. d : n = i - 1
      BY <2>6
    <3>2. Path(Nos, outQ[P[n]], m[n], c[n], Counts) /\ outQ[P[n]] \in Seq(Item)
      BY <1>3
    <3>3. PICK q \in Seq(Item) : q = Along[P[i]] \o Input(P[i - 1])
      BY <2>9
    <3>4. Path(Nos, q, got, m[n], Counts) /\ Along[P[n]] = q \o outQ[P[n]]
      BY <2>8, <2>9, <3>1, <3>3
    <3>5. q \o outQ[P[n]] \in Seq(Item) /\ Path(Nos, q \o outQ[P[n]], got, c[n], Counts)
      BY <3>2, <3>3, <3>4, PathJoin
    <3> QED  BY <3>1, <3>4, <3>5
  <2> QED  BY <2>3, <2>6, <2>10
<1>8. Good(1)
  <2>1. d - 1 \in 0 .. d - 1 /\ d - (d - 1) = 1
    BY <1>1
  <2>2. d - 1 \notin T
    BY <1>7
  <2> QED  BY <2>1, <2>2
<1>9. Along[P[0]] = Along[P[1]] \o Input(P[0]) \o <<>>
  <2>1. 1 \in 1 .. d /\ 1 - 1 = 0
    BY <1>1
  <2> QED  BY <1>6, <2>1, AlongIs
<1>10. /\ Along[P[1]] \o Input(P[0]) \in Seq(Item)
       /\ Path(Nos, Along[P[1]] \o Input(P[0]), got, put, Counts)
  <2>1. 1 \in 1 .. d /\ 1 - 1 = 0
    BY <1>1
  <2>2. Path(Nos, Input(P[0]), c[1], put, Counts) /\ Input(P[0]) \in Seq(Item)
    BY <1>2, <1>4, <2>1
  <2> QED  BY <1>8, <2>2, PathJoin
<1>11. Inside = Along[P[1]] \o Input(P[0])
  <2>1. Inside = Along[P[1]] \o Input(P[0]) \o <<>>
    BY <1>1, <1>9 DEF Inside
  <2> QED  BY <1>10, <2>1, ConcatEmptySeq
<1> QED  BY <1>10, <1>11

-----------------------------------------------------------------------------
(* Numbers of items and how many there are.                                *)
LEMMA OneMore ==
  ASSUME NEW x \in Nat
  PROVE  ((x % NoMod) + 1) % NoMod = (x + 1) % NoMod /\ x % NoMod \in Nos
<1> PICK n \in Nat \ {0} : n = NoMod
  BY MergeAssumption
<1>0. n = NoMod /\ n >= 2
  BY MergeAssumption
<1>1. PICK q : q = x \div n
  OBVIOUS
<1>2. PICK r : r = x % n
  OBVIOUS
<1>3. q \in Int /\ r \in 0 .. n - 1 /\ x = n * q + r
  BY <1>1, <1>2, Rest
<1>4. n * q \in Int /\ n * (q + 1) \in Int /\ n * (q + 1) = n * q + n /\ n * 1 = n /\ n * 0 = 0
  BY <1>3, Times
<1>5. CASE r + 1 < n
  <2>1. r + 1 \in 0 .. n - 1
    BY <1>3, <1>5
  <2>2. (n * q + (r + 1)) % n = r + 1 /\ (n * 0 + (r + 1)) % n = r + 1
    BY <1>3, <2>1, OneRest
  <2>3. n * q + (r + 1) = x + 1 /\ n * 0 + (r + 1) = r + 1
    BY <1>3, <1>4
  <2> QED  BY <1>0, <1>2, <1>3, <2>2, <2>3 DEF Nos
<1>6. CASE r + 1 = n
  <2>1. (n * (q + 1) + 0) % n = 0 /\ (n * 1 + 0) % n = 0
    BY <1>3, OneRest
  <2>2. n * (q + 1) + 0 = x + 1 /\ n * 1 + 0 = r + 1
    BY <1>3, <1>4, <1>6
  <2> QED  BY <1>0, <1>2, <1>3, <2>1, <2>2 DEF Nos
<1> QED  BY <1>3, <1>5, <1>6

LEMMA OwnCounts ==
  ASSUME Inside \in Seq(Item), NEW k \in 1 .. Len(Inside)
  PROVE  /\ Own(0) = 0 /\ (Own(k - 1) \in Nat => Own(k) \in Nat)
         /\ Own(k - 1) \in Nat =>
              Own(k) = IF Inside[k].src = Watched THEN Own(k - 1) + 1 ELSE Own(k - 1)
<1> DEFINE Of(n) == {i \in 1 .. n : Inside[i].src = Watched}
<1>1. Own(0) = 0
  <2>1. Of(0) = {}
    OBVIOUS
  <2> QED  BY <2>1, FS_EmptySet DEF Own
<1>2. k \in Nat /\ k >= 1
  OBVIOUS
<1>3. IsFiniteSet(Of(k - 1))
  <2>1. IsFiniteSet(1 .. k - 1)
    BY <1>2, FS_Interval
  <2>2. Of(k - 1) \in SUBSET (1 .. k - 1)
    OBVIOUS
  <2> QED  BY <2>1, <2>2, FS_Subset
<1>4. k \notin Of(k - 1)
  OBVIOUS
<1>5. Of(k) = IF Inside[k].src = Watched THEN Of(k - 1) \cup {k} ELSE Of(k - 1)
  <2>1. 1 .. k = (1 .. k - 1) \cup {k} /\ k \notin 1 .. k - 1
    BY <1>2
  <2> QED  BY <2>1
<1>6. Cardinality(Of(k - 1) \cup {k}) = Cardinality(Of(k - 1)) + 1
  BY <1>3, <1>4, FS_AddElement
<1>7. Own(k) = Cardinality(Of(k)) /\ Own(k - 1) = Cardinality(Of(k - 1))
  BY DEF Own
<1> HIDE DEF Of
<1>8. Own(k) = IF Inside[k].src = Watched THEN Own(k - 1) + 1 ELSE Own(k - 1)
  BY <1>5, <1>6, <1>7
<1> QED  BY <1>1, <1>8

LEMMA MergeOrdered == MergeInv => KeepsOrder
<1> SUFFICES ASSUME MergeInv PROVE KeepsOrder
  OBVIOUS
<1>1. PICK d \in Nat : \E P : Way(P, d, Watched + Sources) /\ WayInv(P, d)
  BY DEF MergeInv
<1>2. PICK P : Way(P, d, Watched + Sources) /\ WayInv(P, d)
  BY <1>1
<1>3. PICK c, m : OnTheWayIn(P, d, c, m)
  BY <1>2 DEF WayInv
<1>4. Inside \in Seq(Item) /\ Path(Nos, Inside, got, put, Counts)
  BY <1>2, <1>3, AlongWay DEF MergeInv
<1>5. PICK st \in [0 .. Len(Inside) -> Nos] :
        /\ st[0] = got /\ st[Len(Inside)] = put
        /\ \A k \in 1 .. Len(Inside) : <<st[k - 1], Inside[k], st[k]>> \in Counts
  BY <1>4 DEF Path
<1>6. Len(Inside) \in Nat /\ got \in Nos /\ got \in Nat /\ Own(0) = 0
  <2>1. Len(Inside) \in Nat /\ got \in Nos /\ got \in Nat
    BY <1>4, MergeAssumption DEF MergeInv, MergeTypes, Nos
  <2>2. Own(0) = 0
    <3>1. {i \in 1 .. 0 : Inside[i].src = Watched} = {}
      OBVIOUS
    <3> QED  BY <3>1, FS_EmptySet DEF Own
  <2> QED  BY <2>1, <2>2
<1> DEFINE Good(k) == Own(k) \in Nat /\ st[k] = (got + Own(k)) % NoMod
           T == {k \in 0 .. Len(Inside) : ~Good(k)}
<1>7. Good(0)
  <2>1. got % NoMod = got
    <3>1. NoMod \in Nat \ {0} /\ got \in 0 .. NoMod - 1 /\ NoMod * 0 = 0
      BY <1>6, MergeAssumption DEF Nos
    <3>2. (NoMod * 0 + got) % NoMod = got
      BY <3>1, OneRest
    <3> QED  BY <1>6, <3>1, <3>2
  <2> QED  BY <1>5, <1>6, <2>1
<1>8. ASSUME NEW k \in 1 .. Len(Inside), Good(k - 1) PROVE Good(k)
  <2>1. /\ Own(k) \in Nat
        /\ Own(k) = IF Inside[k].src = Watched THEN Own(k - 1) + 1 ELSE Own(k - 1)
    BY <1>4, <1>8, OwnCounts
  <2>2. Inside[k] \in Item /\ st[k - 1] \in Nos /\ <<st[k - 1], Inside[k], st[k]>> \in Counts
    <3>1. k - 1 \in 0 .. Len(Inside)
      BY <1>6
    <3> QED  BY <1>4, <1>5, <3>1, ElementOfSeq
  <2>3. st[k] = (IF Inside[k].src = Watched THEN (st[k - 1] + 1) % NoMod ELSE st[k - 1])
    <3>1. PICK e \in Item, x \in Nos : e = Inside[k] /\ x = st[k - 1]
      BY <2>2
    <3>2. <<x, e, st[k]>> \in Counts
      BY <2>2, <3>1
    <3>3. st[k] = (IF e.src = Watched THEN (x + 1) % NoMod ELSE x)
      BY <3>2, CountMoves
    <3> QED  BY <3>1, <3>3
  <2>4. (((got + Own(k - 1)) % NoMod) + 1) % NoMod = ((got + Own(k - 1)) + 1) % NoMod
    <3>1. got + Own(k - 1) \in Nat
      BY <1>6, <1>8
    <3> QED  BY <3>1, OneMore
  <2>5. (got + Own(k - 1)) + 1 = got + (Own(k - 1) + 1)
    BY <1>6, <1>8
  <2> QED  BY <1>8, <2>1, <2>3, <2>4, <2>5
<1>9. T = {}
  <2> SUFFICES ASSUME T # {} PROVE FALSE
    OBVIOUS
  <2>1. T \subseteq Nat
    OBVIOUS
  <2> HIDE DEF T
  <2>2. PICK k \in T : \A y \in T : k <= y
    BY <2>1, LeastOf
  <2> USE DEF T
  <2>3. k \in 0 .. Len(Inside) /\ ~Good(k) /\ k # 0
    BY <1>7, <2>2
  <2>4. k \in 1 .. Len(Inside) /\ k - 1 \in 0 .. Len(Inside) /\ ~(k <= k - 1)
    BY <1>6, <2>3
  <2>5. Good(k - 1)
    BY <2>2, <2>4
  <2> QED  BY <1>8, <2>3, <2>4, <2>5
<1>10. \A k \in 0 .. Len(Inside) : Good(k)
  BY <1>9
<1>11. put = (got + Own(Len(Inside))) % NoMod
  BY <1>5, <1>6, <1>10
<1>12. ASSUME NEW k \in 1 .. Len(Inside), Inside[k].src = Watched
       PROVE  Inside[k].no = (got + Own(k - 1)) % NoMod
  <2>1. k - 1 \in 0 .. Len(Inside)
    BY <1>6
  <2>2. <<st[k - 1], Inside[k], st[k]>> \in Counts
    BY <1>5
  <2>3. Inside[k].no = st[k - 1]
    BY <1>12, <2>2 DEF Counts
  <2> QED  BY <1>10, <2>1, <2>3
<1> QED  BY <1>11, <1>12 DEF KeepsOrder

(* The items of a source leave the tree in the order in which they went in,*)
(* and none is lost or doubled, for any number of sources and any depth of *)
(* the queues.                                                             *)
THEOREM OrderKept == MergeSpec => []KeepsOrder
<1>1. MergeInv /\ [MergeNext]_mergeVars => MergeInv'
  BY MergeStep
<1>2. MergeInit => MergeInv
  BY MergeStart
<1>3. MergeInv => KeepsOrder
  BY MergeOrdered
<1> QED  BY <1>1, <1>2, <1>3, PTL DEF MergeSpec

-----------------------------------------------------------------------------
(* Readers of the DRAM get what writers gave last before the readers asked,*)
(* for any number of clients, any sizes of the queues and any sequence of  *)
(* bursts that lie in the memory.                                          *)
NewRow(row) ==
  LET region == row \div RegionRows IN
    ((region % Banks) * Highs + (region \div Banks)) * RegionRows + (row % RegionRows)

Halves == 0 .. 2 * Rows - 1

-----------------------------------------------------------------------------
(* Quotients and remainders.                                               *)
LEMMA OneQuotient ==
  ASSUME NEW n \in Nat \ {0}, NEW q \in Int, NEW r \in 0 .. n - 1,
         NEW p \in Int, NEW s \in 0 .. n - 1, n * q + r = n * p + s
  PROVE  q = p /\ r = s
<1>1. n * q \in Int /\ n * p \in Int
  BY Times
<1>2. ~(q > p)
  <2>1. q > p => n * q - n * p >= n
    BY Times
  <2> QED  BY <1>1, <2>1
<1>3. ~(p > q)
  <2>1. p > q => n * p - n * q >= n
    BY Times
  <2> QED  BY <1>1, <2>1
<1>4. q = p
  BY <1>2, <1>3
<1> QED  BY <1>1, <1>4

LEMMA QuotientIn ==
  ASSUME NEW n \in Nat \ {0}, NEW m \in Nat, NEW a \in Nat, a < n * m
  PROVE  a \div n \in 0 .. m - 1
<1>1. a % n \in 0 .. n - 1 /\ a \div n \in Int /\ a = n * (a \div n) + (a % n)
  BY Rest
<1> PICK q : q = a \div n
  OBVIOUS
<1> PICK r : r = a % n
  OBVIOUS
<1>2. q \in Int /\ r \in 0 .. n - 1 /\ a = n * q + r /\ q = a \div n
  BY <1>1
<1>3. n * q \in Int /\ n * m \in Int /\ n * 0 = 0
  BY <1>2, Times
<1>4. ~(0 > q)
  <2>1. 0 > q => n * 0 - n * q >= n
    BY <1>2, Times
  <2> QED  BY <1>2, <1>3, <2>1
<1>5. ~(q >= m)
  <2>1. q > m => n * q - n * m >= n
    BY <1>2, Times
  <2>2. q = m => n * q = n * m
    OBVIOUS
  <2> QED  BY <1>2, <1>3, <2>1, <2>2
<1>6. q \in 0 .. m - 1
  BY <1>2, <1>4, <1>5
<1> QED  BY <1>2, <1>6

LEMMA PlaceIn ==
  ASSUME NEW n \in Nat \ {0}, NEW m \in Nat, NEW q \in 0 .. m - 1, NEW r \in 0 .. n - 1
  PROVE  n * q + r \in 0 .. n * m - 1
<1>1. n * q \in Int /\ n * m \in Int /\ n * 0 = 0
  BY Times
<1>2. n * m - n * q >= n
  BY Times
<1>3. n * q >= 0
  <2>1. q > 0 => n * q - n * 0 >= n
    BY Times
  <2> QED  BY <1>1, <2>1
<1> QED  BY <1>1, <1>2, <1>3

(* The permutation of addresses.                                           *)
LEMMA Sizes ==
  /\ RegionRows \in Nat \ {0} /\ Banks \in Nat \ {0} /\ Highs \in Nat \ {0}
  /\ Banks * Highs \in Nat /\ Rows \in Nat
  /\ Rows = RegionRows * (Banks * Highs) /\ Rows = RegionRows * (Highs * Banks)
<1>1. RegionRows \in Nat \ {0} /\ Banks \in Nat \ {0} /\ Highs \in Nat \ {0}
  BY DramAssumption
<1>2. Banks * Highs \in Nat /\ RegionRows * Banks \in Nat /\ (RegionRows * Banks) * Highs \in Nat
  BY <1>1
<1>3. (RegionRows * Banks) * Highs = RegionRows * (Banks * Highs)
  BY <1>1
<1>4. Banks * Highs = Highs * Banks
  BY <1>1
<1> QED  BY <1>1, <1>2, <1>3, <1>4 DEF Rows

LEMMA NewRowParts ==
  ASSUME NEW row \in 0 .. Rows - 1
  PROVE  \E bank \in 0 .. Banks - 1, high \in 0 .. Highs - 1, place \in 0 .. RegionRows - 1 :
           /\ row = RegionRows * (Banks * high + bank) + place
           /\ NewRow(row) = RegionRows * (Highs * bank + high) + place
           /\ place = row % RegionRows
<1> PICK region : region = row \div RegionRows
  OBVIOUS
<1> PICK place : place = row % RegionRows
  OBVIOUS
<1>1. /\ place \in 0 .. RegionRows - 1 /\ row = RegionRows * region + place
      /\ region \in 0 .. Banks * Highs - 1 /\ region = row \div RegionRows /\ place = row % RegionRows
  <2>1. place \in 0 .. RegionRows - 1 /\ row = RegionRows * region + place
    BY Sizes, Rest
  <2> PICK m : m = Banks * Highs
    OBVIOUS
  <2>2. m \in Nat /\ m = Banks * Highs /\ row \in Nat /\ row < RegionRows * m
    BY Sizes
  <2>3. row \div RegionRows \in 0 .. m - 1
    BY <2>2, Sizes, QuotientIn
  <2> QED  BY <2>1, <2>2, <2>3
<1> PICK bank : bank = region % Banks
  OBVIOUS
<1> PICK high : high = region \div Banks
  OBVIOUS
<1>2. /\ bank \in 0 .. Banks - 1 /\ region = Banks * high + bank
      /\ high \in 0 .. Highs - 1 /\ high = region \div Banks /\ bank = region % Banks
  <2>1. region \in Nat /\ region < Banks * Highs
    BY <1>1, Sizes
  <2>2. region \div Banks \in 0 .. Highs - 1
    BY <2>1, Sizes, QuotientIn
  <2>3. region % Banks \in 0 .. Banks - 1 /\ region = Banks * (region \div Banks) + (region % Banks)
    <3>1. Banks \in Nat \ {0} /\ region \in Int
      BY <2>1, Sizes
    <3> QED  BY <3>1, Rest, Zenon
  <2> QED  BY <2>2, <2>3
<1>3. NewRow(row) = (bank * Highs + high) * RegionRows + place
  BY <1>1, <1>2, Zenon DEF NewRow
<1>4. (bank * Highs + high) * RegionRows = RegionRows * (Highs * bank + high)
  BY <1>2, Sizes
<1>5. NewRow(row) = RegionRows * (Highs * bank + high) + place
  BY <1>3, <1>4, Zenon
<1>6. row = RegionRows * (Banks * high + bank) + place
  BY <1>1, <1>2, Zenon
<1> QED  BY <1>1, <1>2, <1>5, <1>6

LEMMA NewRowIn ==
  ASSUME NEW row \in 0 .. Rows - 1
  PROVE  NewRow(row) \in 0 .. Rows - 1
<1>1. PICK bank \in 0 .. Banks - 1, high \in 0 .. Highs - 1, place \in 0 .. RegionRows - 1 :
        NewRow(row) = RegionRows * (Highs * bank + high) + place
  BY NewRowParts
<1> PICK x : x = Highs * bank + high
  OBVIOUS
<1> PICK m : m = Highs * Banks
  OBVIOUS
<1>2. x \in 0 .. m - 1 /\ x = Highs * bank + high /\ m \in Nat /\ Rows = RegionRows * m
  <2>1. Highs * bank + high \in 0 .. Highs * Banks - 1
    BY Sizes, PlaceIn
  <2>2. Highs * Banks \in Nat
    BY Sizes
  <2> QED  BY <2>1, <2>2, Sizes
<1>3. RegionRows * x + place \in 0 .. RegionRows * m - 1
  BY <1>2, Sizes, PlaceIn
<1> QED  BY <1>1, <1>2, <1>3, Zenon

LEMMA NewRowOne ==
  ASSUME NEW row \in 0 .. Rows - 1, NEW other \in 0 .. Rows - 1, NewRow(row) = NewRow(other)
  PROVE  row = other
<1>1. PICK b1 \in 0 .. Banks - 1, h1 \in 0 .. Highs - 1, p1 \in 0 .. RegionRows - 1 :
        /\ row = RegionRows * (Banks * h1 + b1) + p1
        /\ NewRow(row) = RegionRows * (Highs * b1 + h1) + p1
  BY NewRowParts
<1>2. PICK b2 \in 0 .. Banks - 1, h2 \in 0 .. Highs - 1, p2 \in 0 .. RegionRows - 1 :
        /\ other = RegionRows * (Banks * h2 + b2) + p2
        /\ NewRow(other) = RegionRows * (Highs * b2 + h2) + p2
  BY NewRowParts
<1>3. Highs * b1 + h1 \in Int /\ Highs * b2 + h2 \in Int
  BY Sizes
<1>4. Highs * b1 + h1 = Highs * b2 + h2 /\ p1 = p2
  <2> PICK x : x = Highs * b1 + h1
    OBVIOUS
  <2> PICK y : y = Highs * b2 + h2
    OBVIOUS
  <2>1. x \in Int /\ y \in Int /\ x = Highs * b1 + h1 /\ y = Highs * b2 + h2
    BY <1>3
  <2>2. RegionRows * x + p1 = RegionRows * y + p2
    BY <1>1, <1>2, <2>1, Zenon
  <2>3. x = y /\ p1 = p2
    BY <2>1, <2>2, Sizes, OneQuotient
  <2> QED  BY <2>1, <2>3
<1>5. b1 = b2 /\ h1 = h2
  BY <1>4, Sizes, OneQuotient
<1> QED  BY <1>1, <1>2, <1>4, <1>5, Zenon

LEMMA NewRowNext ==
  ASSUME NEW row \in 0 .. Rows - 1, NEW next, next = row + 1, row % RegionRows # RegionRows - 1
  PROVE  NewRow(next) = NewRow(row) + 1 /\ NewRow(row) \in Int
<1> PICK region : region = row \div RegionRows
  OBVIOUS
<1> PICK place : place = row % RegionRows
  OBVIOUS
<1>1. /\ place \in 0 .. RegionRows - 1 /\ row = RegionRows * region + place
      /\ region \in Int /\ region = row \div RegionRows /\ place = row % RegionRows
      /\ place # RegionRows - 1
  BY Sizes, Rest
<1>2. /\ place + 1 \in 0 .. RegionRows - 1 /\ next = RegionRows * region + (place + 1)
      /\ next \in Int
  <2>1. RegionRows * region \in Int
    BY <1>1, Sizes, Times
  <2> QED  BY <1>1, <2>1, Sizes
<1> PICK r : r = next % RegionRows
  OBVIOUS
<1> PICK q : q = next \div RegionRows
  OBVIOUS
<1>3. r \in 0 .. RegionRows - 1 /\ q \in Int /\ next = RegionRows * q + r
      /\ r = next % RegionRows /\ q = next \div RegionRows
  BY <1>2, Sizes, Rest
<1>4. region = q /\ place + 1 = r
  <2> PICK p : p = place + 1
    OBVIOUS
  <2>1. p \in 0 .. RegionRows - 1 /\ p = place + 1 /\ RegionRows * region + p = RegionRows * q + r
    BY <1>2, <1>3
  <2>2. region = q /\ p = r
    BY <1>1, <1>3, <2>1, Sizes, OneQuotient
  <2> QED  BY <2>1, <2>2
<1> PICK base : base = ((region % Banks) * Highs + (region \div Banks)) * RegionRows
  OBVIOUS
<1>5. base \in Int /\ base = ((region % Banks) * Highs + (region \div Banks)) * RegionRows
  <2> PICK x : x = region % Banks
    OBVIOUS
  <2> PICK y : y = region \div Banks
    OBVIOUS
  <2>1. x \in Int /\ y \in Int /\ x = region % Banks /\ y = region \div Banks
    <3>1. Banks \in Nat \ {0} /\ region \in Int /\ 0 .. Banks - 1 \subseteq Int
      BY <1>1, Sizes
    <3>2. region % Banks \in 0 .. Banks - 1 /\ region \div Banks \in Int
      BY <3>1, Rest, Zenon
    <3> QED  BY <3>1, <3>2, Zenon
  <2>2. (x * Highs + y) * RegionRows \in Int
    BY <2>1, Sizes
  <2> QED  BY <2>1, <2>2, Zenon
<1>6. NewRow(row) = base + place
  BY <1>1, <1>5, Zenon DEF NewRow
<1>7. NewRow(next) = base + r
  BY <1>3, <1>4, <1>5, Zenon DEF NewRow
<1> QED  BY <1>1, <1>3, <1>4, <1>5, <1>6, <1>7

LEMMA RemapIs ==
  ASSUME NEW a \in Nat
  PROVE  addrReMapping(a) = 2 * NewRow(a \div 2) + (a % 2)
BY Zenon DEF addrReMapping, NewRow

LEMMA RemapIn ==
  ASSUME NEW a \in Halves
  PROVE  /\ addrReMapping(a) \in Halves
         /\ addrReMapping(a) % 2 = a % 2 /\ addrReMapping(a) \div 2 = NewRow(a \div 2)
         /\ a \div 2 \in 0 .. Rows - 1 /\ NewRow(a \div 2) \in 0 .. Rows - 1
<1>1. a \in Nat /\ a \div 2 \in 0 .. Rows - 1 /\ a % 2 \in {0, 1} /\ Rows \in Nat
  BY Sizes DEF Halves
<1> PICK n : n = NewRow(a \div 2)
  OBVIOUS
<1>2. n \in 0 .. Rows - 1 /\ n = NewRow(a \div 2)
  <2> PICK x : x = a \div 2
    OBVIOUS
  <2>1. x \in 0 .. Rows - 1
    BY <1>1
  <2>2. NewRow(x) \in 0 .. Rows - 1
    BY <2>1, NewRowIn
  <2> QED  BY <2>2
<1>3. addrReMapping(a) = 2 * n + (a % 2)
  BY <1>1, <1>2, RemapIs, Zenon
<1> PICK z : z = addrReMapping(a)
  OBVIOUS
<1>4. z = 2 * n + (a % 2) /\ z = addrReMapping(a)
  BY <1>3
<1>5. z \in Halves /\ z % 2 = a % 2 /\ z \div 2 = n
  BY <1>1, <1>2, <1>4 DEF Halves
<1> QED  BY <1>1, <1>2, <1>4, <1>5, Zenon

LEMMA RemapOne ==
  ASSUME NEW a \in Halves, NEW b \in Halves, addrReMapping(a) = addrReMapping(b)
  PROVE  a = b
<1>1. /\ addrReMapping(a) % 2 = a % 2 /\ addrReMapping(a) \div 2 = NewRow(a \div 2)
      /\ a \div 2 \in 0 .. Rows - 1
  BY RemapIn
<1>2. /\ addrReMapping(b) % 2 = b % 2 /\ addrReMapping(b) \div 2 = NewRow(b \div 2)
      /\ b \div 2 \in 0 .. Rows - 1
  BY RemapIn
<1> PICK x : x = a \div 2
  OBVIOUS
<1> PICK y : y = b \div 2
  OBVIOUS
<1>3. x = a \div 2 /\ y = b \div 2 /\ x \in 0 .. Rows - 1 /\ y \in 0 .. Rows - 1
  BY <1>1, <1>2
<1>4. NewRow(x) = NewRow(y)
  BY <1>1, <1>2, <1>3, Zenon
<1>5. x = y
  BY <1>3, <1>4, NewRowOne
<1>6. a % 2 = b % 2
  BY <1>1, <1>2, Zenon
<1> QED  BY <1>3, <1>5, <1>6, Sizes DEF Halves

LEMMA RemapNext ==
  ASSUME NEW a, WordFits(a), NEW z, z = a + 1
  PROVE  a \in Halves /\ z \in Halves /\ addrReMapping(z) = addrReMapping(a) + 1
<1>1. a \in Halves /\ z \in Halves /\ a \in Nat /\ z \in Nat
  BY Sizes DEF WordFits, Halves
<1>2. /\ addrReMapping(a) = 2 * NewRow(a \div 2) + (a % 2)
      /\ addrReMapping(z) = 2 * NewRow(z \div 2) + (z % 2)
  BY <1>1, RemapIs
<1> PICK x : x = a \div 2
  OBVIOUS
<1> PICK y : y = z \div 2
  OBVIOUS
<1>3. x = a \div 2 /\ y = z \div 2 /\ x \in 0 .. Rows - 1
  BY <1>1, RemapIn
<1>4. NewRow(x) \in Int
  BY <1>3, NewRowIn
<1> PICK n : n = NewRow(x)
  OBVIOUS
<1>5. n \in Int /\ n = NewRow(x)
  BY <1>4
<1>6. CASE a % 2 = 0
  <2>1. x = y /\ z % 2 = 1
    BY <1>1, <1>3, <1>6
  <2>2. addrReMapping(a) = 2 * n + 0 /\ addrReMapping(z) = 2 * n + 1
    BY <1>2, <1>3, <1>5, <1>6, <2>1, Zenon
  <2> QED  BY <1>1, <1>5, <2>2
<1>7. CASE a % 2 # 0
  <2>1. a % 2 = 1 /\ y = x + 1 /\ z % 2 = 0
    BY <1>1, <1>3, <1>7
  <2>2. x % RegionRows # RegionRows - 1
    BY <1>3, <2>1, Zenon DEF WordFits
  <2>3. NewRow(y) = NewRow(x) + 1
    BY <1>3, <2>1, <2>2, NewRowNext
  <2>4. addrReMapping(a) = 2 * n + 1 /\ addrReMapping(z) = 2 * (n + 1) + 0
    BY <1>2, <1>3, <1>5, <2>1, <2>3, Zenon
  <2> QED  BY <1>1, <1>5, <2>4
<1> QED  BY <1>6, <1>7

-----------------------------------------------------------------------------
(* The memory.  What it will hold when the rows in reqs are written, and   *)
(* then the words in cmdQ: each entry of either queue is a move from one   *)
(* content to the next.                                                    *)
Mem == [Halves -> Nat]
Words == Nat \X Nat
WriteCmds == [write : {TRUE}, addr : Nat, data : Words]
Puts == [{0, 1} -> Nat] \cup [{0} -> Nat] \cup [{1} -> Nat]
WriteRows == [row : Nat, put : Puts]

Store(m, a, w) == [m EXCEPT ![a] = w[1], ![a + 1] = w[2]]

PutRow(m, r) ==
  [h \in Halves |-> IF h \div 2 = r.row /\ h % 2 \in DOMAIN r.put THEN r.put[h % 2] ELSE m[h]]

PutMoves == {t \in Mem \X WriteRows \X Mem : t[3] = PutRow(t[1], t[2])}

CmdMoves == {t \in Mem \X WriteCmds \X Mem :
  /\ t[2].addr \in Halves /\ t[2].addr + 1 \in Halves
  /\ t[3] = Store(t[1], t[2].addr, t[2].data)}

(* half: of the word at the head of wc the first row is in wq already.     *)
Backed(m, wq, wc, half, fin) ==
  /\ wq \in Seq(WriteRows) /\ wc \in Seq(WriteCmds)
  /\ \E mid \in Mem :
       /\ Path(Mem, wq, m, mid, PutMoves) /\ Path(Mem, wc, mid, fin, CmdMoves)
       /\ half => /\ wc # <<>> /\ Head(wc).addr % 2 = 1
                  /\ mid[Head(wc).addr] = Head(wc).data[1]

LEMMA PutMove ==
  ASSUME NEW m \in Mem, NEW r \in WriteRows, NEW n
  PROVE  <<m, r, n>> \in PutMoves <=> n \in Mem /\ n = PutRow(m, r)
BY DEF PutMoves

LEMMA CmdMove ==
  ASSUME NEW m \in Mem, NEW c \in WriteCmds, NEW n
  PROVE  <<m, c, n>> \in CmdMoves <=>
           n \in Mem /\ c.addr \in Halves /\ c.addr + 1 \in Halves /\ n = Store(m, c.addr, c.data)
BY DEF CmdMoves

LEMMA PutsAre ==
  ASSUME NEW p \in Puts
  PROVE  /\ p # NoData /\ DOMAIN p \subseteq {0, 1} /\ \A h \in DOMAIN p : p[h] \in Nat
<1>1. DOMAIN NoData = {}
  BY DEF NoData
<1>2. DOMAIN p # {}
  BY DEF Puts
<1> QED  BY <1>1, <1>2 DEF Puts

LEMMA PutRowMem ==
  ASSUME NEW m \in Mem, NEW r \in WriteRows
  PROVE  PutRow(m, r) \in Mem
<1>1. r.put \in Puts
  BY DEF WriteRows
<1>2. \A h \in DOMAIN r.put : r.put[h] \in Nat
  BY <1>1, PutsAre
<1> QED  BY <1>2 DEF PutRow, Mem

LEMMA StoreIs ==
  ASSUME NEW m \in Mem, NEW a \in Halves, a + 1 \in Halves, NEW w \in Words
  PROVE  /\ Store(m, a, w) \in Mem
         /\ Store(m, a, w) = [h \in Halves |-> IF h = a + 1 THEN w[2] ELSE IF h = a THEN w[1] ELSE m[h]]
         /\ w[1] \in Nat /\ w[2] \in Nat /\ a \in Nat
<1>1. w[1] \in Nat /\ w[2] \in Nat
  BY DEF Words
<1>2. a \in Nat
  BY DEF Halves
<1> QED  BY <1>1, <1>2 DEF Store, Mem

(* Rows written from a word.                                               *)
LEMMA PutWhole ==
  ASSUME NEW m \in Mem, NEW a \in Halves, a + 1 \in Halves, NEW w \in Words, a % 2 = 0,
         NEW r, r = [row |-> a \div 2, put |-> [h \in {0, 1} |-> w[h + 1]]]
  PROVE  r \in WriteRows /\ PutRow(m, r) = Store(m, a, w)
<1>1. w[1] \in Nat /\ w[2] \in Nat /\ a \in Nat
  BY StoreIs
<1>2. r.row = a \div 2 /\ DOMAIN r.put = {0, 1} /\ r.put[0] = w[1] /\ r.put[1] = w[2]
      /\ r = [row |-> r.row, put |-> r.put] /\ r.put = [h \in {0, 1} |-> w[h + 1]]
  OBVIOUS
<1>3. r.put \in [{0, 1} -> Nat]
  BY <1>1, <1>2
<1>4. r \in WriteRows
  BY <1>1, <1>2, <1>3 DEF WriteRows, Puts
<1>5. ASSUME NEW h \in Halves
      PROVE  (IF h \div 2 = r.row /\ h % 2 \in DOMAIN r.put THEN r.put[h % 2] ELSE m[h])
               = (IF h = a + 1 THEN w[2] ELSE IF h = a THEN w[1] ELSE m[h])
  <2>1. h \in Nat
    BY DEF Halves
  <2>2. CASE h = a
    <3>1. h \div 2 = r.row /\ h % 2 = 0 /\ h # a + 1
      BY <1>1, <1>2, <2>1, <2>2
    <3> QED  BY <1>2, <2>2, <3>1
  <2>3. CASE h = a + 1
    <3>1. h \div 2 = r.row /\ h % 2 = 1
      BY <1>1, <1>2, <2>1, <2>3
    <3> QED  BY <1>2, <2>3, <3>1
  <2>4. CASE h # a /\ h # a + 1
    <3>1. h \div 2 # r.row
      BY <1>1, <1>2, <2>1, <2>4
    <3> QED  BY <2>4, <3>1
  <2> QED  BY <2>2, <2>3, <2>4
<1>6. PutRow(m, r) = Store(m, a, w)
  <2>1. Store(m, a, w) = [h \in Halves |-> IF h = a + 1 THEN w[2] ELSE IF h = a THEN w[1] ELSE m[h]]
    BY StoreIs
  <2> QED  BY <1>5, <2>1, Zenon DEF PutRow
<1> QED  BY <1>4, <1>6

LEMMA PutFirst ==
  ASSUME NEW m \in Mem, NEW a \in Halves, a + 1 \in Halves, NEW w \in Words, a % 2 = 1,
         NEW r, r = [row |-> a \div 2, put |-> [h \in {1} |-> w[1]]]
  PROVE  r \in WriteRows /\ PutRow(m, r) = [h \in Halves |-> IF h = a THEN w[1] ELSE m[h]]
<1>1. w[1] \in Nat /\ w[2] \in Nat /\ a \in Nat
  BY StoreIs
<1>2. r.row = a \div 2 /\ DOMAIN r.put = {1} /\ r.put[1] = w[1]
      /\ r = [row |-> r.row, put |-> r.put] /\ r.put = [h \in {1} |-> w[1]]
  OBVIOUS
<1>3. r.put \in [{1} -> Nat]
  BY <1>1, <1>2
<1>4. r \in WriteRows
  BY <1>1, <1>2, <1>3 DEF WriteRows, Puts
<1>5. ASSUME NEW h \in Halves
      PROVE  (IF h \div 2 = r.row /\ h % 2 \in DOMAIN r.put THEN r.put[h % 2] ELSE m[h])
               = (IF h = a THEN w[1] ELSE m[h])
  <2>1. h \in Nat
    BY DEF Halves
  <2>2. CASE h = a
    <3>1. h \div 2 = r.row /\ h % 2 = 1
      BY <1>1, <1>2, <2>1, <2>2
    <3> QED  BY <1>2, <2>2, <3>1
  <2>3. CASE h # a
    <3>1. ~(h \div 2 = r.row /\ h % 2 = 1)
      BY <1>1, <1>2, <2>1, <2>3
    <3> QED  BY <1>2, <2>3, <3>1
  <2> QED  BY <2>2, <2>3
<1>6. PutRow(m, r) = [h \in Halves |-> IF h = a THEN w[1] ELSE m[h]]
  BY <1>5, Zenon DEF PutRow
<1> QED  BY <1>4, <1>6

LEMMA PutSecond ==
  ASSUME NEW m \in Mem, NEW a \in Halves, a + 1 \in Halves, NEW w \in Words, a % 2 = 1,
         NEW r, r = [row |-> a \div 2 + 1, put |-> [h \in {0} |-> w[2]]]
  PROVE  r \in WriteRows /\ PutRow(m, r) = [h \in Halves |-> IF h = a + 1 THEN w[2] ELSE m[h]]
<1>1. w[1] \in Nat /\ w[2] \in Nat /\ a \in Nat
  BY StoreIs
<1>2. r.row = a \div 2 + 1 /\ DOMAIN r.put = {0} /\ r.put[0] = w[2]
      /\ r = [row |-> r.row, put |-> r.put] /\ r.put = [h \in {0} |-> w[2]]
  OBVIOUS
<1>3. r.put \in [{0} -> Nat]
  BY <1>1, <1>2
<1>4. r \in WriteRows
  BY <1>1, <1>2, <1>3 DEF WriteRows, Puts
<1>5. ASSUME NEW h \in Halves
      PROVE  (IF h \div 2 = r.row /\ h % 2 \in DOMAIN r.put THEN r.put[h % 2] ELSE m[h])
               = (IF h = a + 1 THEN w[2] ELSE m[h])
  <2>1. h \in Nat
    BY DEF Halves
  <2>2. CASE h = a + 1
    <3>1. h \div 2 = r.row /\ h % 2 = 0
      BY <1>1, <1>2, <2>1, <2>2
    <3> QED  BY <1>2, <2>2, <3>1
  <2>3. CASE h # a + 1
    <3>1. ~(h \div 2 = r.row /\ h % 2 = 0)
      BY <1>1, <1>2, <2>1, <2>3
    <3> QED  BY <1>2, <2>3, <3>1
  <2> QED  BY <2>2, <2>3
<1>6. PutRow(m, r) = [h \in Halves |-> IF h = a + 1 THEN w[2] ELSE m[h]]
  BY <1>5, Zenon DEF PutRow
<1> QED  BY <1>4, <1>6

(* A first entry makes one more move at the beginning.                     *)
LEMMA PathFrom ==
  ASSUME NEW S, NEW U, NEW q \in Seq(U), q # <<>>, NEW a \in S, NEW b, NEW c, NEW M,
         <<a, Head(q), c>> \in M, Path(S, Tail(q), c, b, M)
  PROVE  Path(S, q, a, b, M)
<1> PICK r : r = Tail(q)
  OBVIOUS
<1>1. /\ Len(q) \in Nat \ {0} /\ Len(r) = Len(q) - 1 /\ Head(q) = q[1]
      /\ \A k \in 1 .. Len(r) : r[k] = q[k + 1]
  OBVIOUS
<1>2. PICK st \in [0 .. Len(r) -> S] :
        /\ st[0] = c /\ st[Len(r)] = b
        /\ \A k \in 1 .. Len(r) : <<st[k - 1], r[k], st[k]>> \in M
  BY Zenon DEF Path
<1> PICK all : all = [k \in 0 .. Len(q) |-> IF k = 0 THEN a ELSE st[k - 1]]
  OBVIOUS
<1>3. /\ all \in [0 .. Len(q) -> S] /\ all[0] = a /\ all[1] = c /\ all[Len(q)] = b
      /\ \A k \in 1 .. Len(q) : all[k] = st[k - 1]
  BY <1>1, <1>2
<1>4. ASSUME NEW k \in 1 .. Len(q)
      PROVE  <<all[k - 1], q[k], all[k]>> \in M
  <2>1. CASE k = 1
    <3>1. all[k - 1] = a /\ all[k] = c /\ q[k] = Head(q)
      BY <1>1, <1>3, <2>1
    <3> QED  BY <3>1, Zenon
  <2>2. CASE k # 1
    <3> PICK i : i = k - 1
      OBVIOUS
    <3>1. i \in 1 .. Len(r) /\ k = i + 1 /\ i = k - 1 /\ i \in 1 .. Len(q)
      BY <1>1, <2>2
    <3>2. <<st[i - 1], r[i], st[i]>> \in M
      BY <1>2, <3>1
    <3>3. all[k] = st[i] /\ all[i] = st[i - 1] /\ r[i] = q[k]
      BY <1>1, <1>3, <3>1
    <3>4. all[k - 1] = st[i - 1]
      BY <3>1, <3>3, Zenon
    <3> QED  BY <3>2, <3>3, <3>4, Zenon
  <2> QED  BY <2>1, <2>2
<1> QED  BY <1>3, <1>4 DEF Path

(* Backed, step by step.                                                   *)
LEMMA BackedStart ==
  ASSUME NEW m \in Mem
  PROVE  Backed(m, <<>>, <<>>, FALSE, m)
<1>1. Path(Mem, <<>>, m, m, PutMoves) /\ Path(Mem, <<>>, m, m, CmdMoves)
  BY PathEmpty
<1>2. <<>> \in Seq(WriteRows) /\ <<>> \in Seq(WriteCmds)
  OBVIOUS
<1> QED  BY <1>1, <1>2, Zenon DEF Backed

LEMMA BackedEnds ==
  ASSUME NEW m, NEW wq, NEW wc, NEW half, NEW fin, Backed(m, wq, wc, half, fin)
  PROVE  /\ m \in Mem /\ fin \in Mem /\ wq \in Seq(WriteRows) /\ wc \in Seq(WriteCmds)
         /\ wq = <<>> /\ wc = <<>> => m = fin
<1>1. PICK mid \in Mem : Path(Mem, wq, m, mid, PutMoves) /\ Path(Mem, wc, mid, fin, CmdMoves)
  BY Zenon DEF Backed
<1>2. wq \in Seq(WriteRows) /\ wc \in Seq(WriteCmds)
  BY Zenon DEF Backed
<1>3. m \in Mem /\ (wq = <<>> => m = mid)
  BY <1>1, <1>2, PathEnds
<1>4. fin \in Mem /\ (wc = <<>> => mid = fin)
  BY <1>1, <1>2, PathEnds
<1> QED  BY <1>2, <1>3, <1>4

(* A word is added to cmdQ.                                                *)
LEMMA BackedCmd ==
  ASSUME NEW m, NEW wq, NEW wc, NEW half, NEW fin, Backed(m, wq, wc, half, fin),
         NEW c \in WriteCmds, c.addr \in Halves, c.addr + 1 \in Halves
  PROVE  /\ Backed(m, wq, Append(wc, c), half, Store(fin, c.addr, c.data))
         /\ Store(fin, c.addr, c.data) \in Mem
<1>1. PICK mid \in Mem :
        /\ Path(Mem, wq, m, mid, PutMoves) /\ Path(Mem, wc, mid, fin, CmdMoves)
        /\ half => wc # <<>> /\ Head(wc).addr % 2 = 1 /\ mid[Head(wc).addr] = Head(wc).data[1]
  BY Zenon DEF Backed
<1>2. wq \in Seq(WriteRows) /\ wc \in Seq(WriteCmds) /\ fin \in Mem
  BY BackedEnds
<1>3. c.data \in Words
  BY DEF WriteCmds
<1> PICK n : n = Store(fin, c.addr, c.data)
  OBVIOUS
<1>4. n \in Mem /\ n = Store(fin, c.addr, c.data)
  BY <1>2, <1>3, StoreIs
<1>5. <<fin, c, n>> \in CmdMoves
  BY <1>2, <1>4, CmdMove, Zenon
<1>6. Path(Mem, Append(wc, c), mid, n, CmdMoves)
  BY <1>1, <1>2, <1>4, <1>5, PathAppend, Zenon
<1>7. Append(wc, c) \in Seq(WriteCmds) /\ Append(wc, c) # <<>>
      /\ (wc # <<>> => Head(Append(wc, c)) = Head(wc))
  <2> PICK s : s = Append(wc, c)
    OBVIOUS
  <2>1. /\ s \in Seq(WriteCmds) /\ Len(s) = Len(wc) + 1 /\ Len(wc) \in Nat /\ s = Append(wc, c)
        /\ \A k \in 1 .. Len(wc) : s[k] = wc[k]
    BY <1>2, PutIn
  <2>2. s # <<>> /\ Head(s) = s[1]
    BY <2>1
  <2>3. wc # <<>> => Head(wc) = wc[1] /\ 1 \in 1 .. Len(wc)
    BY <1>2
  <2> QED  BY <2>1, <2>2, <2>3, Zenon
<1>8. Backed(m, wq, Append(wc, c), half, n)
  BY <1>1, <1>2, <1>6, <1>7, Zenon DEF Backed
<1> QED  BY <1>4, <1>8, Zenon

(* The head of cmdQ, as what it does to what is in the memory before it.   *)
LEMMA BackedHead ==
  ASSUME NEW m, NEW wq, NEW wc, NEW half, NEW fin, Backed(m, wq, wc, half, fin), wc # <<>>
  PROVE  /\ Head(wc) \in WriteCmds /\ Head(wc).addr \in Halves /\ Head(wc).addr + 1 \in Halves
         /\ Head(wc).data \in Words /\ Tail(wc) \in Seq(WriteCmds)
         /\ \E mid \in Mem, n \in Mem :
              /\ Path(Mem, wq, m, mid, PutMoves) /\ n = Store(mid, Head(wc).addr, Head(wc).data)
              /\ Path(Mem, Tail(wc), n, fin, CmdMoves)
              /\ half => Head(wc).addr % 2 = 1 /\ mid[Head(wc).addr] = Head(wc).data[1]
<1>1. PICK mid \in Mem :
        /\ Path(Mem, wq, m, mid, PutMoves) /\ Path(Mem, wc, mid, fin, CmdMoves)
        /\ half => wc # <<>> /\ Head(wc).addr % 2 = 1 /\ mid[Head(wc).addr] = Head(wc).data[1]
  BY Zenon DEF Backed
<1>2. wc \in Seq(WriteCmds) /\ Head(wc) \in WriteCmds /\ Tail(wc) \in Seq(WriteCmds)
  <2>1. wc \in Seq(WriteCmds)
    BY Zenon DEF Backed
  <2> QED  BY <2>1
<1>3. PICK n \in Mem : <<mid, Head(wc), n>> \in CmdMoves /\ Path(Mem, Tail(wc), n, fin, CmdMoves)
  BY <1>1, <1>2, PathTail, Zenon
<1>4. /\ Head(wc).addr \in Halves /\ Head(wc).addr + 1 \in Halves
      /\ n = Store(mid, Head(wc).addr, Head(wc).data)
  BY <1>2, <1>3, CmdMove, Zenon
<1>5. Head(wc).data \in Words
  BY <1>2 DEF WriteCmds
<1> QED  BY <1>1, <1>2, <1>3, <1>4, <1>5, Zenon

(* The whole of the word at the head of cmdQ has gone into reqs.           *)
LEMMA BackedPut ==
  ASSUME NEW m, NEW wq \in Seq(WriteRows), NEW wc \in Seq(WriteCmds), NEW fin,
         NEW mid \in Mem, Path(Mem, wq, m, mid, PutMoves), NEW r \in WriteRows,
         NEW n \in Mem, n = PutRow(mid, r), Path(Mem, wc, n, fin, CmdMoves)
  PROVE  Backed(m, Append(wq, r), wc, FALSE, fin)
<1>1. <<mid, r, n>> \in PutMoves
  BY PutMove, Zenon
<1>2. Path(Mem, Append(wq, r), m, n, PutMoves)
  BY <1>1, PathAppend, Zenon
<1>3. Append(wq, r) \in Seq(WriteRows)
  OBVIOUS
<1> QED  BY <1>2, <1>3, Zenon DEF Backed

LEMMA BackedWhole ==
  ASSUME NEW m, NEW wq, NEW wc, NEW half, NEW fin, Backed(m, wq, wc, half, fin), wc # <<>>,
         Head(wc).addr % 2 = 0, NEW r,
         r = [row |-> Head(wc).addr \div 2, put |-> [h \in {0, 1} |-> Head(wc).data[h + 1]]]
  PROVE  r \in WriteRows /\ Backed(m, Append(wq, r), Tail(wc), FALSE, fin)
<1>1. /\ Head(wc) \in WriteCmds /\ Head(wc).addr \in Halves /\ Head(wc).addr + 1 \in Halves
      /\ Head(wc).data \in Words /\ Tail(wc) \in Seq(WriteCmds)
  BY BackedHead
<1>2. PICK mid \in Mem, n \in Mem :
        /\ Path(Mem, wq, m, mid, PutMoves) /\ n = Store(mid, Head(wc).addr, Head(wc).data)
        /\ Path(Mem, Tail(wc), n, fin, CmdMoves)
        /\ half => Head(wc).addr % 2 = 1 /\ mid[Head(wc).addr] = Head(wc).data[1]
  BY BackedHead
<1> PICK a : a = Head(wc).addr
  OBVIOUS
<1> PICK w : w = Head(wc).data
  OBVIOUS
<1>3. /\ a \in Halves /\ a + 1 \in Halves /\ w \in Words /\ a % 2 = 0 /\ n = Store(mid, a, w)
      /\ r = [row |-> a \div 2, put |-> [h \in {0, 1} |-> w[h + 1]]]
  BY <1>1, <1>2
<1>4. r \in WriteRows /\ PutRow(mid, r) = n
  BY <1>3, PutWhole
<1>5. wq \in Seq(WriteRows)
  BY BackedEnds
<1> QED  BY <1>1, <1>2, <1>4, <1>5, BackedPut

LEMMA BackedSecond ==
  ASSUME NEW m, NEW wq, NEW wc, NEW half, NEW fin, Backed(m, wq, wc, half, fin), half,
         wc # <<>>, NEW r,
         r = [row |-> Head(wc).addr \div 2 + 1, put |-> [h \in {0} |-> Head(wc).data[2]]]
  PROVE  r \in WriteRows /\ Backed(m, Append(wq, r), Tail(wc), FALSE, fin)
<1>1. /\ Head(wc) \in WriteCmds /\ Head(wc).addr \in Halves /\ Head(wc).addr + 1 \in Halves
      /\ Head(wc).data \in Words /\ Tail(wc) \in Seq(WriteCmds)
  BY BackedHead
<1>2. PICK mid \in Mem, n \in Mem :
        /\ Path(Mem, wq, m, mid, PutMoves) /\ n = Store(mid, Head(wc).addr, Head(wc).data)
        /\ Path(Mem, Tail(wc), n, fin, CmdMoves)
        /\ half => Head(wc).addr % 2 = 1 /\ mid[Head(wc).addr] = Head(wc).data[1]
  <2>1. Backed(m, wq, wc, half, fin) /\ wc # <<>>
    OBVIOUS
  <2> QED  BY ONLY <2>1, BackedHead
<1> PICK a : a = Head(wc).addr
  OBVIOUS
<1> PICK w : w = Head(wc).data
  OBVIOUS
<1>3. /\ a \in Halves /\ a + 1 \in Halves /\ w \in Words /\ a % 2 = 1 /\ n = Store(mid, a, w)
      /\ mid[a] = w[1] /\ r = [row |-> a \div 2 + 1, put |-> [h \in {0} |-> w[2]]]
  BY <1>1, <1>2
<1>4. r \in WriteRows /\ PutRow(mid, r) = [h \in Halves |-> IF h = a + 1 THEN w[2] ELSE mid[h]]
  BY <1>3, PutSecond
<1>5. Store(mid, a, w) = [h \in Halves |-> IF h = a + 1 THEN w[2] ELSE IF h = a THEN w[1] ELSE mid[h]]
  BY <1>3, StoreIs
<1>6. \A h \in Halves : (IF h = a + 1 THEN w[2] ELSE mid[h])
                          = (IF h = a + 1 THEN w[2] ELSE IF h = a THEN w[1] ELSE mid[h])
  BY <1>3
<1>7. n = PutRow(mid, r)
  BY <1>3, <1>4, <1>5, <1>6, Zenon
<1>8. wq \in Seq(WriteRows)
  BY BackedEnds
<1> QED  BY <1>1, <1>2, <1>4, <1>7, <1>8, BackedPut

(* The first row only: the word stays at the head of cmdQ, and will give   *)
(* that row once more.                                                     *)
LEMMA BackedFirst ==
  ASSUME NEW m, NEW wq, NEW wc, NEW half, NEW fin, Backed(m, wq, wc, half, fin), wc # <<>>,
         Head(wc).addr % 2 = 1, NEW r,
         r = [row |-> Head(wc).addr \div 2, put |-> [h \in {1} |-> Head(wc).data[1]]]
  PROVE  r \in WriteRows /\ Backed(m, Append(wq, r), wc, TRUE, fin)
<1>1. /\ Head(wc) \in WriteCmds /\ Head(wc).addr \in Halves /\ Head(wc).addr + 1 \in Halves
      /\ Head(wc).data \in Words /\ Tail(wc) \in Seq(WriteCmds)
  BY BackedHead
<1>2. PICK mid \in Mem, n \in Mem :
        /\ Path(Mem, wq, m, mid, PutMoves) /\ n = Store(mid, Head(wc).addr, Head(wc).data)
        /\ Path(Mem, Tail(wc), n, fin, CmdMoves)
        /\ half => Head(wc).addr % 2 = 1 /\ mid[Head(wc).addr] = Head(wc).data[1]
  BY BackedHead
<1> PICK a : a = Head(wc).addr
  OBVIOUS
<1> PICK w : w = Head(wc).data
  OBVIOUS
<1>3. /\ a \in Halves /\ a + 1 \in Halves /\ w \in Words /\ a % 2 = 1 /\ n = Store(mid, a, w)
      /\ r = [row |-> a \div 2, put |-> [h \in {1} |-> w[1]]]
      /\ a = Head(wc).addr /\ w = Head(wc).data
  BY <1>1, <1>2
<1> PICK x : x = PutRow(mid, r)
  OBVIOUS
<1>4. /\ r \in WriteRows /\ x = [h \in Halves |-> IF h = a THEN w[1] ELSE mid[h]]
      /\ x \in Mem /\ x = PutRow(mid, r)
  BY <1>3, PutFirst, PutRowMem
<1>5. /\ Store(mid, a, w) = [h \in Halves |-> IF h = a + 1 THEN w[2] ELSE IF h = a THEN w[1] ELSE mid[h]]
      /\ Store(x, a, w) = [h \in Halves |-> IF h = a + 1 THEN w[2] ELSE IF h = a THEN w[1] ELSE x[h]]
  <2>1. Store(mid, a, w) = [h \in Halves |-> IF h = a + 1 THEN w[2] ELSE IF h = a THEN w[1] ELSE mid[h]]
    BY <1>3, StoreIs
  <2>2. Store(x, a, w) = [h \in Halves |-> IF h = a + 1 THEN w[2] ELSE IF h = a THEN w[1] ELSE x[h]]
    <3>1. x \in Mem /\ a \in Halves /\ a + 1 \in Halves /\ w \in Words
      BY <1>3, <1>4, Zenon
    <3> QED  BY <3>1, StoreIs
  <2> QED  BY <2>1, <2>2, Zenon
<1>6. \A h \in Halves : (IF h = a + 1 THEN w[2] ELSE IF h = a THEN w[1] ELSE x[h])
                          = (IF h = a + 1 THEN w[2] ELSE IF h = a THEN w[1] ELSE mid[h])
  BY <1>4
<1>7. n = Store(x, a, w)
  BY <1>3, <1>5, <1>6, Zenon
<1>8. wq \in Seq(WriteRows) /\ wc \in Seq(WriteCmds)
  BY BackedEnds
<1>9. Path(Mem, wc, x, fin, CmdMoves)
  <2>1. <<x, Head(wc), n>> \in CmdMoves
    <3>1. n = Store(x, Head(wc).addr, Head(wc).data)
      BY <1>3, <1>7, Zenon
    <3>2. /\ x \in Mem /\ n \in Mem /\ Head(wc) \in WriteCmds
          /\ Head(wc).addr \in Halves /\ Head(wc).addr + 1 \in Halves
      BY <1>1, <1>4, Zenon
    <3> QED  BY ONLY <3>1, <3>2, CmdMove, Zenon
  <2> QED  BY <1>2, <1>4, <1>8, <2>1, PathFrom
<1>10. Backed(m, Append(wq, r), wc, FALSE, fin)
  BY <1>2, <1>4, <1>8, <1>9, BackedPut
<1>11. Path(Mem, Append(wq, r), m, x, PutMoves)
  <2>1. <<mid, r, x>> \in PutMoves
    BY <1>4, PutMove, Zenon
  <2> QED  BY <1>2, <1>4, <1>8, <2>1, PathAppend, Zenon
<1>12. x[a] = w[1]
  BY <1>3, <1>4
<1>13. x[Head(wc).addr] = Head(wc).data[1]
  BY <1>3, <1>12, Zenon
<1>14. Append(wq, r) \in Seq(WriteRows)
  BY <1>4, <1>8
<1> QED  BY <1>4, <1>8, <1>9, <1>11, <1>13, <1>14, Zenon DEF Backed

(* The memory writes the row at the head of reqs.                          *)
LEMMA BackedRow ==
  ASSUME NEW m, NEW wq, NEW wc, NEW half, NEW fin, Backed(m, wq, wc, half, fin), wq # <<>>
  PROVE  /\ Head(wq) \in WriteRows /\ Head(wq).put # NoData
         /\ Backed(PutRow(m, Head(wq)), Tail(wq), wc, half, fin)
<1>1. PICK mid \in Mem :
        /\ Path(Mem, wq, m, mid, PutMoves) /\ Path(Mem, wc, mid, fin, CmdMoves)
        /\ half => wc # <<>> /\ Head(wc).addr % 2 = 1 /\ mid[Head(wc).addr] = Head(wc).data[1]
  BY Zenon DEF Backed
<1>2. wq \in Seq(WriteRows) /\ wc \in Seq(WriteCmds) /\ m \in Mem
  BY BackedEnds
<1>3. Head(wq) \in WriteRows /\ Tail(wq) \in Seq(WriteRows)
  BY <1>2
<1>4. PICK n \in Mem : <<m, Head(wq), n>> \in PutMoves /\ Path(Mem, Tail(wq), n, mid, PutMoves)
  BY <1>1, <1>2, PathTail, Zenon
<1>5. n = PutRow(m, Head(wq))
  BY <1>2, <1>3, <1>4, PutMove, Zenon
<1>6. Backed(n, Tail(wq), wc, half, fin)
  BY <1>1, <1>2, <1>3, <1>4, Zenon DEF Backed
<1>7. Head(wq).put \in Puts
  BY <1>3 DEF WriteRows
<1> QED  BY <1>3, <1>5, <1>6, <1>7, PutsAre, Zenon

-----------------------------------------------------------------------------
(* The words on their way to cmdQ, as moves of the next address and of the *)
(* memory as clients address it.                                           *)
Logical(m) == [h \in Halves |-> m[addrReMapping(h)]]

WordMoves == {t \in (Nat \X Mem) \X Words \X (Nat \X Mem) :
  WordFits(t[1][1]) /\ t[3] = <<t[1][1] + 2, Store(t[1][2], t[1][1], t[2])>>}

Giving(q, a, m, e, l) == Path(Nat \X Mem, q, <<a, m>>, <<e, l>>, WordMoves)

LEMMA WordMove ==
  ASSUME NEW a, NEW m, NEW w, NEW u, <<<<a, m>>, w, u>> \in WordMoves
  PROVE  a \in Nat /\ m \in Mem /\ w \in Words /\ WordFits(a) /\ u = <<a + 2, Store(m, a, w)>>
<1> PICK t : t = <<<<a, m>>, w, u>>
  OBVIOUS
<1>1. t[1] = <<a, m>> /\ t[2] = w /\ t[3] = u /\ t[1][1] = a /\ t[1][2] = m /\ t \in WordMoves
  OBVIOUS
<1>2. t \in (Nat \X Mem) \X Words \X (Nat \X Mem)
  BY <1>1 DEF WordMoves
<1>3. t[1] \in Nat \X Mem /\ t[2] \in Words
  BY <1>2
<1>4. a \in Nat /\ m \in Mem /\ w \in Words
  BY <1>1, <1>3
<1>5. WordFits(t[1][1]) /\ t[3] = <<t[1][1] + 2, Store(t[1][2], t[1][1], t[2])>>
  BY <1>1, Zenon DEF WordMoves
<1> QED  BY <1>1, <1>4, <1>5, Zenon

LEMMA WordMoveIs ==
  ASSUME NEW a \in Nat, NEW m \in Mem, NEW w \in Words, WordFits(a)
  PROVE  /\ <<<<a, m>>, w, <<a + 2, Store(m, a, w)>>>> \in WordMoves
         /\ Store(m, a, w) \in Mem /\ a + 2 \in Nat /\ a \in Halves /\ a + 1 \in Halves
<1>1. a \in Halves /\ a + 1 \in Halves
  BY RemapNext
<1>2. Store(m, a, w) \in Mem
  BY <1>1, StoreIs
<1> PICK n : n = Store(m, a, w)
  OBVIOUS
<1> PICK u : u = <<a + 2, n>>
  OBVIOUS
<1> PICK v : v = <<a, m>>
  OBVIOUS
<1> PICK t : t = <<v, w, u>>
  OBVIOUS
<1>3. n \in Mem /\ n = Store(m, a, w) /\ a + 2 \in Nat
  BY <1>2
<1>4. u \in Nat \X Mem /\ v \in Nat \X Mem
  BY <1>3
<1>5. t \in (Nat \X Mem) \X Words \X (Nat \X Mem)
  BY <1>4
<1>6. t[1] = v /\ t[2] = w /\ t[3] = u /\ v[1] = a /\ v[2] = m
  OBVIOUS
<1>7. t[1][1] = a /\ t[1][2] = m
  BY <1>6, Zenon
<1>8. t[3] = <<t[1][1] + 2, Store(t[1][2], t[1][1], t[2])>>
  BY <1>3, <1>6, <1>7, Zenon
<1>9. t \in WordMoves
  BY <1>5, <1>7, <1>8, Zenon DEF WordMoves
<1>10. t = <<<<a, m>>, w, <<a + 2, Store(m, a, w)>>>>
  BY <1>3, Zenon
<1> QED  BY <1>1, <1>3, <1>9, <1>10, Zenon

LEMMA GivingNone ==
  ASSUME NEW a \in Nat, NEW m \in Mem
  PROVE  Giving(<<>>, a, m, a, m)
<1>1. <<a, m>> \in Nat \X Mem
  OBVIOUS
<1> QED  BY <1>1, PathEmpty, Zenon DEF Giving

LEMMA GivingEnds ==
  ASSUME NEW q \in Seq(Words), NEW a, NEW m, NEW e, NEW l, Giving(q, a, m, e, l)
  PROVE  /\ a \in Nat /\ m \in Mem /\ e \in Nat /\ l \in Mem
         /\ q = <<>> => a = e /\ m = l
<1> PICK v : v = <<a, m>>
  OBVIOUS
<1> PICK u : u = <<e, l>>
  OBVIOUS
<1>1. v = <<a, m>> /\ u = <<e, l>> /\ Path(Nat \X Mem, q, v, u, WordMoves)
  BY DEF Giving
<1>2. v \in Nat \X Mem /\ u \in Nat \X Mem /\ (q = <<>> => v = u)
  BY <1>1, PathEnds, Zenon
<1> QED  BY <1>1, <1>2

LEMMA GivingMore ==
  ASSUME NEW q \in Seq(Words), NEW a, NEW m, NEW e, NEW l, Giving(q, a, m, e, l),
         WordFits(e), NEW w \in Words
  PROVE  /\ Giving(Append(q, w), a, m, e + 2, Store(l, e, w))
         /\ Store(l, e, w) \in Mem /\ e + 2 \in Nat
<1>1. e \in Nat /\ l \in Mem
  BY GivingEnds
<1>2. /\ <<<<e, l>>, w, <<e + 2, Store(l, e, w)>>>> \in WordMoves
      /\ Store(l, e, w) \in Mem /\ e + 2 \in Nat
  BY <1>1, WordMoveIs
<1>3. <<e + 2, Store(l, e, w)>> \in Nat \X Mem
  BY <1>2
<1>4. Path(Nat \X Mem, q, <<a, m>>, <<e, l>>, WordMoves)
  BY Zenon DEF Giving
<1>5. Path(Nat \X Mem, Append(q, w), <<a, m>>, <<e + 2, Store(l, e, w)>>, WordMoves)
  BY <1>2, <1>3, <1>4, PathAppend, Zenon
<1> QED  BY <1>2, <1>5, Zenon DEF Giving

LEMMA GivingFirst ==
  ASSUME NEW q \in Seq(Words), q # <<>>, NEW a, NEW m, NEW e, NEW l, Giving(q, a, m, e, l)
  PROVE  /\ Head(q) \in Words /\ WordFits(a) /\ a \in Nat /\ m \in Mem
         /\ Giving(Tail(q), a + 2, Store(m, a, Head(q)), e, l)
<1>1. a \in Nat /\ m \in Mem
  BY GivingEnds
<1>2. PICK u \in Nat \X Mem : /\ <<<<a, m>>, Head(q), u>> \in WordMoves
                              /\ Path(Nat \X Mem, Tail(q), u, <<e, l>>, WordMoves)
  BY PathTail, Zenon DEF Giving
<1>3. Head(q) \in Words /\ WordFits(a) /\ u = <<a + 2, Store(m, a, Head(q))>>
  BY <1>2, WordMove, Zenon
<1> QED  BY <1>1, <1>2, <1>3, Zenon DEF Giving

(* A word stored at its permuted address is where its client addresses it. *)
LEMMA LogicalStore ==
  ASSUME NEW fin \in Mem, NEW a, WordFits(a), NEW w \in Words, NEW z, z = addrReMapping(a)
  PROVE  /\ z \in Halves /\ z + 1 \in Halves
         /\ Logical(Store(fin, z, w)) = Store(Logical(fin), a, w)
<1> PICK b : b = a + 1
  OBVIOUS
<1>1. a \in Halves /\ b \in Halves /\ b = a + 1 /\ addrReMapping(b) = z + 1
  BY RemapNext
<1>2. z \in Halves /\ z + 1 \in Halves
  <2>1. addrReMapping(a) \in Halves /\ addrReMapping(b) \in Halves
    BY <1>1, RemapIn
  <2> QED  BY <1>1, <2>1, Zenon
<1> PICK n : n = Logical(fin)
  OBVIOUS
<1>3. n = Logical(fin) /\ n \in Mem /\ \A h \in Halves : n[h] = fin[addrReMapping(h)]
  <2>1. \A h \in Halves : addrReMapping(h) \in Halves
    BY RemapIn
  <2> QED  BY <2>1 DEF Logical, Mem
<1>4. Store(n, a, w) = [h \in Halves |-> IF h = a + 1 THEN w[2] ELSE IF h = a THEN w[1] ELSE n[h]]
  BY <1>1, <1>3, StoreIs
<1> PICK f : f = Store(fin, z, w)
  OBVIOUS
<1>5. f = [h \in Halves |-> IF h = z + 1 THEN w[2] ELSE IF h = z THEN w[1] ELSE fin[h]]
      /\ f = Store(fin, z, w)
  BY <1>2, StoreIs
<1>6. ASSUME NEW h \in Halves
      PROVE  f[addrReMapping(h)] = (IF h = a + 1 THEN w[2] ELSE IF h = a THEN w[1] ELSE n[h])
  <2> PICK g : g = addrReMapping(h)
    OBVIOUS
  <2>1. g \in Halves /\ g = addrReMapping(h) /\ n[h] = fin[g]
    BY <1>3, RemapIn
  <2>2. f[g] = IF g = z + 1 THEN w[2] ELSE IF g = z THEN w[1] ELSE fin[g]
    BY <1>5, <2>1, Zenon
  <2>3. (g = z <=> h = a) /\ (g = z + 1 <=> h = b)
    BY <1>1, <2>1, RemapOne, Zenon
  <2> QED  BY <1>1, <2>1, <2>2, <2>3, Zenon
<1>7. Logical(f) = Store(n, a, w)
  BY <1>4, <1>6, Zenon DEF Logical
<1> QED  BY <1>2, <1>3, <1>5, <1>7, Zenon

LEMMA LogicalMem ==
  ASSUME NEW m \in Mem
  PROVE  Logical(m) \in Mem
<1>1. \A h \in Halves : addrReMapping(h) \in Halves
  BY RemapIn
<1> QED  BY <1>1 DEF Logical, Mem

-----------------------------------------------------------------------------
(* A queue that holds number a, and so on, up to but not including z, of   *)
(* what F counts.                                                          *)
Counted(S, q, a, z, F) ==
  q \in Seq(S) /\ Len(q) = z - a /\ \A k \in 1 .. Len(q) : q[k] = F[a + (k - 1)]

LEMMA CountedNone ==
  ASSUME NEW S, NEW a \in Nat, NEW F
  PROVE  Counted(S, <<>>, a, a, F)
BY DEF Counted

LEMMA CountedEnds ==
  ASSUME NEW S, NEW q, NEW a \in Nat, NEW z \in Nat, NEW F, Counted(S, q, a, z, F)
  PROVE  a <= z /\ (q = <<>> <=> a = z) /\ q \in Seq(S)
<1>1. q \in Seq(S) /\ Len(q) = z - a
  BY DEF Counted
<1>2. Len(q) \in Nat /\ (q = <<>> <=> Len(q) = 0)
  BY <1>1
<1> QED  BY <1>1, <1>2

LEMMA CountedFirst ==
  ASSUME NEW S, NEW q, NEW a \in Nat, NEW z \in Nat, NEW F, Counted(S, q, a, z, F), q # <<>>
  PROVE  Head(q) = F[a] /\ Head(q) \in S /\ a < z /\ Counted(S, Tail(q), a + 1, z, F)
<1> PICK r : r = Tail(q)
  OBVIOUS
<1>1. q \in Seq(S) /\ Len(q) = z - a /\ \A k \in 1 .. Len(q) : q[k] = F[a + (k - 1)]
  BY DEF Counted
<1>2. /\ r \in Seq(S) /\ Len(r) = Len(q) - 1 /\ Len(q) \in Nat \ {0} /\ r = Tail(q)
      /\ \A k \in 1 .. Len(q) - 1 : r[k] = q[k + 1]
      /\ Head(q) = q[1] /\ q[1] \in S
  BY <1>1, TakenOut
<1>3. Head(q) = F[a]
  <2>1. 1 \in 1 .. Len(q) /\ a + (1 - 1) = a
    BY <1>2
  <2>2. q[1] = F[a + (1 - 1)]
    BY <1>1, <2>1
  <2> QED  BY <1>2, <2>1, <2>2, Zenon
<1>4. a < z
  BY <1>1, <1>2
<1>5. ASSUME NEW k \in 1 .. Len(r) PROVE r[k] = F[(a + 1) + (k - 1)]
  <2> PICK j : j = k + 1
    OBVIOUS
  <2>1. j \in 1 .. Len(q) /\ k \in 1 .. Len(q) - 1 /\ a + (j - 1) = (a + 1) + (k - 1) /\ j = k + 1
    BY <1>2
  <2>2. q[j] = F[a + (j - 1)]
    BY <1>1, <2>1, Zenon
  <2> QED  BY <1>2, <2>1, <2>2, Zenon
<1>6. Len(r) = z - (a + 1)
  BY <1>1, <1>2
<1>7. Counted(S, r, a + 1, z, F)
  BY <1>2, <1>5, <1>6, Zenon DEF Counted
<1> QED  BY <1>2, <1>3, <1>4, <1>7, Zenon

LEMMA CountedMore ==
  ASSUME NEW S, NEW q, NEW a \in Nat, NEW z \in Nat, NEW F, Counted(S, q, a, z, F),
         NEW e \in S, e = F[z]
  PROVE  Counted(S, Append(q, e), a, z + 1, F)
<1> PICK r : r = Append(q, e)
  OBVIOUS
<1>1. q \in Seq(S) /\ Len(q) = z - a /\ \A k \in 1 .. Len(q) : q[k] = F[a + (k - 1)]
  BY DEF Counted
<1>2. /\ r \in Seq(S) /\ Len(r) = Len(q) + 1 /\ Len(q) \in Nat /\ r = Append(q, e)
      /\ \A k \in 1 .. Len(q) : r[k] = q[k]
      /\ r[Len(q) + 1] = e
  <2>1. q \in Seq(S)
    BY <1>1
  <2>2. /\ Append(q, e) \in Seq(S) /\ Len(Append(q, e)) = Len(q) + 1 /\ Len(q) \in Nat
        /\ \A k \in 1 .. Len(q) : Append(q, e)[k] = q[k] /\ q[k] \in S
        /\ Append(q, e)[Len(q) + 1] = e
    BY <2>1, PutIn
  <2> QED  BY <2>2
<1>3. ASSUME NEW k \in 1 .. Len(r) PROVE r[k] = F[a + (k - 1)]
  <2>1. CASE k \in 1 .. Len(q)
    BY <1>1, <1>2, <2>1, Zenon
  <2>2. CASE k \notin 1 .. Len(q)
    <3>1. k = Len(q) + 1 /\ a + (k - 1) = z
      BY <1>1, <1>2, <2>2
    <3> QED  BY <1>2, <3>1, Zenon
  <2> QED  BY <2>1, <2>2
<1>4. Len(r) = (z + 1) - a
  BY <1>1, <1>2
<1>5. Counted(S, r, a, z + 1, F)
  BY <1>2, <1>3, <1>4, Zenon DEF Counted
<1> QED  BY <1>2, <1>5, Zenon

(* Queues of which one follows the other.                                  *)
LEMMA JoinAppend ==
  ASSUME NEW S, NEW p \in Seq(S), NEW q \in Seq(S), NEW e \in S
  PROVE  Append(p \o q, e) = p \o Append(q, e)
OBVIOUS

LEMMA JoinMoved ==
  ASSUME NEW S, NEW p \in Seq(S), NEW q \in Seq(S), q # <<>>
  PROVE  /\ Append(p, Head(q)) \o Tail(q) = p \o q
         /\ Head(q) \in S /\ Tail(q) \in Seq(S) /\ Append(p, Head(q)) \in Seq(S)
OBVIOUS

LEMMA JoinTail ==
  ASSUME NEW S, NEW p \in Seq(S), NEW q \in Seq(S), p # <<>>
  PROVE  Head(p \o q) = Head(p) /\ Tail(p \o q) = Tail(p) \o q /\ p \o q # <<>>
OBVIOUS

LEMMA JoinNone ==
  ASSUME NEW S, NEW p \in Seq(S)
  PROVE  p \o <<>> = p /\ <<>> \o p = p
OBVIOUS

LEMMA SeqOfMore ==
  ASSUME NEW S, NEW T, S \subseteq T, NEW q \in Seq(S)
  PROVE  q \in Seq(T)
OBVIOUS

LEMMA JoinLens ==
  ASSUME NEW S, NEW p \in Seq(S), NEW q \in Seq(S)
  PROVE  Len(p \o q) = Len(p) + Len(q) /\ Len(p) \in Nat /\ Len(q) \in Nat /\ p \o q \in Seq(S)
OBVIOUS

LEMMA OneIn ==
  ASSUME NEW e
  PROVE  /\ Append(<<>>, e) = <<e>> /\ Head(<<e>>) = e /\ Tail(<<e>>) = <<>>
         /\ <<e>> # <<>> /\ Len(<<e>>) = 1
OBVIOUS

-----------------------------------------------------------------------------
(* The state.                                                              *)
ReadRows == [row : Nat, put : {NoData}]
ReadCmds == [write : {FALSE}, addr : Nat]
Part == [addr : Nat, left : Nat]
Sent == [client : Readers, data : Words]
Notes == [cache : BOOLEAN, offset : {0, 1}]

BurstTypes ==
  /\ writerM \in [Writers -> Seq(Words)] /\ writerdQ \in Seq(Words)
  /\ readerQs \in [Readers -> Seq(Words)] /\ expected \in [Readers -> Seq(Words)]
  /\ owed \in [Writers -> Part] /\ written \in Nat /\ latest \in Mem
  /\ readCur \in Part /\ writeCur \in Part
  /\ curReadCnt \in Nat /\ curWriteCnt \in Nat /\ nextRow \in BOOLEAN

(* The write bursts.  c words of them have not passed the splitter.        *)
NoWrites == writerQ = <<>> /\ mWriter = [j \in Writers |-> <<>>]

AskedToWrite(j, b) ==
  \/ writerQ = <<>> /\ mWriter = [l \in Writers |-> IF l = j THEN <<b>> ELSE <<>>]
  \/ writerQ = <<b>> /\ mWriter = [l \in Writers |-> <<>>]

(* Writer j has given g, which is in its merge, and owes own.              *)
Gives(j, g, own) ==
  /\ writerM = [l \in Writers |-> IF l = j THEN g ELSE <<>>]
  /\ owed[j] = own /\ \A l \in Writers : l # j => owed[l].left = 0

(* The words it owes go to e, and so on.                                   *)
Owes(own, e) ==
  /\ own.left > 0 => own.addr = e
  /\ \A k \in 0 .. own.left - 1 : WordFits(own.addr + 2 * k)

(* No writer owes anything, and all words are in writerdQ.                 *)
AllGiven(fin, e) ==
  /\ NoWrites
  /\ writerM = [l \in Writers |-> <<>>] /\ \A l \in Writers : owed[l].left = 0
  /\ Len(writerdQ) = curWriteCnt
  /\ Giving(writerdQ, writeCur.addr, Logical(fin), e, latest)

(* The burst of writer j is the one the controller is at.                  *)
Started(fin, c, j, g, own, e) ==
  /\ j \in Writers /\ g \in Seq(Words) /\ own \in Part /\ NoWrites
  /\ Gives(j, g, own) /\ c = Len(g) + own.left /\ Owes(own, e)
  /\ Len(writerdQ) + c = curWriteCnt
  /\ Giving(writerdQ \o g, writeCur.addr, Logical(fin), e, latest)

(* It is still to come: the words up to o are of the one before it.        *)
Waits(fin, c, j, b, g, own, e, o, n, x, m) ==
  /\ j \in Writers /\ b \in WriteBursts /\ g \in Seq(Words) /\ own \in Part
  /\ o \in Seq(Words) /\ n \in Seq(Words) /\ AskedToWrite(j, b)
  /\ Gives(j, g, own) /\ c = Len(g) + own.left /\ Owes(own, e)
  /\ writerdQ \o g = o \o n /\ Len(o) = curWriteCnt /\ Len(n) + own.left = b.words
  /\ Giving(o, writeCur.addr, Logical(fin), x, m) /\ Giving(n, b.addr, m, e, latest)

WriteSide(fin, c) ==
  \/ c = 0 /\ \E e : AllGiven(fin, e)
  \/ \E j, g, own, e : Started(fin, c, j, g, own, e)
  \/ \E j, b, g, own, e, o, n, x, m : Waits(fin, c, j, b, g, own, e, o, n, x, m)

(* The read bursts.                                                        *)
NoReads == readerQ = <<>> /\ mReader = [i \in Readers |-> <<>>]

Asking(i, b) == [addr |-> b.addr, words |-> b.words, client |-> i]

AskedToRead(i, b) ==
  \/ readerQ = <<>> /\ mReader = [r \in Readers |-> IF r = i THEN <<Asking(i, b)>> ELSE <<>>]
  \/ readerQ = <<Asking(i, b)>> /\ mReader = [r \in Readers |-> <<>>]

PipeIdle ==
  /\ readCur.left = 0 /\ curReadCnt = 0
  /\ readerdQ = <<>> /\ rightSft = <<>> /\ readOffsetQ = <<>> /\ respSyncQ = <<>> /\ resps = <<>>

(* Of burst b: its words; the rows that hold them; and what is asked for   *)
(* and noted for each of these.                                            *)
WordsAt(l, b) == [k \in Nat |-> <<l[b.addr + 2 * k], l[b.addr + 2 * k + 1]>>]

RowNo(b, t) ==
  IF b.addr % 2 = 1 THEN addrReMapping(b.addr + 2 * (t \div 2)) \div 2 + (t % 2)
  ELSE addrReMapping(b.addr + 2 * t) \div 2

RowsAt(m, b) == [t \in Nat |-> <<m[2 * RowNo(b, t)], m[2 * RowNo(b, t) + 1]>>]
RowReqs(b) == [t \in Nat |-> [row |-> RowNo(b, t), put |-> NoData]]
OffsOf(b) == [t \in Nat |-> [cache |-> b.addr % 2 = 1 /\ t % 2 = 0, offset |-> b.addr % 2]]
CmdsOf(b) == [k \in Nat |-> [write |-> FALSE, addr |-> addrReMapping(b.addr + 2 * k)]]
SentTo(i, l, b) == [k \in Nat |-> [client |-> i, data |-> WordsAt(l, b)[k]]]

Expects(i, rest) == expected = [readerQs EXCEPT ![i] = @ \o rest]

(* Words up to d have passed the splitter.                                 *)
Promised(i, b, rest, d) ==
  /\ Expects(i, rest) /\ Counted(Words, rest, d, b.words, WordsAt(latest, b))
  /\ curCnt = b.words - d

ReadWaits(rq, rc, i, b, rest) ==
  /\ i \in Readers /\ b \in ReadBursts /\ AskedToRead(i, b)
  /\ PipeIdle /\ rq = <<>> /\ rc = <<>> /\ Promised(i, b, rest, 0)

(* Words up to p have passed the burst controller, up to c are shifted, up *)
(* to y asked for, x of these in rows.                                     *)
Passing(i, b, d, p) ==
  /\ Counted(Sent, readerdQ, d, p, SentTo(i, latest, b))
  /\ curReadCnt = b.words - p /\ curClientIdx = i

Shifted(b, p, c) == Counted(Words, rightSft, p, c, WordsAt(latest, b))

AskingFor(b, y) ==
  readCur.left = b.words - y /\ (y < b.words => readCur.addr = b.addr + 2 * y)

(* Rows of b: up to t0 are used, up to s in respSyncQ or past it, up to t1 *)
(* read from the memory, up to t2 asked for.                               *)
Noted(b, t0, t2) == Counted(Notes, readOffsetQ, t0, t2, OffsOf(b))

Synced(fin, b, t0, s) == Counted(Words, respSyncQ, t0, s, RowsAt(fin, b))

Fetched(fin, b, s, t1) == Counted(Words, resps, s, t1, RowsAt(fin, b))

Aligned(fin, b, c, t0) ==
  /\ b.addr % 2 = 1 => c = t0 \div 2 /\ (t0 % 2 = 1 => readCache = RowsAt(fin, b)[t0 - 1])
  /\ b.addr % 2 = 0 => c = t0

Lined(wc, b, t2, x) ==
  /\ b.addr % 2 = 1 => t2 = 2 * x + (IF nextRow /\ wc = <<>> THEN 1 ELSE 0)
  /\ b.addr % 2 = 0 => t2 = x /\ ~(nextRow /\ wc = <<>>)

Reading(fin, wc, rq, rc, i, b, rest, d, p, c, t0, s, t1, t2, x, y) ==
  /\ i \in Readers /\ b \in ReadBursts /\ NoReads
  /\ d \in Nat /\ p \in Nat /\ c \in Nat /\ t0 \in Nat /\ s \in Nat /\ t1 \in Nat /\ t2 \in Nat
  /\ x \in Nat /\ y \in Nat
  /\ Promised(i, b, rest, d) /\ Passing(i, b, d, p) /\ Shifted(b, p, c) /\ AskingFor(b, y)
  /\ Noted(b, t0, t2) /\ Synced(fin, b, t0, s) /\ Fetched(fin, b, s, t1)
  /\ Counted(ReadRows, rq, t1, t2, RowReqs(b)) /\ Counted(ReadCmds, rc, x, y, CmdsOf(b))
  /\ Aligned(fin, b, c, t0) /\ Lined(wc, b, t2, x)

Phase(fin, wc, rq, rc) ==
  \/ /\ NoReads /\ PipeIdle /\ rq = <<>> /\ rc = <<>> /\ expected = readerQs
     /\ \E c \in Nat : c = curCnt /\ WriteSide(fin, c)
  \/ \E e, i, b, rest : AllGiven(fin, e) /\ ReadWaits(rq, rc, i, b, rest)
  \/ /\ curWriteCnt = 0
     /\ \E e, i, b, rest, d, p, c, t0, s, t1, t2, x, y :
          AllGiven(fin, e) /\ Reading(fin, wc, rq, rc, i, b, rest, d, p, c, t0, s, t1, t2, x, y)

(* The writes in reqs and cmdQ come before the reads.                      *)
Behind(fin, wq, wc, rq, rc, half) ==
  /\ reqs = wq \o rq /\ cmdQ = wc \o rc /\ (rq # <<>> => wc = <<>>)
  /\ rq \in Seq(ReadRows) /\ rc \in Seq(ReadCmds)
  /\ (half <=> nextRow /\ wc # <<>>) /\ (nextRow => cmdQ # <<>>)
  /\ Backed(ddr3, wq, wc, half, fin)

Typed == BurstTypes /\ Len(writerdQ) <= SyncFifo /\ writeCur.left = curWriteCnt

BurstInv ==
  /\ Typed
  /\ \E fin, wq, wc, rq, rc, half :
       Behind(fin, wq, wc, rq, rc, half) /\ Phase(fin, wc, rq, rc)

-----------------------------------------------------------------------------
(* Queues of which at most one is not empty.                               *)
LEMMA OneOf ==
  ASSUME NEW S, NEW j \in S, NEW g, NEW h, NEW f, f = [l \in S |-> IF l = j THEN g ELSE <<>>]
  PROVE  /\ f[j] = g /\ [f EXCEPT ![j] = h] = [l \in S |-> IF l = j THEN h ELSE <<>>]
         /\ \A l \in S : f[l] # <<>> => l = j
         /\ g = <<>> => f = [l \in S |-> <<>>]
OBVIOUS

LEMMA NoneOf ==
  ASSUME NEW S, NEW j \in S, NEW h, NEW f, f = [l \in S |-> <<>>]
  PROVE  /\ f[j] = <<>> /\ [f EXCEPT ![j] = h] = [l \in S |-> IF l = j THEN h ELSE <<>>]
         /\ \A l \in S : f[l] = <<>>
OBVIOUS

LEMMA BurstIs ==
  ASSUME NEW b, b \in ReadBursts \cup WriteBursts
  PROVE  b.addr \in Nat /\ b.words \in Nat \ {0}
BY DramAssumption

(* What leaves the write bursts as they are.                               *)
writeSideVars == <<writerQ, mWriter, writerM, owed, writerdQ, curWriteCnt, writeCur, latest>>

LEMMA AllGivenKept ==
  ASSUME NEW CONSTANT fin, NEW CONSTANT e, AllGiven(fin, e), UNCHANGED writeSideVars
  PROVE  AllGiven(fin, e)'
BY DEF AllGiven, NoWrites, writeSideVars

LEMMA WriteSideKept ==
  ASSUME NEW CONSTANT fin, NEW CONSTANT c, WriteSide(fin, c), UNCHANGED writeSideVars
  PROVE  WriteSide(fin, c)'
<1>1. ASSUME NEW CONSTANT e, AllGiven(fin, e) PROVE AllGiven(fin, e)'
  BY <1>1, AllGivenKept
<1>2. ASSUME NEW CONSTANT j, NEW CONSTANT g, NEW CONSTANT own, NEW CONSTANT e, Started(fin, c, j, g, own, e)
      PROVE  Started(fin, c, j, g, own, e)'
  BY <1>2 DEF Started, NoWrites, Gives, writeSideVars
<1>3. ASSUME NEW CONSTANT j, NEW CONSTANT b, NEW CONSTANT g, NEW CONSTANT own, NEW CONSTANT e,
             NEW CONSTANT o, NEW CONSTANT n, NEW CONSTANT x, NEW CONSTANT m,
             Waits(fin, c, j, b, g, own, e, o, n, x, m)
      PROVE  Waits(fin, c, j, b, g, own, e, o, n, x, m)'
  BY <1>3 DEF Waits, AskedToWrite, Gives, writeSideVars
<1>4. CASE c = 0 /\ \E e : AllGiven(fin, e)
  <2>1. PICK e : AllGiven(fin, e)
    BY <1>4
  <2>2. AllGiven(fin, e)'
    BY <1>1, <2>1
  <2> QED  BY <1>4, <2>2, Zenon DEF WriteSide
<1>5. CASE \E j, g, own, e : Started(fin, c, j, g, own, e)
  <2>1. PICK j, g, own, e : Started(fin, c, j, g, own, e)
    BY <1>5
  <2>2. Started(fin, c, j, g, own, e)'
    BY <1>2, <2>1
  <2> QED  BY <2>2, Zenon DEF WriteSide
<1>6. CASE \E j, b, g, own, e, o, n, x, m : Waits(fin, c, j, b, g, own, e, o, n, x, m)
  <2>1. PICK j, b, g, own, e, o, n, x, m : Waits(fin, c, j, b, g, own, e, o, n, x, m)
    BY <1>6
  <2>2. Waits(fin, c, j, b, g, own, e, o, n, x, m)'
    BY <1>3, <2>1
  <2> QED  BY <2>2, Zenon DEF WriteSide
<1> QED  BY <1>4, <1>5, <1>6 DEF WriteSide

(* When no word is left to pass, the burst before is in writerdQ as a      *)
(* whole; a longer one that still waited would not be.                     *)
LEMMA FreeGiven ==
  ASSUME BurstTypes, Len(writerdQ) <= SyncFifo, WritesFill,
         NEW fin, NEW c, c = 0, WriteSide(fin, c)
  PROVE  \E e : AllGiven(fin, e)
<1>1. writerdQ \in Seq(Words)
  BY DEF BurstTypes
<1>2. ASSUME NEW j, NEW g, NEW own, NEW e, Started(fin, c, j, g, own, e)
      PROVE  AllGiven(fin, e)
  <2>1. /\ j \in Writers /\ g \in Seq(Words) /\ own \in Part /\ NoWrites
        /\ Gives(j, g, own) /\ c = Len(g) + own.left
        /\ Len(writerdQ) + c = curWriteCnt
        /\ Giving(writerdQ \o g, writeCur.addr, Logical(fin), e, latest)
    BY <1>2 DEF Started
  <2>2. own.left = 0 /\ g = <<>> /\ Len(writerdQ) = curWriteCnt
    <3>1. own.left \in Nat /\ Len(g) \in Nat /\ Len(writerdQ) \in Nat
      BY <1>1, <2>1 DEF Part
    <3>2. own.left = 0 /\ Len(g) = 0
      BY <2>1, <3>1
    <3> QED  BY <2>1, <3>1, <3>2
  <2>3. writerM = [l \in Writers |-> <<>>] /\ \A l \in Writers : owed[l].left = 0
    BY <2>1, <2>2 DEF Gives
  <2>4. writerdQ \o g = writerdQ
    BY <1>1, <2>2, JoinNone
  <2> QED  BY <2>1, <2>2, <2>3, <2>4, Zenon DEF AllGiven
<1>3. ASSUME NEW j, NEW b, NEW g, NEW own, NEW e, NEW o, NEW n, NEW x, NEW m,
             Waits(fin, c, j, b, g, own, e, o, n, x, m)
      PROVE  FALSE
  <2>1. /\ b \in WriteBursts /\ g \in Seq(Words) /\ own \in Part
        /\ o \in Seq(Words) /\ n \in Seq(Words) /\ c = Len(g) + own.left
        /\ writerdQ \o g = o \o n /\ Len(n) + own.left = b.words
    BY <1>3 DEF Waits
  <2>2. own.left \in Nat /\ b.words > SyncFifo /\ b.words \in Nat /\ SyncFifo \in Nat
    BY <2>1, BurstIs, DramAssumption DEF Part, WritesFill
  <2>3. /\ Len(writerdQ \o g) = Len(writerdQ) + Len(g) /\ Len(o \o n) = Len(o) + Len(n)
        /\ Len(writerdQ) \in Nat /\ Len(g) \in Nat /\ Len(o) \in Nat /\ Len(n) \in Nat
    BY <1>1, <2>1, JoinLens
  <2>4. Len(writerdQ) + Len(g) = Len(o) + Len(n)
    BY <2>1, <2>3
  <2> QED  BY <2>1, <2>2, <2>3, <2>4
<1> QED  BY <1>2, <1>3, Zenon DEF WriteSide

(* A writer asks for a burst.                                              *)
LEMMA WriteReqSide ==
  ASSUME BurstTypes, BurstsFit, NEW CONSTANT fin, NEW e, AllGiven(fin, e),
         NEW CONSTANT j \in Writers, NEW CONSTANT b \in WriteBursts, writeReq(j, b)
  PROVE  WriteSide(fin, b.words)'
<1>1. /\ NoWrites /\ writerM = [l \in Writers |-> <<>>] /\ \A l \in Writers : owed[l].left = 0
      /\ Len(writerdQ) = curWriteCnt
      /\ Giving(writerdQ, writeCur.addr, Logical(fin), e, latest)
  BY DEF AllGiven
<1>2. b.addr \in Nat /\ b.words \in Nat \ {0} /\ \A k \in 0 .. b.words - 1 : WordFits(b.addr + 2 * k)
  BY BurstIs DEF BurstsFit
<1> PICK own : own = [addr |-> b.addr, left |-> b.words]
  OBVIOUS
<1>3. own \in Part /\ own.addr = b.addr /\ own.left = b.words /\ own = [addr |-> b.addr, left |-> b.words]
  BY <1>2 DEF Part
<1>4. /\ mWriter' = [mWriter EXCEPT ![j] = Append(@, b)] /\ owed' = [owed EXCEPT ![j] = own]
      /\ writerQ' = writerQ /\ writerM' = writerM /\ writerdQ' = writerdQ
      /\ curWriteCnt' = curWriteCnt /\ writeCur' = writeCur /\ latest' = latest
  BY <1>3 DEF writeReq, cntVars, relayVars, burstVars
<1>5. AskedToWrite(j, b)'
  <2>1. mWriter = [l \in Writers |-> <<>>] /\ writerQ = <<>>
    BY <1>1 DEF NoWrites
  <2>2. mWriter[j] = <<>> /\ Append(<<>>, b) = <<b>>
    BY <2>1
  <2>3. mWriter' = [mWriter EXCEPT ![j] = <<b>>]
    BY <1>4, <2>2, Zenon
  <2>4. mWriter' = [l \in Writers |-> IF l = j THEN <<b>> ELSE <<>>]
    BY <2>1, <2>3
  <2> QED  BY <1>4, <2>1, <2>4 DEF AskedToWrite
<1>6. Gives(j, <<>>, own)'
  <2>1. writerM' = [l \in Writers |-> IF l = j THEN <<>> ELSE <<>>]
    BY <1>1, <1>4
  <2>2. owed'[j] = own /\ \A l \in Writers : l # j => owed'[l].left = 0
    BY <1>1, <1>4 DEF BurstTypes
  <2> QED  BY <2>1, <2>2 DEF Gives
<1>7. Owes(own, b.addr)
  BY <1>2, <1>3 DEF Owes
<1>8. writerdQ \in Seq(Words) /\ latest \in Mem
  BY DEF BurstTypes
<1> PICK o : o = writerdQ
  OBVIOUS
<1> PICK m : m = latest
  OBVIOUS
<1> PICK x : x = e
  OBVIOUS
<1>9. /\ o \in Seq(Words) /\ <<>> \in Seq(Words) /\ writerdQ' \o <<>> = o \o <<>>
      /\ Len(o) = curWriteCnt' /\ Len(<<>>) = 0
  BY <1>1, <1>4, <1>8
<1>10. /\ Giving(o, writeCur'.addr, Logical(fin), x, m)
       /\ Giving(<<>>, b.addr, m, b.addr, latest')
  BY <1>1, <1>2, <1>4, <1>8, GivingNone
<1>11. Waits(fin, b.words, j, b, <<>>, own, b.addr, o, <<>>, x, m)'
  BY <1>2, <1>3, <1>5, <1>6, <1>7, <1>9, <1>10 DEF Waits
<1> QED  BY <1>11, Zenon DEF WriteSide

LEMMA JoinWord ==
  ASSUME NEW p \in Seq(Words), NEW q \in Seq(Words), NEW e \in Words
  PROVE  Append(p \o q, e) = p \o Append(q, e) /\ p \o q \in Seq(Words)
OBVIOUS

(* A writer gives a word of its burst.                                     *)
LEMMA GivesMore ==
  ASSUME BurstTypes, NEW CONSTANT j \in Writers, NEW g \in Seq(Words), NEW own \in Part, NEW e,
         Gives(j, g, own), Owes(own, e), NEW i \in Writers, write(i)
  PROVE  \E w \in Words, h \in Seq(Words), more \in Part :
           /\ h = Append(g, w) /\ Len(h) = Len(g) + 1 /\ own.left \in Nat /\ Len(g) \in Nat
           /\ more.left = own.left - 1 /\ Gives(j, h, more)' /\ Owes(more, e + 2)
           /\ e \in Nat /\ WordFits(e) /\ latest' = Store(latest, e, w)
<1>1. /\ writerM = [l \in Writers |-> IF l = j THEN g ELSE <<>>]
      /\ owed[j] = own /\ \A l \in Writers : l # j => owed[l].left = 0
  BY DEF Gives
<1> PICK w : w = <<2 * written + 1, 2 * written + 2>>
  OBVIOUS
<1>2. /\ owed[i].left > 0
      /\ writerM' = [writerM EXCEPT ![i] = Append(@, w)]
      /\ owed' = [owed EXCEPT ![i] = [addr |-> owed[i].addr + 2, left |-> @.left - 1]]
      /\ latest' = [latest EXCEPT ![owed[i].addr] = w[1], ![owed[i].addr + 1] = w[2]]
  BY DEF write
<1>3. i = j /\ own.left > 0 /\ own.addr \in Nat /\ own.left \in Nat
  BY <1>1, <1>2 DEF Part
<1>4. w \in Words
  BY DEF BurstTypes, Words
<1>5. own.addr = e /\ e \in Nat /\ WordFits(e) /\ \A k \in 0 .. own.left - 1 : WordFits(e + 2 * k)
  <2>1. own.addr = e /\ \A k \in 0 .. own.left - 1 : WordFits(own.addr + 2 * k)
    BY <1>3 DEF Owes
  <2>2. 0 \in 0 .. own.left - 1 /\ e + 2 * 0 = e /\ e \in Nat
    BY <1>3, <2>1
  <2>3. WordFits(e + 2 * 0)
    BY <2>1, <2>2, Zenon
  <2> QED  BY <2>1, <2>2, <2>3, Zenon
<1> PICK h : h = Append(g, w)
  OBVIOUS
<1> PICK more : more = [addr |-> e + 2, left |-> own.left - 1]
  OBVIOUS
<1>6. /\ h \in Seq(Words) /\ h = Append(g, w) /\ Len(h) = Len(g) + 1 /\ Len(g) \in Nat
  BY <1>4
<1>7. more \in Part /\ more.addr = e + 2 /\ more.left = own.left - 1
      /\ more = [addr |-> e + 2, left |-> own.left - 1]
  BY <1>3, <1>5 DEF Part
<1>8. Gives(j, h, more)'
  <2>1. writerM' = [writerM EXCEPT ![j] = h]
    <3>1. writerM[j] = g
      BY <1>1
    <3> QED  BY <1>2, <1>3, <1>6, <3>1, Zenon
  <2>2. writerM' = [l \in Writers |-> IF l = j THEN h ELSE <<>>]
    BY <1>1, <2>1, OneOf, Zenon
  <2>3. owed' = [owed EXCEPT ![j] = more]
    BY <1>1, <1>2, <1>3, <1>5, <1>7
  <2>4. owed'[j] = more /\ \A l \in Writers : l # j => owed'[l].left = 0
    BY <1>1, <2>3 DEF BurstTypes
  <2> QED  BY <2>2, <2>4 DEF Gives
<1>9. Owes(more, e + 2)
  <2>1. ASSUME NEW k \in 0 .. more.left - 1 PROVE WordFits(more.addr + 2 * k)
    <3> PICK z : z = k + 1
      OBVIOUS
    <3>1. z \in 0 .. own.left - 1 /\ more.addr + 2 * k = e + 2 * z
      BY <1>3, <1>5, <1>7
    <3>2. WordFits(e + 2 * z)
      BY <1>5, <3>1, Zenon
    <3> QED  BY <3>1, <3>2, Zenon
  <2> QED  BY <1>7, <2>1 DEF Owes
<1>10. latest' = Store(latest, e, w)
  BY <1>1, <1>2, <1>3, <1>5, Zenon DEF Store
<1> QED  BY <1>3, <1>4, <1>5, <1>6, <1>7, <1>8, <1>9, <1>10, Zenon

LEMMA WriteKeepsSide ==
  ASSUME BurstTypes, NEW CONSTANT fin, NEW CONSTANT c, WriteSide(fin, c),
         NEW CONSTANT i \in Writers, write(i)
  PROVE  WriteSide(fin, c)'
<1>1. /\ writerQ' = writerQ /\ mWriter' = mWriter /\ writerdQ' = writerdQ
      /\ curWriteCnt' = curWriteCnt /\ writeCur' = writeCur /\ owed[i].left > 0
  BY DEF write, cntVars, relayVars, burstVars
<1>2. writerdQ \in Seq(Words)
  BY DEF BurstTypes
<1>3. ASSUME NEW e, AllGiven(fin, e) PROVE FALSE
  <2>1. owed[i].left = 0
    BY <1>3 DEF AllGiven
  <2> QED  BY <1>1, <2>1
<1>4. CASE \E j, g, own, e : Started(fin, c, j, g, own, e)
  <2>1. PICK j, g, own, e : Started(fin, c, j, g, own, e)
    BY <1>4
  <2>2. /\ j \in Writers /\ g \in Seq(Words) /\ own \in Part /\ NoWrites
        /\ Gives(j, g, own) /\ c = Len(g) + own.left /\ Owes(own, e)
        /\ Len(writerdQ) + c = curWriteCnt
        /\ Giving(writerdQ \o g, writeCur.addr, Logical(fin), e, latest)
    BY <2>1 DEF Started
  <2>3. PICK w \in Words, h \in Seq(Words), more \in Part :
           /\ h = Append(g, w) /\ Len(h) = Len(g) + 1 /\ own.left \in Nat /\ Len(g) \in Nat
           /\ more.left = own.left - 1 /\ Gives(j, h, more)' /\ Owes(more, e + 2)
           /\ e \in Nat /\ WordFits(e) /\ latest' = Store(latest, e, w)
    BY <2>2, GivesMore
  <2>4. c = Len(h) + more.left
    BY <2>2, <2>3
  <2>5. writerdQ \o g \in Seq(Words) /\ Append(writerdQ \o g, w) = writerdQ \o h
    <3>1. writerdQ \in Seq(Words) /\ g \in Seq(Words) /\ w \in Words /\ h = Append(g, w)
      BY <1>2, <2>2, <2>3, Zenon
    <3> QED  BY <3>1, JoinWord, Zenon
  <2>6. Giving(writerdQ \o h, writeCur.addr, Logical(fin), e + 2, latest')
    <3>1. Giving(Append(writerdQ \o g, w), writeCur.addr, Logical(fin), e + 2, Store(latest, e, w))
      BY <2>2, <2>3, <2>5, GivingMore
    <3> QED  BY <2>3, <2>5, <3>1, Zenon
  <2> PICK f : f = e + 2
    OBVIOUS
  <2>7. Started(fin, c, j, h, more, f)'
    <3>1. NoWrites'
      BY <1>1, <2>2 DEF NoWrites
    <3>2. Owes(more, f) /\ Giving(writerdQ' \o h, writeCur'.addr, Logical(fin), f, latest')
          /\ Len(writerdQ') + c = curWriteCnt'
      BY <1>1, <2>2, <2>3, <2>6, Zenon
    <3> QED  BY <2>2, <2>3, <2>4, <3>1, <3>2 DEF Started
  <2> QED  BY <2>7, Zenon DEF WriteSide
<1>5. CASE \E j, b, g, own, e, o, n, x, m : Waits(fin, c, j, b, g, own, e, o, n, x, m)
  <2>1. PICK j, b, g, own, e, o, n, x, m : Waits(fin, c, j, b, g, own, e, o, n, x, m)
    BY <1>5
  <2>2. /\ j \in Writers /\ b \in WriteBursts /\ g \in Seq(Words) /\ own \in Part
        /\ o \in Seq(Words) /\ n \in Seq(Words) /\ AskedToWrite(j, b)
        /\ Gives(j, g, own) /\ c = Len(g) + own.left /\ Owes(own, e)
        /\ writerdQ \o g = o \o n /\ Len(o) = curWriteCnt /\ Len(n) + own.left = b.words
        /\ Giving(o, writeCur.addr, Logical(fin), x, m) /\ Giving(n, b.addr, m, e, latest)
    BY <2>1 DEF Waits
  <2>3. PICK w \in Words, h \in Seq(Words), more \in Part :
           /\ h = Append(g, w) /\ Len(h) = Len(g) + 1 /\ own.left \in Nat /\ Len(g) \in Nat
           /\ more.left = own.left - 1 /\ Gives(j, h, more)' /\ Owes(more, e + 2)
           /\ e \in Nat /\ WordFits(e) /\ latest' = Store(latest, e, w)
    BY <2>2, GivesMore
  <2>4. c = Len(h) + more.left
    <3>1. /\ c = Len(g) + own.left /\ Len(h) = Len(g) + 1 /\ own.left \in Nat /\ Len(g) \in Nat
          /\ more.left = own.left - 1
      BY <2>2, <2>3, Zenon
    <3> QED  BY ONLY <3>1
  <2> PICK k : k = Append(n, w)
    OBVIOUS
  <2>5. k \in Seq(Words) /\ k = Append(n, w) /\ Len(k) = Len(n) + 1 /\ Len(n) \in Nat
    BY <2>2, PutIn
  <2>6. writerdQ \o h = o \o k
    <3>1. Append(writerdQ \o g, w) = writerdQ \o h
      <4>1. writerdQ \in Seq(Words) /\ g \in Seq(Words) /\ w \in Words /\ h = Append(g, w)
        BY <1>2, <2>2, <2>3, Zenon
      <4>2. Append(writerdQ \o g, w) = writerdQ \o Append(g, w)
        BY <4>1, JoinWord, Zenon
      <4> QED  BY <4>1, <4>2, Zenon
    <3>2. Append(o \o n, w) = o \o k
      <4>1. o \in Seq(Words) /\ n \in Seq(Words) /\ w \in Words /\ k = Append(n, w)
        BY <2>2, <2>5, Zenon
      <4>2. Append(o \o n, w) = o \o Append(n, w)
        BY <4>1, JoinWord, Zenon
      <4> QED  BY <4>1, <4>2, Zenon
    <3> QED  BY <2>2, <3>1, <3>2, Zenon
  <2>7. Giving(k, b.addr, m, e + 2, latest')
    <3>1. Giving(Append(n, w), b.addr, m, e + 2, Store(latest, e, w))
      BY <2>2, <2>3, GivingMore
    <3> QED  BY <2>3, <2>5, <3>1, Zenon
  <2> PICK f : f = e + 2
    OBVIOUS
  <2>8. Waits(fin, c, j, b, h, more, f, o, k, x, m)'
    <3>1. AskedToWrite(j, b)'
      BY <1>1, <2>2 DEF AskedToWrite
    <3>2. Len(k) + more.left = b.words
      <4>1. b.words \in Nat
        BY <2>2, BurstIs
      <4>2. /\ Len(n) + own.left = b.words /\ Len(k) = Len(n) + 1 /\ Len(n) \in Nat
            /\ more.left = own.left - 1 /\ own.left \in Nat
        BY <2>2, <2>3, <2>5, Zenon
      <4> QED  BY ONLY <4>1, <4>2
    <3>3. Owes(more, f) /\ Giving(k, b.addr, m, f, latest') /\ writerdQ' \o h = o \o k
          /\ Giving(o, writeCur'.addr, Logical(fin), x, m) /\ Len(o) = curWriteCnt'
      BY <1>1, <2>2, <2>3, <2>6, <2>7, Zenon
    <3> QED  BY <2>2, <2>3, <2>4, <2>5, <3>1, <3>2, <3>3 DEF Waits
  <2> QED  BY <2>8, Zenon DEF WriteSide
<1> QED  BY <1>3, <1>4, <1>5 DEF WriteSide

(* Its request passes its merge.                                           *)
LEMMA RelayDramWriteSide ==
  ASSUME NEW CONSTANT fin, NEW CONSTANT c, WriteSide(fin, c), NEW i \in Writers, relayDramWrite(i)
  PROVE  WriteSide(fin, c)'
<1>1. /\ mWriter[i] # <<>> /\ writerQ' = Append(writerQ, Head(mWriter[i]))
      /\ mWriter' = [mWriter EXCEPT ![i] = Tail(@)]
      /\ writerM' = writerM /\ owed' = owed /\ writerdQ' = writerdQ /\ latest' = latest
      /\ curWriteCnt' = curWriteCnt /\ writeCur' = writeCur
  BY DEF relayDramWrite, cntVars, relayVars, burstVars, ghostVars
<1>2. ~NoWrites
  BY <1>1 DEF NoWrites
<1>3. PICK j, b, g, own, e, o, n, x, m : Waits(fin, c, j, b, g, own, e, o, n, x, m)
  BY <1>2, Zenon DEF WriteSide, AllGiven, Started
<1>4. AskedToWrite(j, b) /\ j \in Writers
  BY <1>3 DEF Waits
<1>5. ~(mWriter = [l \in Writers |-> <<>>])
  BY <1>1
<1>6. writerQ = <<>> /\ mWriter = [l \in Writers |-> IF l = j THEN <<b>> ELSE <<>>]
  BY <1>4, <1>5 DEF AskedToWrite
<1>7. i = j /\ mWriter[j] = <<b>>
  BY <1>1, <1>4, <1>6
<1>8. writerQ' = <<b>>
  BY <1>1, <1>6, <1>7, OneIn, Zenon
<1>9. mWriter' = [mWriter EXCEPT ![j] = <<>>]
  BY <1>1, <1>7, OneIn, Zenon
<1>10. mWriter' = [l \in Writers |-> <<>>]
  BY <1>4, <1>6, <1>9
<1>11. AskedToWrite(j, b)'
  BY <1>8, <1>10 DEF AskedToWrite
<1>12. Waits(fin, c, j, b, g, own, e, o, n, x, m)'
  BY <1>1, <1>3, <1>11 DEF Waits, Gives
<1> QED  BY <1>12, Zenon DEF WriteSide

LEMMA JoinWordMoved ==
  ASSUME NEW p \in Seq(Words), NEW q \in Seq(Words), q # <<>>
  PROVE  /\ Append(p, Head(q)) \o Tail(q) = p \o q
         /\ Head(q) \in Words /\ Tail(q) \in Seq(Words) /\ Append(p, Head(q)) \in Seq(Words)
         /\ Len(Tail(q)) = Len(q) - 1 /\ Len(Append(p, Head(q))) = Len(p) + 1
         /\ Len(p) \in Nat /\ Len(q) \in Nat \ {0}
<1>1. Append(p, Head(q)) \o Tail(q) = p \o q
  OBVIOUS
<1>2. Head(q) \in Words /\ Tail(q) \in Seq(Words) /\ Len(Tail(q)) = Len(q) - 1 /\ Len(q) \in Nat \ {0}
  OBVIOUS
<1>3. Append(p, Head(q)) \in Seq(Words) /\ Len(Append(p, Head(q))) = Len(p) + 1 /\ Len(p) \in Nat
  BY <1>2
<1> QED  BY <1>1, <1>2, <1>3

LEMMA JoinWordTail ==
  ASSUME NEW p \in Seq(Words), NEW q \in Seq(Words), p # <<>>
  PROVE  /\ Head(p \o q) = Head(p) /\ Tail(p \o q) = Tail(p) \o q /\ p \o q # <<>>
         /\ Tail(p) \in Seq(Words) /\ Len(Tail(p)) = Len(p) - 1 /\ Len(p) \in Nat
         /\ p \o q \in Seq(Words)
<1>1. Head(p \o q) = Head(p) /\ Tail(p \o q) = Tail(p) \o q /\ p \o q # <<>>
  OBVIOUS
<1>2. Tail(p) \in Seq(Words) /\ Len(Tail(p)) = Len(p) - 1 /\ Len(p) \in Nat
  OBVIOUS
<1>3. p \o q \in Seq(Words)
  OBVIOUS
<1> QED  BY <1>1, <1>2, <1>3

LEMMA JoinWordLen ==
  ASSUME NEW p \in Seq(Words), NEW q \in Seq(Words)
  PROVE  /\ Len(p \o q) = Len(p) + Len(q) /\ Len(p) \in Nat /\ Len(q) \in Nat
         /\ p \o q \in Seq(Words) /\ <<>> \o p = p /\ p \o <<>> = p
OBVIOUS

(* A word goes from its merge to writerdQ.                                 *)
LEMMA RelayWriteCSide ==
  ASSUME BurstTypes, NEW CONSTANT fin, NEW CONSTANT c \in Nat, WriteSide(fin, c),
         NEW i \in Writers, relayWriteC(i), NEW CONSTANT d, d = c - 1
  PROVE  c > 0 /\ WriteSide(fin, d)'
<1>1. /\ writerM[i] # <<>> /\ writerdQ' = Append(writerdQ, Head(writerM[i]))
      /\ writerM' = [writerM EXCEPT ![i] = Tail(@)]
      /\ writerQ' = writerQ /\ mWriter' = mWriter /\ owed' = owed /\ latest' = latest
      /\ curWriteCnt' = curWriteCnt /\ writeCur' = writeCur
  BY DEF relayWriteC, cntVars, relayVars, burstVars, ghostVars
<1>2. writerdQ \in Seq(Words)
  BY DEF BurstTypes
<1>3. ASSUME NEW e, AllGiven(fin, e) PROVE FALSE
  BY <1>1, <1>3 DEF AllGiven
<1>4. ASSUME NEW CONSTANT j, NEW CONSTANT g, NEW CONSTANT own, j \in Writers, g \in Seq(Words),
             own \in Part, Gives(j, g, own), c = Len(g) + own.left
      PROVE  \E h \in Seq(Words) :
               /\ Gives(j, h, own)' /\ d = Len(h) + own.left /\ c > 0
               /\ writerdQ' \o h = writerdQ \o g /\ Len(writerdQ') = Len(writerdQ) + 1
               /\ Len(writerdQ) \in Nat
  <2>1. writerM = [l \in Writers |-> IF l = j THEN g ELSE <<>>]
    BY <1>4 DEF Gives
  <2>2. i = j /\ writerM[i] = g /\ g # <<>>
    BY <1>1, <1>4, <2>1
  <2> PICK h : h = Tail(g)
    OBVIOUS
  <2>3. /\ Append(writerdQ, Head(g)) \o Tail(g) = writerdQ \o g
        /\ Tail(g) \in Seq(Words) /\ Len(Tail(g)) = Len(g) - 1
        /\ Len(Append(writerdQ, Head(g))) = Len(writerdQ) + 1
        /\ Len(writerdQ) \in Nat /\ Len(g) \in Nat \ {0}
    BY <1>2, <1>4, <2>2, JoinWordMoved
  <2>4. writerM' = [l \in Writers |-> IF l = j THEN h ELSE <<>>]
    <3>1. writerM' = [writerM EXCEPT ![j] = h]
      BY <1>1, <2>2, Zenon
    <3> QED  BY <1>4, <2>1, <3>1, OneOf, Zenon
  <2>5. Gives(j, h, own)'
    BY <1>1, <1>4, <2>4 DEF Gives
  <2>6. h \in Seq(Words) /\ Len(h) = Len(g) - 1 /\ writerdQ' = Append(writerdQ, Head(g))
        /\ writerdQ' \o h = writerdQ \o g /\ Len(writerdQ') = Len(writerdQ) + 1
    BY <1>1, <2>2, <2>3, Zenon
  <2>7. d = Len(h) + own.left /\ c > 0
    <3>1. own.left \in Nat /\ c = Len(g) + own.left
      BY <1>4 DEF Part
    <3> QED  BY <2>3, <2>6, <3>1
  <2> QED  BY <2>3, <2>5, <2>6, <2>7
<1>5. CASE \E j, g, own, e : Started(fin, c, j, g, own, e)
  <2>1. PICK j, g, own, e : Started(fin, c, j, g, own, e)
    BY <1>5
  <2>2. /\ j \in Writers /\ g \in Seq(Words) /\ own \in Part /\ NoWrites
        /\ Gives(j, g, own) /\ c = Len(g) + own.left /\ Owes(own, e)
        /\ Len(writerdQ) + c = curWriteCnt
        /\ Giving(writerdQ \o g, writeCur.addr, Logical(fin), e, latest)
    BY <2>1 DEF Started
  <2>3. PICK h \in Seq(Words) :
               /\ Gives(j, h, own)' /\ d = Len(h) + own.left /\ c > 0
               /\ writerdQ' \o h = writerdQ \o g /\ Len(writerdQ') = Len(writerdQ) + 1
               /\ Len(writerdQ) \in Nat
    BY <1>4, <2>2
  <2>4. Len(writerdQ') + d = curWriteCnt'
    <3> PICK u : u = Len(writerdQ)
      OBVIOUS
    <3>1. u \in Nat /\ u + c = curWriteCnt /\ Len(writerdQ') = u + 1 /\ curWriteCnt' = curWriteCnt
      BY <1>1, <2>2, <2>3, Zenon
    <3>2. c \in Nat /\ d = c - 1
      OBVIOUS
    <3>3. (u + 1) + d = u + c
      BY ONLY <3>1, <3>2
    <3> QED  BY <3>1, <3>3, Zenon
  <2>5. NoWrites' /\ Giving(writerdQ' \o h, writeCur'.addr, Logical(fin), e, latest')
    BY <1>1, <2>2, <2>3 DEF NoWrites
  <2>6. Started(fin, d, j, h, own, e)'
    BY <2>2, <2>3, <2>4, <2>5 DEF Started
  <2> QED  BY <2>3, <2>6, Zenon DEF WriteSide
<1>6. CASE \E j, b, g, own, e, o, n, x, m : Waits(fin, c, j, b, g, own, e, o, n, x, m)
  <2>1. PICK j, b, g, own, e, o, n, x, m : Waits(fin, c, j, b, g, own, e, o, n, x, m)
    BY <1>6
  <2>2. /\ j \in Writers /\ b \in WriteBursts /\ g \in Seq(Words) /\ own \in Part
        /\ o \in Seq(Words) /\ n \in Seq(Words) /\ AskedToWrite(j, b)
        /\ Gives(j, g, own) /\ c = Len(g) + own.left /\ Owes(own, e)
        /\ writerdQ \o g = o \o n /\ Len(o) = curWriteCnt /\ Len(n) + own.left = b.words
        /\ Giving(o, writeCur.addr, Logical(fin), x, m) /\ Giving(n, b.addr, m, e, latest)
    BY <2>1 DEF Waits
  <2>3. PICK h \in Seq(Words) :
               /\ Gives(j, h, own)' /\ d = Len(h) + own.left /\ c > 0
               /\ writerdQ' \o h = writerdQ \o g
    BY <1>4, <2>2, ZenonT(60)
  <2>4. AskedToWrite(j, b)'
    BY <1>1, <2>2 DEF AskedToWrite
  <2>5. /\ writerdQ' \o h = o \o n /\ Len(o) = curWriteCnt'
        /\ Giving(o, writeCur'.addr, Logical(fin), x, m) /\ Giving(n, b.addr, m, e, latest')
    BY <1>1, <2>2, <2>3, Zenon
  <2>6. Waits(fin, d, j, b, h, own, e, o, n, x, m)'
    BY <2>2, <2>3, <2>4, <2>5 DEF Waits
  <2> QED  BY <2>3, <2>6, Zenon DEF WriteSide
<1> QED  BY <1>3, <1>5, <1>6 DEF WriteSide

(* The controller takes the request: the words of the burst before are all *)
(* written.                                                                *)
LEMMA StartWriteSide ==
  ASSUME BurstTypes, NEW CONSTANT fin, NEW CONSTANT c, WriteSide(fin, c), startDramWrite
  PROVE  /\ WriteSide(fin, c)' /\ writeCur' \in Part /\ curWriteCnt' \in Nat
         /\ writeCur'.left = curWriteCnt'
<1>1. /\ NoBurst /\ writerQ # <<>> /\ writerQ' = Tail(writerQ)
      /\ writeCur' = [addr |-> Head(writerQ).addr, left |-> Head(writerQ).words]
      /\ curWriteCnt' = Head(writerQ).words
      /\ writerM' = writerM /\ mWriter' = mWriter /\ owed' = owed /\ latest' = latest
      /\ writerdQ' = writerdQ
  BY DEF startDramWrite, clientVars, ghostVars
<1>2. writerdQ \in Seq(Words)
  BY DEF BurstTypes
<1>3. ~NoWrites
  BY <1>1 DEF NoWrites
<1>4. PICK j, b, g, own, e, o, n, x, m : Waits(fin, c, j, b, g, own, e, o, n, x, m)
  BY <1>3, Zenon DEF WriteSide, AllGiven, Started
<1>5. /\ j \in Writers /\ b \in WriteBursts /\ g \in Seq(Words) /\ own \in Part
      /\ o \in Seq(Words) /\ n \in Seq(Words) /\ AskedToWrite(j, b)
      /\ Gives(j, g, own) /\ c = Len(g) + own.left /\ Owes(own, e)
      /\ writerdQ \o g = o \o n /\ Len(o) = curWriteCnt /\ Len(n) + own.left = b.words
      /\ Giving(o, writeCur.addr, Logical(fin), x, m) /\ Giving(n, b.addr, m, e, latest)
  BY <1>4 DEF Waits
<1>6. writerQ = <<b>> /\ mWriter = [l \in Writers |-> <<>>]
  BY <1>1, <1>5 DEF AskedToWrite
<1>7. writerQ' = <<>> /\ Head(writerQ) = b
  BY <1>1, <1>6, OneIn, Zenon
<1>8. o = <<>> /\ m = Logical(fin)
  <2>1. curWriteCnt = 0
    BY <1>1 DEF NoBurst
  <2>2. o = <<>>
    BY <1>5, <2>1
  <2>3. o \in Seq(Words) /\ Giving(o, writeCur.addr, Logical(fin), x, m)
    BY <1>5, Zenon
  <2>4. Logical(fin) = m
    BY <2>2, <2>3, GivingEnds
  <2> QED  BY <2>2, <2>4, Zenon
<1>9. writerdQ \o g = n /\ Len(writerdQ) + Len(g) = Len(n) /\ Len(writerdQ) \in Nat /\ Len(g) \in Nat
  <2>1. o \o n = n
    BY <1>5, <1>8, JoinWordLen, Zenon
  <2>2. Len(writerdQ \o g) = Len(writerdQ) + Len(g) /\ Len(writerdQ) \in Nat /\ Len(g) \in Nat
    BY <1>2, <1>5, JoinWordLen, Zenon
  <2> QED  BY <1>5, <2>1, <2>2, Zenon
<1>10. writeCur'.addr = b.addr /\ writeCur'.left = b.words /\ curWriteCnt' = b.words
       /\ b.addr \in Nat /\ b.words \in Nat
  BY <1>1, <1>5, <1>7, BurstIs
<1>11. Len(writerdQ') + c = curWriteCnt'
  <2>1. own.left \in Nat
    BY <1>5 DEF Part
  <2>2. c = Len(g) + own.left /\ Len(n) + own.left = b.words
    BY <1>5
  <2>3. writerdQ' = writerdQ
    BY <1>1
  <2>4. /\ own.left \in Nat /\ c = Len(g) + own.left /\ Len(n) + own.left = b.words
        /\ Len(writerdQ) + Len(g) = Len(n) /\ Len(writerdQ) \in Nat /\ Len(g) \in Nat
        /\ curWriteCnt' = b.words /\ Len(writerdQ') = Len(writerdQ)
    BY <1>9, <1>10, <2>1, <2>2, <2>3, Zenon
  <2> QED  BY ONLY <2>4
<1>12. Started(fin, c, j, g, own, e)'
  <2>1. NoWrites'
    BY <1>1, <1>6, <1>7 DEF NoWrites
  <2>2. Gives(j, g, own)'
    BY <1>1, <1>5 DEF Gives
  <2>3. Giving(writerdQ' \o g, writeCur'.addr, Logical(fin), e, latest')
    BY <1>1, <1>5, <1>8, <1>9, <1>10, Zenon
  <2> QED  BY <1>5, <1>11, <2>1, <2>2, <2>3 DEF Started
<1>13. writeCur' \in Part
  BY <1>1, <1>7, <1>10 DEF Part
<1> QED  BY <1>10, <1>12, <1>13, Zenon DEF WriteSide

(* The controller gives a word to cmdQ.                                    *)
LEMMA GivingStored ==
  ASSUME NEW fin \in Mem, NEW q \in Seq(Words), q # <<>>, NEW a, NEW e, NEW l,
         Giving(q, a, Logical(fin), e, l), NEW new, new = Store(fin, addrReMapping(a), Head(q))
  PROVE  /\ new \in Mem /\ Head(q) \in Words /\ a \in Nat
         /\ addrReMapping(a) \in Halves /\ addrReMapping(a) + 1 \in Halves
         /\ Giving(Tail(q), a + 2, Logical(new), e, l)
<1>1. /\ Head(q) \in Words /\ WordFits(a) /\ a \in Nat
      /\ Giving(Tail(q), a + 2, Store(Logical(fin), a, Head(q)), e, l)
  BY GivingFirst
<1> PICK z : z = addrReMapping(a)
  OBVIOUS
<1>2. /\ z \in Halves /\ z + 1 \in Halves /\ z = addrReMapping(a)
      /\ Logical(Store(fin, z, Head(q))) = Store(Logical(fin), a, Head(q))
  BY <1>1, LogicalStore
<1>3. Store(fin, z, Head(q)) \in Mem
  BY <1>1, <1>2, StoreIs
<1>4. new = Store(fin, z, Head(q))
  BY <1>2, Zenon
<1> QED  BY <1>1, <1>2, <1>3, <1>4, Zenon

LEMMA RelayWriteGiven ==
  ASSUME BurstTypes, writeCur.left = curWriteCnt, NEW CONSTANT fin \in Mem, relayWrite,
         NEW CONSTANT new, new = Store(fin, addrReMapping(writeCur.addr), Head(writerdQ)),
         NEW CONSTANT e, AllGiven(fin, e)
  PROVE  /\ AllGiven(new, e)' /\ new \in Mem /\ Head(writerdQ) \in Words
         /\ addrReMapping(writeCur.addr) \in Halves /\ addrReMapping(writeCur.addr) + 1 \in Halves
<1>1. /\ curWriteCnt > 0 /\ writerdQ # <<>>
      /\ curWriteCnt' = curWriteCnt - 1 /\ writeCur' = After(writeCur)
      /\ writerdQ' = Tail(writerdQ)
      /\ writerQ' = writerQ /\ mWriter' = mWriter /\ writerM' = writerM /\ owed' = owed
      /\ latest' = latest
  BY DEF relayWrite, clientVars, ghostVars
<1>2. writerdQ \in Seq(Words) /\ writeCur \in Part /\ curWriteCnt \in Nat
  BY DEF BurstTypes
<1>3. /\ NoWrites /\ writerM = [l \in Writers |-> <<>>] /\ \A l \in Writers : owed[l].left = 0
      /\ Len(writerdQ) = curWriteCnt
      /\ Giving(writerdQ, writeCur.addr, Logical(fin), e, latest)
  BY DEF AllGiven
<1>4. /\ new \in Mem /\ Head(writerdQ) \in Words /\ writeCur.addr \in Nat
      /\ addrReMapping(writeCur.addr) \in Halves /\ addrReMapping(writeCur.addr) + 1 \in Halves
      /\ Giving(Tail(writerdQ), writeCur.addr + 2, Logical(new), e, latest)
  BY <1>1, <1>2, <1>3, GivingStored, Zenon
<1>5. writeCur'.addr = writeCur.addr + 2
  BY <1>1 DEF After
<1>6. Len(writerdQ') = curWriteCnt'
  <2>1. Len(Tail(writerdQ)) = Len(writerdQ) - 1
    BY <1>1, <1>2
  <2> QED  BY <1>1, <1>3, <2>1, Zenon
<1>7. Giving(writerdQ', writeCur'.addr, Logical(new), e, latest')
  BY <1>1, <1>4, <1>5, Zenon
<1>8. NoWrites' /\ writerM' = [l \in Writers |-> <<>>] /\ \A l \in Writers : owed'[l].left = 0
  BY <1>1, <1>3 DEF NoWrites
<1>9. AllGiven(new, e)'
  BY <1>6, <1>7, <1>8 DEF AllGiven
<1> QED  BY <1>4, <1>9

LEMMA RelayWriteSide ==
  ASSUME BurstTypes, writeCur.left = curWriteCnt, NEW CONSTANT fin \in Mem, relayWrite,
         NEW CONSTANT new, new = Store(fin, addrReMapping(writeCur.addr), Head(writerdQ)),
         NEW CONSTANT c, WriteSide(fin, c)
  PROVE  /\ WriteSide(new, c)' /\ new \in Mem /\ Head(writerdQ) \in Words
         /\ addrReMapping(writeCur.addr) \in Halves /\ addrReMapping(writeCur.addr) + 1 \in Halves
<1>1. /\ curWriteCnt > 0 /\ writerdQ # <<>>
      /\ curWriteCnt' = curWriteCnt - 1 /\ writeCur' = After(writeCur)
      /\ writerdQ' = Tail(writerdQ)
      /\ writerQ' = writerQ /\ mWriter' = mWriter /\ writerM' = writerM /\ owed' = owed
      /\ latest' = latest
  BY DEF relayWrite, clientVars, ghostVars
<1>2. writerdQ \in Seq(Words) /\ writeCur \in Part /\ curWriteCnt \in Nat
  BY DEF BurstTypes
<1>3. writeCur'.addr = writeCur.addr + 2
  BY <1>1 DEF After
<1>4. CASE c = 0 /\ \E e : AllGiven(fin, e)
  <2>1. PICK e : AllGiven(fin, e)
    BY <1>4
  <2>2. /\ AllGiven(new, e)' /\ new \in Mem /\ Head(writerdQ) \in Words
        /\ addrReMapping(writeCur.addr) \in Halves /\ addrReMapping(writeCur.addr) + 1 \in Halves
    BY <2>1, RelayWriteGiven
  <2> QED  BY <1>4, <2>2, Zenon DEF WriteSide
<1>5. CASE \E j, g, own, e : Started(fin, c, j, g, own, e)
  <2>1. PICK j, g, own, e : Started(fin, c, j, g, own, e)
    BY <1>5
  <2>2. /\ j \in Writers /\ g \in Seq(Words) /\ own \in Part /\ NoWrites
        /\ Gives(j, g, own) /\ c = Len(g) + own.left /\ Owes(own, e)
        /\ Len(writerdQ) + c = curWriteCnt
        /\ Giving(writerdQ \o g, writeCur.addr, Logical(fin), e, latest)
    BY <2>1 DEF Started
  <2>3. /\ Head(writerdQ \o g) = Head(writerdQ) /\ Tail(writerdQ \o g) = Tail(writerdQ) \o g
        /\ writerdQ \o g # <<>> /\ writerdQ \o g \in Seq(Words)
        /\ Len(Tail(writerdQ)) = Len(writerdQ) - 1 /\ Len(writerdQ) \in Nat
    BY <1>1, <1>2, <2>2, JoinWordTail, Zenon
  <2> PICK q : q = writerdQ \o g
    OBVIOUS
  <2>4. /\ q \in Seq(Words) /\ q # <<>> /\ Head(q) = Head(writerdQ) /\ Tail(q) = Tail(writerdQ) \o g
        /\ Giving(q, writeCur.addr, Logical(fin), e, latest)
        /\ new = Store(fin, addrReMapping(writeCur.addr), Head(q))
    BY <2>2, <2>3, Zenon
  <2>5. /\ new \in Mem /\ Head(q) \in Words
        /\ addrReMapping(writeCur.addr) \in Halves /\ addrReMapping(writeCur.addr) + 1 \in Halves
        /\ Giving(Tail(q), writeCur.addr + 2, Logical(new), e, latest)
    BY <2>4, GivingStored, Zenon
  <2>6. Len(writerdQ') + c = curWriteCnt'
    <3>1. /\ Len(writerdQ') = Len(writerdQ) - 1 /\ Len(writerdQ) \in Nat /\ Len(writerdQ) + c = curWriteCnt
          /\ curWriteCnt' = curWriteCnt - 1 /\ c = Len(g) + own.left
      BY <1>1, <2>2, <2>3, Zenon
    <3>2. Len(g) \in Nat /\ own.left \in Nat
      BY <2>2 DEF Part
    <3> QED  BY ONLY <3>1, <3>2
  <2>7. Giving(writerdQ' \o g, writeCur'.addr, Logical(new), e, latest')
    BY <1>1, <1>3, <2>4, <2>5, Zenon
  <2>8. NoWrites' /\ Gives(j, g, own)'
    BY <1>1, <2>2 DEF NoWrites, Gives
  <2>9. Started(new, c, j, g, own, e)'
    BY <2>2, <2>6, <2>7, <2>8 DEF Started
  <2>10. WriteSide(new, c)'
    BY <2>9, Zenon DEF WriteSide
  <2> QED  BY <2>4, <2>5, <2>10, Zenon
<1>6. CASE \E j, b, g, own, e, o, n, x, m : Waits(fin, c, j, b, g, own, e, o, n, x, m)
  <2>1. PICK j, b, g, own, e, o, n, x, m : Waits(fin, c, j, b, g, own, e, o, n, x, m)
    BY <1>6
  <2>2. /\ j \in Writers /\ b \in WriteBursts /\ g \in Seq(Words) /\ own \in Part
        /\ o \in Seq(Words) /\ n \in Seq(Words) /\ AskedToWrite(j, b)
        /\ Gives(j, g, own) /\ c = Len(g) + own.left /\ Owes(own, e)
        /\ writerdQ \o g = o \o n /\ Len(o) = curWriteCnt /\ Len(n) + own.left = b.words
        /\ Giving(o, writeCur.addr, Logical(fin), x, m) /\ Giving(n, b.addr, m, e, latest)
    BY <2>1 DEF Waits
  <2>3. o # <<>>
    BY <1>1, <2>2
  <2>4. /\ Head(writerdQ \o g) = Head(writerdQ) /\ Tail(writerdQ \o g) = Tail(writerdQ) \o g
        /\ Head(o \o n) = Head(o) /\ Tail(o \o n) = Tail(o) \o n
        /\ Tail(o) \in Seq(Words) /\ Len(Tail(o)) = Len(o) - 1
    BY <1>1, <1>2, <2>2, <2>3, JoinWordTail, Zenon
  <2> PICK r : r = Tail(o)
    OBVIOUS
  <2>5. /\ Head(o) = Head(writerdQ) /\ Tail(writerdQ) \o g = r \o n /\ r \in Seq(Words)
        /\ Len(r) = curWriteCnt - 1 /\ new = Store(fin, addrReMapping(writeCur.addr), Head(o))
    BY <2>2, <2>4, Zenon
  <2>6. /\ new \in Mem /\ Head(o) \in Words
        /\ addrReMapping(writeCur.addr) \in Halves /\ addrReMapping(writeCur.addr) + 1 \in Halves
        /\ Giving(Tail(o), writeCur.addr + 2, Logical(new), x, m)
    BY <2>2, <2>3, <2>5, GivingStored, Zenon
  <2>7. /\ writerdQ' \o g = r \o n /\ Len(r) = curWriteCnt'
        /\ Giving(r, writeCur'.addr, Logical(new), x, m) /\ Giving(n, b.addr, m, e, latest')
    BY <1>1, <1>3, <2>2, <2>5, <2>6, Zenon
  <2>8. AskedToWrite(j, b)' /\ Gives(j, g, own)'
    BY <1>1, <2>2 DEF AskedToWrite, Gives
  <2>9. Waits(new, c, j, b, g, own, e, r, n, x, m)'
    BY <2>2, <2>5, <2>7, <2>8 DEF Waits
  <2>10. WriteSide(new, c)'
    BY <2>9, Zenon DEF WriteSide
  <2> QED  BY <2>5, <2>6, <2>10, Zenon
<1> QED  BY <1>4, <1>5, <1>6 DEF WriteSide

-----------------------------------------------------------------------------
(* What leaves each part of the invariant as it is.                        *)
typedVars == <<writerM, writerdQ, readerQs, expected, owed, written, latest, readCur, writeCur,
               curReadCnt, curWriteCnt, nextRow>>
behindVars == <<reqs, cmdQ, nextRow, ddr3>>
readSideVars == <<curCnt, readerQ, mReader, readCur, curReadCnt, curClientIdx, readerdQ,
                  rightSft, readOffsetQ, respSyncQ, resps, readCache, expected, readerQs>>

LEMMA TypedKept ==
  ASSUME Typed, UNCHANGED typedVars
  PROVE  Typed'
BY DEF Typed, BurstTypes, typedVars

LEMMA BehindKept ==
  ASSUME NEW CONSTANT fin, NEW CONSTANT wq, NEW CONSTANT wc, NEW CONSTANT rq, NEW CONSTANT rc,
         NEW CONSTANT half, Behind(fin, wq, wc, rq, rc, half), UNCHANGED behindVars
  PROVE  Behind(fin, wq, wc, rq, rc, half)'
BY DEF Behind, behindVars

LEMMA WaitsKept ==
  ASSUME NEW CONSTANT rq, NEW CONSTANT rc, NEW CONSTANT i, NEW CONSTANT b, NEW CONSTANT rest,
         ReadWaits(rq, rc, i, b, rest), UNCHANGED readSideVars, latest' = latest
  PROVE  ReadWaits(rq, rc, i, b, rest)'
BY DEF ReadWaits, AskedToRead, PipeIdle, Promised, Expects, readSideVars

LEMMA ReadingKept ==
  ASSUME NEW CONSTANT fin, NEW CONSTANT wc, NEW CONSTANT wd, NEW CONSTANT rq, NEW CONSTANT rc,
         NEW CONSTANT i, NEW CONSTANT b, NEW CONSTANT rest, NEW CONSTANT d, NEW CONSTANT p,
         NEW CONSTANT c, NEW CONSTANT t0, NEW CONSTANT s, NEW CONSTANT t1, NEW CONSTANT t2,
         NEW CONSTANT x, NEW CONSTANT y,
         Reading(fin, wc, rq, rc, i, b, rest, d, p, c, t0, s, t1, t2, x, y),
         UNCHANGED readSideVars, latest' = latest,
         nextRow' /\ wd = <<>> <=> nextRow /\ wc = <<>>
  PROVE  Reading(fin, wd, rq, rc, i, b, rest, d, p, c, t0, s, t1, t2, x, y)'
<1>1. /\ i \in Readers /\ b \in ReadBursts /\ NoReads
      /\ d \in Nat /\ p \in Nat /\ c \in Nat /\ t0 \in Nat /\ s \in Nat /\ t1 \in Nat /\ t2 \in Nat
      /\ x \in Nat /\ y \in Nat
      /\ Promised(i, b, rest, d) /\ Passing(i, b, d, p) /\ Shifted(b, p, c) /\ AskingFor(b, y)
      /\ Noted(b, t0, t2) /\ Synced(fin, b, t0, s) /\ Fetched(fin, b, s, t1)
      /\ Counted(ReadRows, rq, t1, t2, RowReqs(b)) /\ Counted(ReadCmds, rc, x, y, CmdsOf(b))
      /\ Aligned(fin, b, c, t0) /\ Lined(wc, b, t2, x)
  BY DEF Reading
<1>2. NoReads' /\ Promised(i, b, rest, d)' /\ Passing(i, b, d, p)'
  BY <1>1 DEF NoReads, Promised, Expects, Passing, readSideVars
<1>3. Shifted(b, p, c)' /\ AskingFor(b, y)' /\ Noted(b, t0, t2)' /\ Synced(fin, b, t0, s)'
  BY <1>1 DEF Shifted, AskingFor, Noted, Synced, readSideVars
<1>4. Fetched(fin, b, s, t1)' /\ Aligned(fin, b, c, t0)'
  BY <1>1 DEF Fetched, Aligned, readSideVars
<1>5. Lined(wd, b, t2, x)'
  BY <1>1, Zenon DEF Lined
<1> QED  BY <1>1, <1>2, <1>3, <1>4, <1>5 DEF Reading

(* A step of the write side that changes none of the words on their way.   *)
LEMMA PhaseKept ==
  ASSUME NEW CONSTANT fin, NEW CONSTANT wc, NEW CONSTANT wd, NEW CONSTANT rq, NEW CONSTANT rc,
         Phase(fin, wc, rq, rc), UNCHANGED readSideVars, UNCHANGED writeSideVars,
         nextRow' /\ wd = <<>> <=> nextRow /\ wc = <<>>
  PROVE  Phase(fin, wd, rq, rc)'
<1>1. latest' = latest /\ curWriteCnt' = curWriteCnt
  BY DEF writeSideVars
<1>2. CASE /\ NoReads /\ PipeIdle /\ rq = <<>> /\ rc = <<>> /\ expected = readerQs
           /\ \E c \in Nat : c = curCnt /\ WriteSide(fin, c)
  <2>1. PICK c \in Nat : c = curCnt /\ WriteSide(fin, c)
    BY <1>2
  <2>2. WriteSide(fin, c)'
    BY <2>1, WriteSideKept
  <2>3. c = curCnt' /\ NoReads' /\ PipeIdle' /\ expected' = readerQs'
    BY <1>2, <2>1 DEF NoReads, PipeIdle, readSideVars
  <2> QED  BY <1>2, <2>2, <2>3, Zenon DEF Phase
<1>3. CASE \E e, i, b, rest : AllGiven(fin, e) /\ ReadWaits(rq, rc, i, b, rest)
  <2>1. PICK e, i, b, rest : AllGiven(fin, e) /\ ReadWaits(rq, rc, i, b, rest)
    BY <1>3
  <2>2. AllGiven(fin, e)'
    BY <2>1, AllGivenKept
  <2>3. ReadWaits(rq, rc, i, b, rest)'
    BY <1>1, <2>1, WaitsKept
  <2> QED  BY <2>2, <2>3, Zenon DEF Phase
<1>4. CASE /\ curWriteCnt = 0
           /\ \E e, i, b, rest, d, p, c, t0, s, t1, t2, x, y :
                AllGiven(fin, e) /\ Reading(fin, wc, rq, rc, i, b, rest, d, p, c, t0, s, t1, t2, x, y)
  <2>1. PICK e, i, b, rest, d, p, c, t0, s, t1, t2, x, y :
          AllGiven(fin, e) /\ Reading(fin, wc, rq, rc, i, b, rest, d, p, c, t0, s, t1, t2, x, y)
    BY <1>4
  <2>2. AllGiven(fin, e)'
    BY <2>1, AllGivenKept
  <2>3. Reading(fin, wd, rq, rc, i, b, rest, d, p, c, t0, s, t1, t2, x, y)'
    BY <1>1, <2>1, ReadingKept
  <2> QED  BY <1>1, <1>4, <2>2, <2>3, Zenon DEF Phase
<1> QED  BY <1>2, <1>3, <1>4, Zenon DEF Phase

-----------------------------------------------------------------------------
(* The queues to the memory.                                               *)
LEMMA BehindIs ==
  ASSUME NEW fin, NEW wq, NEW wc, NEW rq, NEW rc, NEW half, Behind(fin, wq, wc, rq, rc, half)
  PROVE  /\ reqs = wq \o rq /\ cmdQ = wc \o rc /\ (rq # <<>> => wc = <<>>)
         /\ rq \in Seq(ReadRows) /\ rc \in Seq(ReadCmds)
         /\ (half <=> nextRow /\ wc # <<>>) /\ (nextRow => cmdQ # <<>>)
         /\ Backed(ddr3, wq, wc, half, fin)
         /\ ddr3 \in Mem /\ fin \in Mem /\ wq \in Seq(WriteRows) /\ wc \in Seq(WriteCmds)
         /\ wq = <<>> /\ wc = <<>> => ddr3 = fin
<1>1. /\ reqs = wq \o rq /\ cmdQ = wc \o rc /\ (rq # <<>> => wc = <<>>)
      /\ rq \in Seq(ReadRows) /\ rc \in Seq(ReadCmds)
      /\ (half <=> nextRow /\ wc # <<>>) /\ (nextRow => cmdQ # <<>>)
      /\ Backed(ddr3, wq, wc, half, fin)
  BY Zenon DEF Behind
<1>2. /\ ddr3 \in Mem /\ fin \in Mem /\ wq \in Seq(WriteRows) /\ wc \in Seq(WriteCmds)
      /\ wq = <<>> /\ wc = <<>> => ddr3 = fin
  BY <1>1, BackedEnds, Zenon
<1> QED  BY <1>1, <1>2, Zenon

(* What is at the head of two queues is at the head of one of them.        *)
LEMMA HeadOfTwo ==
  ASSUME NEW S, NEW T, NEW p \in Seq(S), NEW q \in Seq(T)
  PROVE  /\ p = <<>> => p \o q = q
         /\ q = <<>> => p \o q = p
         /\ p # <<>> => /\ Head(p \o q) = Head(p) /\ Tail(p \o q) = Tail(p) \o q /\ Head(p) \in S
                        /\ Tail(p) \in Seq(S)
         /\ p \o q # <<>> /\ p = <<>> => q # <<>> /\ Head(q) \in T /\ Tail(q) \in Seq(T)
         /\ p \o q = <<>> => p = <<>> /\ q = <<>>
OBVIOUS

LEMMA AppendToTwo ==
  ASSUME NEW S, NEW T, NEW p \in Seq(S), NEW q \in Seq(T), NEW e \in T
  PROVE  Append(p \o q, e) = p \o Append(q, e) /\ Append(q, e) \in Seq(T) /\ Append(q, e) # <<>>
OBVIOUS

LEMMA WhichCmd ==
  ASSUME NEW fin, NEW wq, NEW wc, NEW rq, NEW rc, NEW half, Behind(fin, wq, wc, rq, rc, half),
         cmdQ # <<>>
  PROVE  /\ Head(cmdQ).write => /\ wc # <<>> /\ Head(cmdQ) = Head(wc) /\ rq = <<>>
                                /\ Tail(cmdQ) = Tail(wc) \o rc
         /\ ~Head(cmdQ).write => /\ wc = <<>> /\ rc # <<>> /\ cmdQ = rc
                                 /\ Head(cmdQ) = Head(rc) /\ Tail(cmdQ) = Tail(rc)
<1>1. /\ cmdQ = wc \o rc /\ (rq # <<>> => wc = <<>>) /\ rc \in Seq(ReadCmds) /\ wc \in Seq(WriteCmds)
  BY BehindIs
<1>2. CASE wc # <<>>
  <2>1. Head(cmdQ) = Head(wc) /\ Head(wc) \in WriteCmds /\ Tail(cmdQ) = Tail(wc) \o rc
    BY <1>1, <1>2, HeadOfTwo
  <2>2. Head(wc).write = TRUE
    BY <2>1 DEF WriteCmds
  <2> QED  BY <1>1, <1>2, <2>1, <2>2
<1>3. CASE wc = <<>>
  <2>1. cmdQ = rc /\ rc # <<>> /\ Head(rc) \in ReadCmds
    BY <1>1, <1>3, HeadOfTwo
  <2>2. Head(rc).write = FALSE
    BY <2>1 DEF ReadCmds
  <2> QED  BY <1>1, <1>3, <2>1, <2>2
<1> QED  BY <1>2, <1>3

LEMMA WhichReq ==
  ASSUME NEW fin, NEW wq, NEW wc, NEW rq, NEW rc, NEW half, Behind(fin, wq, wc, rq, rc, half),
         reqs # <<>>
  PROVE  /\ Head(reqs).put # NoData => /\ wq # <<>> /\ Head(reqs) = Head(wq)
                                       /\ Tail(reqs) = Tail(wq) \o rq
         /\ Head(reqs).put = NoData => /\ wq = <<>> /\ wc = <<>> /\ rq # <<>> /\ reqs = rq
                                       /\ Head(reqs) = Head(rq) /\ ddr3 = fin
<1>1. /\ reqs = wq \o rq /\ (rq # <<>> => wc = <<>>) /\ rq \in Seq(ReadRows) /\ wq \in Seq(WriteRows)
      /\ Backed(ddr3, wq, wc, half, fin) /\ (wq = <<>> /\ wc = <<>> => ddr3 = fin)
  BY BehindIs
<1>2. CASE wq # <<>>
  <2>1. Head(reqs) = Head(wq) /\ Tail(reqs) = Tail(wq) \o rq
    BY <1>1, <1>2, HeadOfTwo
  <2>2. Head(wq).put # NoData
    BY <1>1, <1>2, BackedRow
  <2> QED  BY <1>2, <2>1, <2>2
<1>3. CASE wq = <<>>
  <2>1. reqs = rq /\ rq # <<>> /\ Head(rq) \in ReadRows
    BY <1>1, <1>3, HeadOfTwo
  <2>2. Head(rq).put = NoData
    BY <2>1 DEF ReadRows
  <2> QED  BY <1>1, <1>3, <2>1, <2>2
<1> QED  BY <1>2, <1>3

(* The controller gives a word to cmdQ.                                    *)
LEMMA BehindCmd ==
  ASSUME NEW CONSTANT fin, NEW CONSTANT wq, NEW CONSTANT wc, NEW CONSTANT rq, NEW CONSTANT rc,
         NEW CONSTANT half, Behind(fin, wq, wc, rq, rc, half), rq = <<>>, rc = <<>>, relayWrite,
         NEW CONSTANT new, new = Store(fin, addrReMapping(writeCur.addr), Head(writerdQ)),
         Head(writerdQ) \in Words, writeCur.addr \in Nat,
         addrReMapping(writeCur.addr) \in Halves, addrReMapping(writeCur.addr) + 1 \in Halves
  PROVE  \E more : Behind(new, wq, more, rq, rc, half)'
<1>1. /\ reqs = wq \o rq /\ cmdQ = wc \o rc
      /\ rq \in Seq(ReadRows) /\ rc \in Seq(ReadCmds)
      /\ (half <=> nextRow /\ wc # <<>>) /\ (nextRow => cmdQ # <<>>)
      /\ Backed(ddr3, wq, wc, half, fin) /\ wc \in Seq(WriteCmds)
  <2>1. Behind(fin, wq, wc, rq, rc, half)
    OBVIOUS
  <2> QED  BY ONLY <2>1, BehindIs
<1> PICK k : k = [write |-> TRUE, addr |-> addrReMapping(writeCur.addr), data |-> Head(writerdQ)]
  OBVIOUS
<1>2. /\ cmdQ' = Append(cmdQ, k) /\ nextRow' = nextRow /\ reqs' = reqs /\ ddr3' = ddr3
  BY DEF relayWrite
<1>3. k \in WriteCmds /\ k.addr = addrReMapping(writeCur.addr) /\ k.data = Head(writerdQ)
  BY DEF WriteCmds, Halves
<1> PICK more : more = Append(wc, k)
  OBVIOUS
<1>4. Backed(ddr3, wq, more, half, new)
  <2>1. k.addr \in Halves /\ k.addr + 1 \in Halves /\ new = Store(fin, k.addr, k.data)
    BY <1>3, Zenon
  <2>2. Backed(ddr3, wq, Append(wc, k), half, Store(fin, k.addr, k.data))
    BY <1>1, <1>3, <2>1, BackedCmd, Zenon
  <2> QED  BY <2>1, <2>2, Zenon
<1>5. cmdQ = wc /\ cmdQ' = more \o rc /\ more # <<>> /\ cmdQ' # <<>>
  <2>1. cmdQ = wc
    BY <1>1
  <2>2. more # <<>> /\ more \o <<>> = more
    BY <1>1, <1>3
  <2> QED  BY <1>2, <2>1, <2>2
<1>6. half <=> nextRow' /\ more # <<>>
  BY <1>1, <1>2, <1>5
<1>7. Behind(new, wq, more, rq, rc, half)'
  BY <1>1, <1>2, <1>4, <1>5, <1>6, Zenon DEF Behind
<1> QED  BY <1>7

(* Rows of a word come to reqs.                                            *)
LEMMA BehindPut ==
  ASSUME NEW CONSTANT fin, NEW CONSTANT wq, NEW CONSTANT wc, NEW CONSTANT rq, NEW CONSTANT rc,
         NEW CONSTANT half, Behind(fin, wq, wc, rq, rc, half), driverWrie, nextRow \in BOOLEAN
  PROVE  /\ \E more, rest, start : /\ Behind(fin, more, rest, rq, rc, start)'
                                   /\ ~(nextRow' /\ rest = <<>>)
         /\ ~(nextRow /\ wc = <<>>) /\ nextRow' \in BOOLEAN
<1> PICK k : k = Head(cmdQ)
  OBVIOUS
<1> PICK two \in BOOLEAN : two <=> k.addr % 2 = 1 /\ ~nextRow
  OBVIOUS
<1> PICK r : r = [row |-> IF nextRow THEN k.addr \div 2 + 1 ELSE k.addr \div 2,
                  put |-> IF k.addr % 2 = 0 THEN [h \in {0, 1} |-> k.data[h + 1]]
                          ELSE IF nextRow THEN [h \in {0} |-> k.data[2]]
                          ELSE [h \in {1} |-> k.data[1]]]
  OBVIOUS
<1>1. /\ cmdQ # <<>> /\ k.write /\ reqs' = Append(reqs, r)
      /\ ddr3' = ddr3 /\ nextRow' = two /\ cmdQ' = IF two THEN cmdQ ELSE Tail(cmdQ)
  BY DEF driverWrie, RowDone
<1>2. /\ wc # <<>> /\ k = Head(wc) /\ rq = <<>> /\ Tail(cmdQ) = Tail(wc) \o rc
  BY <1>1, WhichCmd
<1>3. /\ reqs = wq \o rq /\ cmdQ = wc \o rc
      /\ rq \in Seq(ReadRows) /\ rc \in Seq(ReadCmds)
      /\ (half <=> nextRow /\ wc # <<>>)
      /\ Backed(ddr3, wq, wc, half, fin) /\ wc \in Seq(WriteCmds) /\ wq \in Seq(WriteRows)
  BY BehindIs
<1>4. k.addr \in Nat /\ k.addr % 2 \in {0, 1} /\ (half <=> nextRow) /\ (half => k.addr % 2 = 1)
  <2>1. k \in WriteCmds /\ (half => k.addr % 2 = 1)
    BY <1>2, <1>3, BackedHead
  <2> QED  BY <1>2, <1>3, <2>1 DEF WriteCmds
<1> PICK more : more = Append(wq, r)
  OBVIOUS
<1>5. reqs' = more \o rq
  <2>1. reqs = wq /\ Append(wq, r) \o <<>> = Append(wq, r)
    BY <1>2, <1>3
  <2> QED  BY <1>1, <1>2, <2>1, Zenon
<1>6. CASE k.addr % 2 = 0
  <2>1. r = [row |-> k.addr \div 2, put |-> [h \in {0, 1} |-> k.data[h + 1]]] /\ two = FALSE
    BY <1>4, <1>6
  <2>2. Backed(ddr3, more, Tail(wc), FALSE, fin)
    <3>1. Head(wc).addr % 2 = 0
      BY <1>2, <1>6
    <3>2. r = [row |-> Head(wc).addr \div 2, put |-> [h \in {0, 1} |-> Head(wc).data[h + 1]]]
      BY <1>2, <2>1, Zenon
    <3> QED  BY <1>2, <1>3, <3>1, <3>2, BackedWhole, Zenon
  <2>3. Behind(fin, more, Tail(wc), rq, rc, FALSE)'
    BY <1>1, <1>2, <1>3, <1>5, <2>1, <2>2, Zenon DEF Behind
  <2> QED  BY <1>1, <1>2, <2>1, <2>3, Zenon
<1>7. CASE k.addr % 2 = 1 /\ nextRow
  <2>1. r = [row |-> k.addr \div 2 + 1, put |-> [h \in {0} |-> k.data[2]]] /\ two = FALSE /\ half
    BY <1>4, <1>7
  <2>2. Backed(ddr3, more, Tail(wc), FALSE, fin)
    <3>1. r = [row |-> Head(wc).addr \div 2 + 1, put |-> [h \in {0} |-> Head(wc).data[2]]]
      BY <1>2, <2>1
    <3> QED  BY <1>2, <1>3, <2>1, <3>1, BackedSecond, Zenon
  <2>3. Behind(fin, more, Tail(wc), rq, rc, FALSE)'
    BY <1>1, <1>2, <1>3, <1>5, <2>1, <2>2, Zenon DEF Behind
  <2> QED  BY <1>1, <1>2, <2>1, <2>3, Zenon
<1>8. CASE k.addr % 2 = 1 /\ ~nextRow
  <2>1. r = [row |-> k.addr \div 2, put |-> [h \in {1} |-> k.data[1]]] /\ two = TRUE
    BY <1>4, <1>8
  <2>2. Backed(ddr3, more, wc, TRUE, fin)
    BY <1>2, <1>3, <1>8, <2>1, BackedFirst, Zenon
  <2>3. Behind(fin, more, wc, rq, rc, TRUE)'
    BY <1>1, <1>2, <1>3, <1>5, <2>1, <2>2, Zenon DEF Behind
  <2> QED  BY <1>1, <1>2, <2>1, <2>3, Zenon
<1> QED  BY <1>4, <1>6, <1>7, <1>8

(* The memory writes a row.                                                *)
LEMMA BehindRow ==
  ASSUME NEW CONSTANT fin, NEW CONSTANT wq, NEW CONSTANT wc, NEW CONSTANT rq, NEW CONSTANT rc,
         NEW CONSTANT half, Behind(fin, wq, wc, rq, rc, half), relayReqs, Head(reqs).put # NoData
  PROVE  \E more : Behind(fin, more, wc, rq, rc, half)'
<1>1. /\ reqs # <<>> /\ reqs' = Tail(reqs) /\ cmdQ' = cmdQ /\ nextRow' = nextRow
      /\ ddr3' = [h \in DOMAIN ddr3 |->
           IF h \div 2 = Head(reqs).row /\ h % 2 \in DOMAIN Head(reqs).put
           THEN Head(reqs).put[h % 2] ELSE ddr3[h]]
  BY DEF relayReqs
<1>2. wq # <<>> /\ Head(reqs) = Head(wq) /\ Tail(reqs) = Tail(wq) \o rq
  BY <1>1, WhichReq
<1>3. /\ cmdQ = wc \o rc /\ (rq # <<>> => wc = <<>>)
      /\ rq \in Seq(ReadRows) /\ rc \in Seq(ReadCmds)
      /\ (half <=> nextRow /\ wc # <<>>) /\ (nextRow => cmdQ # <<>>)
      /\ Backed(ddr3, wq, wc, half, fin) /\ ddr3 \in Mem
  BY BehindIs
<1>4. ddr3' = PutRow(ddr3, Head(wq))
  <2>1. DOMAIN ddr3 = Halves
    BY <1>3 DEF Mem
  <2> QED  BY <1>1, <1>2, <2>1, Zenon DEF PutRow
<1>5. Backed(ddr3', Tail(wq), wc, half, fin)
  BY <1>2, <1>3, <1>4, BackedRow, Zenon
<1>6. Behind(fin, Tail(wq), wc, rq, rc, half)'
  BY <1>1, <1>2, <1>3, <1>5, Zenon DEF Behind
<1> QED  BY <1>6, Zenon

-----------------------------------------------------------------------------
(* The phases, and the steps of the writers.                               *)
QuietSide == NoReads /\ PipeIdle /\ expected = readerQs

LEMMA QuietAgain ==
  ASSUME Typed', NEW CONSTANT fin, NEW CONSTANT wq, NEW CONSTANT wc, NEW CONSTANT half,
         Behind(fin, wq, wc, <<>>, <<>>, half)', QuietSide',
         NEW CONSTANT c \in Nat, c = curCnt', WriteSide(fin, c)'
  PROVE  BurstInv'
<1>1. Phase(fin, wc, <<>>, <<>>)'
  BY Zenon DEF Phase, QuietSide
<1> QED  BY <1>1, Zenon DEF BurstInv

LEMMA QuietNow ==
  ASSUME BurstInv, \A fin, e : ~AllGiven(fin, e)
  PROVE  /\ Typed /\ QuietSide
         /\ \E fin, wq, wc, half, c : /\ Behind(fin, wq, wc, <<>>, <<>>, half)
                                      /\ c \in Nat /\ c = curCnt /\ WriteSide(fin, c)
<1>1. Typed /\ \E fin, wq, wc, rq, rc, half :
                 Behind(fin, wq, wc, rq, rc, half) /\ Phase(fin, wc, rq, rc)
  BY Zenon DEF BurstInv
<1>2. PICK fin, wq, wc, rq, rc, half : Behind(fin, wq, wc, rq, rc, half) /\ Phase(fin, wc, rq, rc)
  BY <1>1
<1>3. /\ NoReads /\ PipeIdle /\ rq = <<>> /\ rc = <<>> /\ expected = readerQs
      /\ \E c \in Nat : c = curCnt /\ WriteSide(fin, c)
  BY <1>2, Zenon DEF Phase
<1>4. PICK c \in Nat : c = curCnt /\ WriteSide(fin, c)
  BY <1>3
<1>5. Behind(fin, wq, wc, <<>>, <<>>, half)
  BY <1>2, <1>3, Zenon
<1> QED  BY <1>1, <1>3, <1>4, <1>5, Zenon DEF QuietSide

LEMMA QuietKept ==
  ASSUME QuietSide, UNCHANGED <<readerQ, mReader, readCur, curReadCnt, readerdQ, rightSft,
                                readOffsetQ, respSyncQ, resps, expected, readerQs>>
  PROVE  QuietSide'
BY DEF QuietSide, NoReads, PipeIdle

LEMMA LatestIs ==
  ASSUME NEW CONSTANT fin, NEW CONSTANT c, WriteSide(fin, c)', writerdQ' \in Seq(Words)
  PROVE  latest' \in Mem
<1>1. CASE (\E e : AllGiven(fin, e))'
  <2>1. PICK e : AllGiven(fin, e)'
    BY <1>1
  <2>2. Giving(writerdQ', writeCur'.addr, Logical(fin), e, latest')
    BY <2>1 DEF AllGiven
  <2> QED  BY <2>2, GivingEnds
<1>2. CASE (\E j, g, own, e : Started(fin, c, j, g, own, e))'
  <2>1. PICK j, g, own, e : Started(fin, c, j, g, own, e)'
    BY <1>2
  <2>2. Giving(writerdQ' \o g, writeCur'.addr, Logical(fin), e, latest') /\ g \in Seq(Words)
    BY <2>1 DEF Started
  <2>3. writerdQ' \o g \in Seq(Words)
    BY <2>2
  <2> QED  BY <2>2, <2>3, GivingEnds
<1>3. CASE (\E j, b, g, own, e, o, n, x, m : Waits(fin, c, j, b, g, own, e, o, n, x, m))'
  <2>1. PICK j, b, g, own, e, o, n, x, m : Waits(fin, c, j, b, g, own, e, o, n, x, m)'
    BY <1>3
  <2>2. Giving(n, b.addr, m, e, latest') /\ n \in Seq(Words)
    BY <2>1 DEF Waits
  <2> QED  BY <2>2, GivingEnds
<1> QED  BY <1>1, <1>2, <1>3, Zenon DEF WriteSide

LEMMA WriteKeeps ==
  ASSUME BurstInv, NEW CONSTANT i \in Writers, write(i)
  PROVE  BurstInv'
<1>1. \A fin, e : ~AllGiven(fin, e)
  BY DEF write, AllGiven
<1>2. /\ Typed /\ QuietSide
      /\ \E fin, wq, wc, half, c : /\ Behind(fin, wq, wc, <<>>, <<>>, half)
                                   /\ c \in Nat /\ c = curCnt /\ WriteSide(fin, c)
  BY <1>1, QuietNow
<1>3. PICK fin, wq, wc, half, c : /\ Behind(fin, wq, wc, <<>>, <<>>, half)
                                  /\ c \in Nat /\ c = curCnt /\ WriteSide(fin, c)
  BY <1>2
<1>4. BurstTypes
  BY <1>2 DEF Typed
<1>5. WriteSide(fin, c)'
  BY <1>3, <1>4, WriteKeepsSide
<1>6. Behind(fin, wq, wc, <<>>, <<>>, half)'
  <2>1. UNCHANGED behindVars
    BY DEF write, rowVars, behindVars
  <2> QED  BY <1>3, <2>1, BehindKept
<1>7. QuietSide' /\ curCnt' = curCnt
  <2>1. UNCHANGED <<readerQ, mReader, readCur, curReadCnt, readerdQ, rightSft,
                    readOffsetQ, respSyncQ, resps, expected, readerQs, curCnt>>
    BY DEF write, cntVars, relayVars, burstVars, rowVars
  <2> QED  BY <1>2, <2>1, QuietKept
<1>8. Typed'
  <2> PICK w : w = <<2 * written + 1, 2 * written + 2>>
    OBVIOUS
  <2>1. /\ owed[i].left > 0
        /\ writerM' = [writerM EXCEPT ![i] = Append(@, w)]
        /\ owed' = [owed EXCEPT ![i] = [addr |-> owed[i].addr + 2, left |-> @.left - 1]]
        /\ written' = written + 1
        /\ UNCHANGED <<writerdQ, readerQs, expected, readCur, writeCur,
                       curReadCnt, curWriteCnt, nextRow>>
    BY DEF write, cntVars, relayVars, burstVars, rowVars
  <2>2. w \in Words /\ written' \in Nat
    BY <1>4, <2>1 DEF BurstTypes, Words
  <2>3. writerM' \in [Writers -> Seq(Words)]
    <3>1. writerM \in [Writers -> Seq(Words)]
      BY <1>4 DEF BurstTypes
    <3>2. Append(writerM[i], w) \in Seq(Words)
      BY <2>2, <3>1
    <3> QED  BY <2>1, <3>1, <3>2, Zenon
  <2>4. owed' \in [Writers -> Part]
    <3>1. owed \in [Writers -> Part]
      BY <1>4 DEF BurstTypes
    <3>2. [addr |-> owed[i].addr + 2, left |-> owed[i].left - 1] \in Part
      BY <2>1, <3>1 DEF Part
    <3> QED  BY <2>1, <3>1, <3>2
  <2>5. writerdQ' \in Seq(Words) /\ latest' \in Mem
    <3>1. writerdQ' \in Seq(Words)
      BY <1>4, <2>1 DEF BurstTypes
    <3> QED  BY <1>5, <3>1, LatestIs
  <2>6. BurstTypes'
    BY <1>4, <2>1, <2>2, <2>3, <2>4, <2>5 DEF BurstTypes
  <2> QED  BY <1>2, <2>1, <2>6 DEF Typed
<1> QED  BY <1>3, <1>5, <1>6, <1>7, <1>8, QuietAgain

LEMMA RelayDramWriteKeeps ==
  ASSUME BurstInv, NEW CONSTANT i \in Writers, relayDramWrite(i)
  PROVE  BurstInv'
<1>1. \A fin, e : ~AllGiven(fin, e)
  BY DEF relayDramWrite, AllGiven, NoWrites
<1>2. /\ Typed /\ QuietSide
      /\ \E fin, wq, wc, half, c : /\ Behind(fin, wq, wc, <<>>, <<>>, half)
                                   /\ c \in Nat /\ c = curCnt /\ WriteSide(fin, c)
  BY <1>1, QuietNow
<1>3. PICK fin, wq, wc, half, c : /\ Behind(fin, wq, wc, <<>>, <<>>, half)
                                  /\ c \in Nat /\ c = curCnt /\ WriteSide(fin, c)
  BY <1>2
<1>4. WriteSide(fin, c)'
  BY <1>3, RelayDramWriteSide
<1>5. Behind(fin, wq, wc, <<>>, <<>>, half)'
  <2>1. UNCHANGED behindVars
    BY DEF relayDramWrite, rowVars, behindVars
  <2> QED  BY <1>3, <2>1, BehindKept
<1>6. QuietSide' /\ curCnt' = curCnt
  <2>1. UNCHANGED <<readerQ, mReader, readCur, curReadCnt, readerdQ, rightSft,
                    readOffsetQ, respSyncQ, resps, expected, readerQs, curCnt>>
    BY DEF relayDramWrite, cntVars, relayVars, burstVars, rowVars, ghostVars
  <2> QED  BY <1>2, <2>1, QuietKept
<1>7. Typed'
  <2>1. UNCHANGED typedVars
    BY DEF relayDramWrite, cntVars, burstVars, rowVars, ghostVars, typedVars
  <2> QED  BY <1>2, <2>1, TypedKept
<1> QED  BY <1>3, <1>4, <1>5, <1>6, <1>7, QuietAgain

LEMMA RelayWriteCKeeps ==
  ASSUME BurstInv, NEW CONSTANT i \in Writers, relayWriteC(i)
  PROVE  BurstInv'
<1>1. \A fin, e : ~AllGiven(fin, e)
  BY DEF relayWriteC, AllGiven
<1>2. /\ Typed /\ QuietSide
      /\ \E fin, wq, wc, half, c : /\ Behind(fin, wq, wc, <<>>, <<>>, half)
                                   /\ c \in Nat /\ c = curCnt /\ WriteSide(fin, c)
  BY <1>1, QuietNow
<1>3. PICK fin, wq, wc, half, c : /\ Behind(fin, wq, wc, <<>>, <<>>, half)
                                  /\ c \in Nat /\ c = curCnt /\ WriteSide(fin, c)
  BY <1>2
<1>4. BurstTypes
  BY <1>2 DEF Typed
<1> PICK d : d = c - 1
  OBVIOUS
<1>5. c > 0 /\ WriteSide(fin, d)'
  BY <1>3, <1>4, RelayWriteCSide
<1>6. Behind(fin, wq, wc, <<>>, <<>>, half)'
  <2>1. UNCHANGED behindVars
    BY DEF relayWriteC, rowVars, behindVars
  <2> QED  BY <1>3, <2>1, BehindKept
<1>7. QuietSide' /\ d = curCnt' /\ d \in Nat
  <2>1. UNCHANGED <<readerQ, mReader, readCur, curReadCnt, readerdQ, rightSft,
                    readOffsetQ, respSyncQ, resps, expected, readerQs>>
    BY DEF relayWriteC, cntVars, burstVars, rowVars, ghostVars
  <2>2. d = curCnt' /\ d \in Nat
    BY <1>3, <1>5 DEF relayWriteC
  <2> QED  BY <1>2, <2>1, <2>2, QuietKept
<1>8. Typed'
  <2>1. /\ Len(writerdQ) < SyncFifo /\ writerM[i] # <<>>
        /\ writerdQ' = Append(writerdQ, Head(writerM[i]))
        /\ writerM' = [writerM EXCEPT ![i] = Tail(@)]
        /\ UNCHANGED <<owed, written, latest, readerQs, expected, readCur, writeCur,
                       curReadCnt, curWriteCnt, nextRow>>
    BY DEF relayWriteC, cntVars, burstVars, rowVars, ghostVars
  <2>2. writerM \in [Writers -> Seq(Words)] /\ writerdQ \in Seq(Words) /\ SyncFifo \in Nat
    BY <1>4, DramAssumption DEF BurstTypes
  <2>3. /\ Head(writerM[i]) \in Words /\ Tail(writerM[i]) \in Seq(Words)
        /\ writerdQ' \in Seq(Words) /\ Len(writerdQ') = Len(writerdQ) + 1 /\ Len(writerdQ) \in Nat
    <3>1. writerM[i] \in Seq(Words)
      BY <2>2
    <3> QED  BY <2>1, <2>2, <3>1, JoinWordMoved, Zenon
  <2>4. writerM' \in [Writers -> Seq(Words)]
    BY <2>1, <2>2, <2>3, Zenon
  <2>5. BurstTypes'
    BY <1>4, <2>1, <2>3, <2>4 DEF BurstTypes
  <2>6. Len(writerdQ') <= SyncFifo
    BY <2>1, <2>2, <2>3
  <2> QED  BY <1>2, <2>1, <2>5, <2>6 DEF Typed
<1> QED  BY <1>3, <1>5, <1>6, <1>7, <1>8, QuietAgain

LEMMA StartDramWriteKeeps ==
  ASSUME BurstInv, startDramWrite
  PROVE  BurstInv'
<1>1. \A fin, e : ~AllGiven(fin, e)
  BY DEF startDramWrite, AllGiven, NoWrites
<1>2. /\ Typed /\ QuietSide
      /\ \E fin, wq, wc, half, c : /\ Behind(fin, wq, wc, <<>>, <<>>, half)
                                   /\ c \in Nat /\ c = curCnt /\ WriteSide(fin, c)
  BY <1>1, QuietNow
<1>3. PICK fin, wq, wc, half, c : /\ Behind(fin, wq, wc, <<>>, <<>>, half)
                                  /\ c \in Nat /\ c = curCnt /\ WriteSide(fin, c)
  BY <1>2
<1>4. BurstTypes
  BY <1>2 DEF Typed
<1>5. /\ WriteSide(fin, c)' /\ writeCur' \in Part /\ curWriteCnt' \in Nat
      /\ writeCur'.left = curWriteCnt'
  BY <1>3, <1>4, StartWriteSide
<1>6. Behind(fin, wq, wc, <<>>, <<>>, half)'
  <2>1. UNCHANGED behindVars
    BY DEF startDramWrite, rowVars, behindVars
  <2> QED  BY <1>3, <2>1, BehindKept
<1>7. QuietSide' /\ curCnt' = curCnt
  <2>1. UNCHANGED <<readerQ, mReader, readCur, curReadCnt, readerdQ, rightSft,
                    readOffsetQ, respSyncQ, resps, expected, readerQs, curCnt>>
    BY DEF startDramWrite, clientVars, rowVars, ghostVars
  <2> QED  BY <1>2, <2>1, QuietKept
<1>8. Typed'
  <2>1. UNCHANGED <<writerM, writerdQ, readerQs, expected, owed, written, latest, readCur,
                    curReadCnt, nextRow>>
    BY DEF startDramWrite, clientVars, rowVars, ghostVars
  <2> QED  BY <1>2, <1>4, <1>5, <2>1 DEF Typed, BurstTypes
<1> QED  BY <1>3, <1>5, <1>6, <1>7, <1>8, QuietAgain

-----------------------------------------------------------------------------
(* Words go to the memory in any phase but that of reading.                *)
LEMMA RelayWriteKeeps ==
  ASSUME BurstInv, relayWrite
  PROVE  BurstInv'
<1>1. Typed /\ BurstTypes /\ writeCur.left = curWriteCnt /\ Len(writerdQ) <= SyncFifo
  BY Zenon DEF BurstInv, Typed
<1>2. PICK fin, wq, wc, rq, rc, half : Behind(fin, wq, wc, rq, rc, half) /\ Phase(fin, wc, rq, rc)
  BY Zenon DEF BurstInv
<1>3. fin \in Mem
  BY <1>2, BehindIs
<1>4. curWriteCnt > 0 /\ writerdQ # <<>> /\ writerdQ' = Tail(writerdQ) /\ writeCur' = After(writeCur)
      /\ curWriteCnt' = curWriteCnt - 1
  BY DEF relayWrite
<1>5. writerdQ \in Seq(Words) /\ writeCur \in Part /\ curWriteCnt \in Nat /\ SyncFifo \in Nat
  BY <1>1, DramAssumption DEF BurstTypes
<1> PICK new : new = Store(fin, addrReMapping(writeCur.addr), Head(writerdQ))
  OBVIOUS
<1>6. Typed'
  <2>1. UNCHANGED <<writerM, readerQs, expected, owed, written, latest, readCur, curReadCnt, nextRow>>
    BY DEF relayWrite, clientVars, ghostVars
  <2>2. writerdQ' \in Seq(Words) /\ Len(writerdQ') = Len(writerdQ) - 1 /\ Len(writerdQ) \in Nat
    BY <1>4, <1>5, JoinWordMoved, Zenon
  <2>3. writeCur' \in Part /\ writeCur'.left = curWriteCnt' /\ curWriteCnt' \in Nat
    BY <1>1, <1>4, <1>5 DEF Part, After
  <2>4. BurstTypes'
    BY <1>1, <2>1, <2>2, <2>3 DEF BurstTypes
  <2>5. Len(writerdQ') <= SyncFifo
    BY <1>1, <1>5, <2>2
  <2> QED  BY <2>3, <2>4, <2>5 DEF Typed
<1>7. writeCur.addr \in Nat
  BY <1>5 DEF Part
<1>8. UNCHANGED readSideVars /\ latest' = latest
  BY DEF relayWrite, clientVars, ghostVars, readSideVars
<1>9. CASE /\ NoReads /\ PipeIdle /\ rq = <<>> /\ rc = <<>> /\ expected = readerQs
           /\ \E c \in Nat : c = curCnt /\ WriteSide(fin, c)
  <2>1. PICK c \in Nat : c = curCnt /\ WriteSide(fin, c)
    BY <1>9
  <2>2. /\ WriteSide(new, c)' /\ new \in Mem /\ Head(writerdQ) \in Words
        /\ addrReMapping(writeCur.addr) \in Halves /\ addrReMapping(writeCur.addr) + 1 \in Halves
    BY <1>1, <1>3, <2>1, RelayWriteSide
  <2>3. PICK more : Behind(new, wq, more, rq, rc, half)'
    BY <1>2, <1>7, <1>9, <2>2, BehindCmd
  <2>4. Behind(new, wq, more, <<>>, <<>>, half)'
    BY <1>9, <2>3, Zenon
  <2>5. QuietSide' /\ c = curCnt'
    BY <1>8, <1>9, <2>1 DEF QuietSide, NoReads, PipeIdle, readSideVars
  <2> QED  BY <1>6, <2>2, <2>4, <2>5, QuietAgain
<1>10. CASE \E e, i, b, rest : AllGiven(fin, e) /\ ReadWaits(rq, rc, i, b, rest)
  <2>1. PICK e, i, b, rest : AllGiven(fin, e) /\ ReadWaits(rq, rc, i, b, rest)
    BY <1>10
  <2>2. /\ AllGiven(new, e)' /\ new \in Mem /\ Head(writerdQ) \in Words
        /\ addrReMapping(writeCur.addr) \in Halves /\ addrReMapping(writeCur.addr) + 1 \in Halves
    BY <1>1, <1>3, <2>1, RelayWriteGiven
  <2>3. rq = <<>> /\ rc = <<>>
    BY <2>1 DEF ReadWaits
  <2>4. PICK more : Behind(new, wq, more, rq, rc, half)'
    BY <1>2, <1>7, <2>2, <2>3, BehindCmd
  <2>5. ReadWaits(rq, rc, i, b, rest)'
    BY <1>8, <2>1, WaitsKept
  <2>6. Phase(new, more, rq, rc)'
    BY <2>2, <2>5, Zenon DEF Phase
  <2> QED  BY <1>6, <2>4, <2>6, Zenon DEF BurstInv
<1>11. ~(curWriteCnt = 0)
  BY <1>4, <1>5
<1> QED  BY <1>2, <1>9, <1>10, <1>11, Zenon DEF Phase

LEMMA DriverWrieKeeps ==
  ASSUME BurstInv, driverWrie
  PROVE  BurstInv'
<1>1. Typed /\ BurstTypes /\ nextRow \in BOOLEAN
  BY Zenon DEF BurstInv, Typed, BurstTypes
<1>2. PICK fin, wq, wc, rq, rc, half : Behind(fin, wq, wc, rq, rc, half) /\ Phase(fin, wc, rq, rc)
  BY Zenon DEF BurstInv
<1>3. /\ \E more, rest, start : /\ Behind(fin, more, rest, rq, rc, start)'
                                /\ ~(nextRow' /\ rest = <<>>)
      /\ ~(nextRow /\ wc = <<>>) /\ nextRow' \in BOOLEAN
  BY <1>1, <1>2, BehindPut
<1>4. PICK more, rest, start : Behind(fin, more, rest, rq, rc, start)' /\ ~(nextRow' /\ rest = <<>>)
  BY <1>3
<1>5. UNCHANGED readSideVars /\ UNCHANGED writeSideVars
  BY DEF driverWrie, clientVars, cntVars, relayVars, burstVars, ghostVars, readSideVars, writeSideVars
<1>6. Phase(fin, rest, rq, rc)'
  BY <1>2, <1>3, <1>4, <1>5, PhaseKept
<1>7. Typed'
  <2>1. UNCHANGED <<writerM, writerdQ, readerQs, expected, owed, written, latest, readCur, writeCur,
                    curReadCnt, curWriteCnt>>
    BY DEF driverWrie, clientVars, cntVars, relayVars, burstVars, ghostVars
  <2> QED  BY <1>1, <1>3, <2>1 DEF Typed, BurstTypes
<1> QED  BY <1>4, <1>6, <1>7, Zenon DEF BurstInv

LEMMA RelayReqsWriteKeeps ==
  ASSUME BurstInv, relayReqs, Head(reqs).put # NoData
  PROVE  BurstInv'
<1>1. Typed
  BY Zenon DEF BurstInv
<1>2. PICK fin, wq, wc, rq, rc, half : Behind(fin, wq, wc, rq, rc, half) /\ Phase(fin, wc, rq, rc)
  BY Zenon DEF BurstInv
<1>3. PICK more : Behind(fin, more, wc, rq, rc, half)'
  BY <1>2, BehindRow
<1>4. UNCHANGED readSideVars /\ UNCHANGED writeSideVars /\ UNCHANGED typedVars /\ nextRow' = nextRow
  BY DEF relayReqs, clientVars, cntVars, relayVars, burstVars, ghostVars, readSideVars,
         writeSideVars, typedVars
<1>5. Phase(fin, wc, rq, rc)'
  BY <1>2, <1>4, PhaseKept
<1>6. Typed'
  BY <1>1, <1>4, TypedKept
<1> QED  BY <1>3, <1>5, <1>6, Zenon DEF BurstInv

-----------------------------------------------------------------------------
(* How far a read burst is: no number passes the one it follows.           *)
LEMMA ReadingOrder ==
  ASSUME Typed, NEW fin, NEW wq, NEW wc, NEW rq, NEW rc, NEW half, Behind(fin, wq, wc, rq, rc, half),
         NEW i, NEW b, NEW rest, NEW d, NEW p, NEW c, NEW t0, NEW s, NEW t1, NEW t2, NEW x, NEW y,
         Reading(fin, wc, rq, rc, i, b, rest, d, p, c, t0, s, t1, t2, x, y)
  PROVE  /\ b.addr \in Nat /\ b.words \in Nat \ {0} /\ b.addr % 2 \in {0, 1}
         /\ d <= p /\ p <= c /\ t0 <= s /\ s <= t1 /\ t1 <= t2 /\ x <= y /\ y <= b.words
         /\ p <= b.words /\ (nextRow /\ wc = <<>> => x < y)
         /\ b.addr % 2 = 1 => t2 <= 2 * b.words /\ c = t0 \div 2
         /\ b.addr % 2 = 0 => t2 <= b.words /\ c = t0
<1>1. /\ b \in ReadBursts
      /\ d \in Nat /\ p \in Nat /\ c \in Nat /\ t0 \in Nat /\ s \in Nat /\ t1 \in Nat /\ t2 \in Nat
      /\ x \in Nat /\ y \in Nat
      /\ Passing(i, b, d, p) /\ Shifted(b, p, c) /\ AskingFor(b, y)
      /\ Synced(fin, b, t0, s) /\ Fetched(fin, b, s, t1)
      /\ Counted(ReadRows, rq, t1, t2, RowReqs(b)) /\ Counted(ReadCmds, rc, x, y, CmdsOf(b))
      /\ Aligned(fin, b, c, t0) /\ Lined(wc, b, t2, x)
  BY DEF Reading
<1>2. b.addr \in Nat /\ b.words \in Nat \ {0} /\ b.addr % 2 \in {0, 1}
  <2>1. b.addr \in Nat /\ b.words \in Nat \ {0}
    BY <1>1, BurstIs
  <2> QED  BY <2>1
<1>3. d <= p
  BY <1>1, CountedEnds, Zenon DEF Passing
<1>4. p <= c
  BY <1>1, CountedEnds, Zenon DEF Shifted
<1>5. t0 <= s /\ s <= t1
  BY <1>1, CountedEnds, Zenon DEF Synced, Fetched
<1>6. t1 <= t2 /\ x <= y /\ (rc = <<>> <=> x = y)
  BY <1>1, CountedEnds, Zenon
<1>7. p <= b.words /\ y <= b.words
  <2>1. curReadCnt \in Nat /\ readCur.left \in Nat
    BY DEF Typed, BurstTypes, Part
  <2>2. curReadCnt = b.words - p /\ readCur.left = b.words - y
    BY <1>1 DEF Passing, AskingFor
  <2>3. p \in Nat /\ y \in Nat
    BY <1>1
  <2> QED  BY ONLY <1>2, <2>1, <2>2, <2>3
<1>8. nextRow /\ wc = <<>> => x < y
  <2>1. ASSUME nextRow, wc = <<>> PROVE rc # <<>>
    <3>1. cmdQ # <<>> /\ cmdQ = wc \o rc /\ rc \in Seq(ReadCmds)
      <4>1. Behind(fin, wq, wc, rq, rc, half)
        OBVIOUS
      <4>2. cmdQ = wc \o rc /\ rc \in Seq(ReadCmds) /\ (nextRow => cmdQ # <<>>)
        BY ONLY <4>1, BehindIs
      <4> QED  BY <2>1, <4>2, Zenon
    <3> QED  BY <2>1, <3>1
  <2>2. x \in Nat /\ y \in Nat
    BY <1>1
  <2> QED  BY <1>6, <2>1, <2>2
<1>9. /\ b.addr % 2 = 1 => c = t0 \div 2 /\ t2 = 2 * x + (IF nextRow /\ wc = <<>> THEN 1 ELSE 0)
      /\ b.addr % 2 = 0 => c = t0 /\ t2 = x
  BY <1>1 DEF Aligned, Lined
<1>10. b.addr % 2 = 1 => t2 <= 2 * b.words
  <2>1. x \in Nat /\ y \in Nat
    BY <1>1
  <2> QED  BY ONLY <1>2, <1>6, <1>7, <1>8, <1>9, <2>1
<1>11. b.addr % 2 = 0 => t2 <= b.words
  <2>1. x \in Nat /\ y \in Nat
    BY <1>1
  <2> QED  BY ONLY <1>2, <1>6, <1>7, <1>9, <2>1
<1> QED  BY <1>2, <1>3, <1>4, <1>5, <1>6, <1>7, <1>8, <1>9, <1>10, <1>11, Zenon

(* When all its words have passed the splitter, nothing of it is left.     *)
LEMMA ReadingDone ==
  ASSUME Typed, NEW fin, NEW wq, NEW wc, NEW rq, NEW rc, NEW half, Behind(fin, wq, wc, rq, rc, half),
         NEW i, NEW b, NEW rest, NEW d, NEW p, NEW c, NEW t0, NEW s, NEW t1, NEW t2, NEW x, NEW y,
         Reading(fin, wc, rq, rc, i, b, rest, d, p, c, t0, s, t1, t2, x, y), curCnt = 0
  PROVE  QuietSide /\ rq = <<>> /\ rc = <<>>
<1>1. /\ i \in Readers /\ b \in ReadBursts /\ NoReads
      /\ d \in Nat /\ p \in Nat /\ c \in Nat /\ t0 \in Nat /\ s \in Nat /\ t1 \in Nat /\ t2 \in Nat
      /\ x \in Nat /\ y \in Nat
      /\ Promised(i, b, rest, d) /\ Passing(i, b, d, p) /\ Shifted(b, p, c) /\ AskingFor(b, y)
      /\ Noted(b, t0, t2) /\ Synced(fin, b, t0, s) /\ Fetched(fin, b, s, t1)
      /\ Counted(ReadRows, rq, t1, t2, RowReqs(b)) /\ Counted(ReadCmds, rc, x, y, CmdsOf(b))
  BY DEF Reading
<1>2. /\ b.addr \in Nat /\ b.words \in Nat \ {0} /\ b.addr % 2 \in {0, 1}
      /\ d <= p /\ p <= c /\ t0 <= s /\ s <= t1 /\ t1 <= t2 /\ x <= y /\ y <= b.words
      /\ p <= b.words /\ (nextRow /\ wc = <<>> => x < y)
      /\ b.addr % 2 = 1 => t2 <= 2 * b.words /\ c = t0 \div 2
      /\ b.addr % 2 = 0 => t2 <= b.words /\ c = t0
  BY ReadingOrder
<1>3. curCnt = b.words - d /\ d = b.words
  <2>1. curCnt = b.words - d /\ curCnt = 0
    BY <1>1 DEF Promised
  <2> QED  BY <1>1, <1>2, <2>1
<1>4. p = b.words /\ c >= b.words
  BY <1>1, <1>2, <1>3
<1>5. t0 = s /\ s = t1 /\ t1 = t2 /\ c = b.words /\ x = b.words /\ y = b.words
  <2>1. CASE b.addr % 2 = 1
    <3>1. t2 = 2 * x + (IF nextRow /\ wc = <<>> THEN 1 ELSE 0)
      BY <2>1 DEF Reading, Lined
    <3>2. /\ c \in Nat /\ t0 \in Nat /\ s \in Nat /\ t1 \in Nat /\ t2 \in Nat /\ x \in Nat /\ y \in Nat
          /\ t2 <= 2 * b.words /\ c = t0 \div 2
      BY <1>1, <1>2, <2>1
    <3>3. t0 >= 2 * b.words
      BY ONLY <1>2, <1>4, <3>2
    <3>4. t0 = t2 /\ t0 = s /\ s = t1 /\ t1 = t2 /\ t2 = 2 * b.words
      BY ONLY <1>2, <3>2, <3>3
    <3>5. ~(nextRow /\ wc = <<>>)
      BY ONLY <1>2, <3>1, <3>2, <3>4
    <3>6. x = b.words /\ y = b.words /\ c = b.words
      BY ONLY <1>2, <3>1, <3>2, <3>4, <3>5
    <3> QED  BY <3>4, <3>6
  <2>2. CASE b.addr % 2 = 0
    <3>1. t2 = x
      BY <2>2 DEF Reading, Lined
    <3>2. /\ c \in Nat /\ t0 \in Nat /\ s \in Nat /\ t1 \in Nat /\ t2 \in Nat /\ x \in Nat /\ y \in Nat
          /\ t2 <= b.words /\ c = t0
      BY <1>1, <1>2, <2>2
    <3> QED  BY ONLY <1>2, <1>4, <3>1, <3>2
  <2> QED  BY <1>2, <2>1, <2>2
<1>6. readerdQ = <<>>
  <2>1. Counted(Sent, readerdQ, d, p, SentTo(i, latest, b))
    BY <1>1 DEF Passing
  <2>2. d = p
    BY <1>3, <1>4
  <2> QED  BY <1>1, <2>1, <2>2, CountedEnds, ZenonT(60)
<1>7. rightSft = <<>>
  <2>1. Counted(Words, rightSft, p, c, WordsAt(latest, b))
    BY <1>1 DEF Shifted
  <2>2. p = c
    BY <1>4, <1>5
  <2> QED  BY <1>1, <2>1, <2>2, CountedEnds, ZenonT(60)
<1>8. readOffsetQ = <<>> /\ respSyncQ = <<>> /\ resps = <<>>
  <2>1. t0 = t2 /\ t0 = s /\ s = t1
    BY <1>5
  <2>2. Counted(Notes, readOffsetQ, t0, t2, OffsOf(b))
    BY <1>1 DEF Noted
  <2>3. Counted(Words, respSyncQ, t0, s, RowsAt(fin, b)) /\ Counted(Words, resps, s, t1, RowsAt(fin, b))
    BY <1>1 DEF Synced, Fetched
  <2>4. readOffsetQ = <<>>
    <3>1. t0 = t2 /\ t0 \in Nat /\ t2 \in Nat
      BY <1>1, <2>1
    <3> QED  BY <2>2, <3>1, CountedEnds, Zenon
  <2>5. respSyncQ = <<>>
    BY <1>1, <2>1, <2>3, CountedEnds, Zenon
  <2>6. resps = <<>>
    BY <1>1, <2>1, <2>3, CountedEnds, Zenon
  <2> QED  BY <2>4, <2>5, <2>6
<1>9. rq = <<>> /\ rc = <<>>
  <2>1. x = y
    BY <1>5
  <2> QED  BY <1>1, <1>5, <2>1, CountedEnds, Zenon
<1>10. readCur.left = 0 /\ curReadCnt = 0
  <2>1. readCur.left = b.words - y /\ curReadCnt = b.words - p
    BY <1>1 DEF AskingFor, Passing
  <2> QED  BY <1>2, <1>4, <1>5, <2>1
<1>11. expected = readerQs
  <2>1. Counted(Words, rest, d, b.words, WordsAt(latest, b)) /\ expected = [readerQs EXCEPT ![i] = @ \o rest]
    BY <1>1 DEF Promised, Expects
  <2>2. rest = <<>>
    <3>1. d \in Nat /\ b.words \in Nat
      BY <1>1, <1>2
    <3> QED  BY <1>3, <2>1, <3>1, CountedEnds, Zenon
  <2>3. readerQs \in [Readers -> Seq(Words)]
    BY DEF Typed, BurstTypes
  <2>4. readerQs[i] \o rest = readerQs[i]
    BY <1>1, <2>2, <2>3, JoinWordLen, Zenon
  <2> QED  BY <2>1, <2>3, <2>4
<1> QED  BY <1>1, <1>6, <1>7, <1>8, <1>9, <1>10, <1>11 DEF QuietSide, PipeIdle

LEMMA FreeIdle ==
  ASSUME BurstInv, WritesFill, Free
  PROVE  /\ Typed /\ BurstTypes /\ QuietSide
         /\ \E fin, wq, wc, half, e : Behind(fin, wq, wc, <<>>, <<>>, half) /\ AllGiven(fin, e)
<1>1. Typed /\ BurstTypes /\ Len(writerdQ) <= SyncFifo
  BY Zenon DEF BurstInv, Typed
<1>2. PICK fin, wq, wc, rq, rc, half : Behind(fin, wq, wc, rq, rc, half) /\ Phase(fin, wc, rq, rc)
  BY Zenon DEF BurstInv
<1>3. curCnt = 0
  BY DEF Free
<1>4. CASE /\ NoReads /\ PipeIdle /\ rq = <<>> /\ rc = <<>> /\ expected = readerQs
           /\ \E c \in Nat : c = curCnt /\ WriteSide(fin, c)
  <2>1. PICK c \in Nat : c = curCnt /\ WriteSide(fin, c)
    BY <1>4
  <2>2. PICK e : AllGiven(fin, e)
    <3>1. c = 0
      BY <1>3, <2>1
    <3> QED  BY <1>1, <2>1, <3>1, FreeGiven
  <2>3. Behind(fin, wq, wc, <<>>, <<>>, half)
    BY <1>2, <1>4, Zenon
  <2> QED  BY <1>1, <1>4, <2>2, <2>3, Zenon DEF QuietSide
<1>5. ASSUME NEW i, NEW b, NEW rest, ReadWaits(rq, rc, i, b, rest) PROVE FALSE
  <2>1. b \in ReadBursts /\ curCnt = b.words - 0
    BY <1>5 DEF ReadWaits, Promised
  <2>2. b.words \in Nat \ {0}
    BY <2>1, BurstIs
  <2> QED  BY <1>3, <2>1, <2>2
<1>6. CASE \E e, i, b, rest, d, p, c, t0, s, t1, t2, x, y :
             AllGiven(fin, e) /\ Reading(fin, wc, rq, rc, i, b, rest, d, p, c, t0, s, t1, t2, x, y)
  <2>1. PICK e, i, b, rest, d, p, c, t0, s, t1, t2, x, y :
          AllGiven(fin, e) /\ Reading(fin, wc, rq, rc, i, b, rest, d, p, c, t0, s, t1, t2, x, y)
    BY <1>6
  <2>2. QuietSide /\ rq = <<>> /\ rc = <<>>
    BY <1>1, <1>2, <1>3, <2>1, ReadingDone
  <2>3. Behind(fin, wq, wc, <<>>, <<>>, half)
    BY <1>2, <2>2, Zenon
  <2> QED  BY <1>1, <2>1, <2>2, <2>3, Zenon
<1> QED  BY <1>2, <1>4, <1>5, <1>6, Zenon DEF Phase

LEMMA WriteReqKeeps ==
  ASSUME BurstInv, BurstsFit, WritesFill, NEW CONSTANT j \in Writers, NEW CONSTANT b \in WriteBursts,
         writeReq(j, b)
  PROVE  BurstInv'
<1>1. Free
  BY DEF writeReq
<1>2. /\ Typed /\ BurstTypes /\ QuietSide
      /\ \E fin, wq, wc, half, e : Behind(fin, wq, wc, <<>>, <<>>, half) /\ AllGiven(fin, e)
  BY <1>1, FreeIdle
<1>3. PICK fin, wq, wc, half, e : Behind(fin, wq, wc, <<>>, <<>>, half) /\ AllGiven(fin, e)
  BY <1>2
<1> PICK c : c = b.words
  OBVIOUS
<1>4. b.addr \in Nat /\ b.words \in Nat \ {0}
  BY BurstIs
<1>5. WriteSide(fin, c)'
  <2>1. WriteSide(fin, b.words)'
    BY <1>2, <1>3, WriteReqSide
  <2>2. b.words = c
    OBVIOUS
  <2> QED  BY <2>1, <2>2
<1>6. Behind(fin, wq, wc, <<>>, <<>>, half)'
  <2>1. UNCHANGED behindVars
    BY DEF writeReq, rowVars, behindVars
  <2> QED  BY <1>3, <2>1, BehindKept
<1>7. QuietSide' /\ c = curCnt' /\ c \in Nat
  <2>1. UNCHANGED <<readerQ, mReader, readCur, curReadCnt, readerdQ, rightSft,
                    readOffsetQ, respSyncQ, resps, expected, readerQs>>
    BY DEF writeReq, cntVars, relayVars, burstVars, rowVars
  <2>2. c = curCnt' /\ c \in Nat
    BY <1>4 DEF writeReq
  <2> QED  BY <1>2, <2>1, <2>2, QuietKept
<1>8. Typed'
  <2>1. /\ UNCHANGED <<writerM, writerdQ, readerQs, expected, written, latest, readCur, writeCur,
                       curReadCnt, curWriteCnt, nextRow>>
        /\ owed' = [owed EXCEPT ![j] = [addr |-> b.addr, left |-> b.words]]
    BY DEF writeReq, cntVars, relayVars, burstVars, rowVars
  <2>2. [addr |-> b.addr, left |-> b.words] \in Part
    BY <1>4 DEF Part
  <2>3. owed' \in [Writers -> Part]
    BY <1>2, <2>1, <2>2 DEF BurstTypes
  <2> QED  BY <1>2, <2>1, <2>3 DEF Typed, BurstTypes
<1> QED  BY <1>3, <1>5, <1>6, <1>7, <1>8, QuietAgain

-----------------------------------------------------------------------------
(* The words of a read burst and the rows they are in.                     *)
LEMMA WordIs ==
  ASSUME BurstsFit, NEW b \in ReadBursts, NEW k \in Nat, k < b.words, NEW l \in Mem
  PROVE  /\ b.addr + 2 * k \in Nat /\ WordFits(b.addr + 2 * k)
         /\ b.addr + 2 * k \in Halves /\ b.addr + 2 * k + 1 \in Halves
         /\ WordsAt(l, b)[k] = <<l[b.addr + 2 * k], l[b.addr + 2 * k + 1]>>
         /\ WordsAt(l, b)[k] \in Words
<1>1. b.addr \in Nat /\ b.words \in Nat \ {0}
  BY BurstIs
<1>2. k \in 0 .. b.words - 1
  BY <1>1
<1> PICK a : a = b.addr + 2 * k
  OBVIOUS
<1> PICK z : z = a + 1
  OBVIOUS
<1>3. WordFits(a)
  BY <1>2 DEF BurstsFit
<1>4. a \in Halves /\ z \in Halves /\ a \in Nat
  BY <1>1, <1>3, RemapNext
<1>5. WordsAt(l, b)[k] = <<l[a], l[z]>>
  BY DEF WordsAt
<1>6. l[a] \in Nat /\ l[z] \in Nat
  BY <1>4 DEF Mem
<1> QED  BY <1>3, <1>4, <1>5, <1>6 DEF Words

LEMMA RemapPlace ==
  ASSUME NEW a, WordFits(a), NEW r, r = addrReMapping(a)
  PROVE  /\ a \in Halves /\ a \in Nat /\ r \in Nat /\ r \in 0 .. 2 * Rows - 1 /\ Rows \in Nat
         /\ r % 2 = a % 2
         /\ r + 1 \in 0 .. 2 * Rows - 1 /\ addrReMapping(a + 1) = r + 1 /\ a + 1 \in Halves
<1> PICK z : z = a + 1
  OBVIOUS
<1>1. a \in Halves /\ z \in Halves /\ addrReMapping(z) = r + 1
  BY RemapNext
<1>2. addrReMapping(a) \in Halves /\ addrReMapping(a) % 2 = a % 2 /\ addrReMapping(z) \in Halves
  BY <1>1, RemapIn
<1> QED  BY <1>1, <1>2, Sizes DEF Halves

(* Where the rows of a word are in the memory.                             *)
LEMMA EvenRow ==
  ASSUME BurstsFit, NEW b \in ReadBursts, NEW k \in Nat, k < b.words, b.addr % 2 = 0, NEW m \in Mem
  PROVE  /\ RowNo(b, k) \in Nat /\ 2 * RowNo(b, k) \in Halves /\ 2 * RowNo(b, k) + 1 \in Halves
         /\ addrReMapping(b.addr + 2 * k) % 2 = 0
         /\ RowNo(b, k) = addrReMapping(b.addr + 2 * k) \div 2
         /\ RowsAt(m, b)[k] = WordsAt(Logical(m), b)[k]
         /\ RowsAt(m, b)[k] = <<m[2 * RowNo(b, k)], m[2 * RowNo(b, k) + 1]>>
         /\ RowsAt(m, b)[k] \in Words
<1> PICK a : a = b.addr + 2 * k
  OBVIOUS
<1> PICK r : r = addrReMapping(a)
  OBVIOUS
<1>1. b.addr \in Nat /\ WordFits(a) /\ a % 2 = 0
  <2>1. b.addr \in Nat /\ b.words \in Nat
    BY BurstIs
  <2>2. k \in 0 .. b.words - 1
    BY <2>1
  <2>3. WordFits(a)
    BY <2>2 DEF BurstsFit
  <2> QED  BY <2>1, <2>3
<1>2. /\ a \in Halves /\ a \in Nat /\ r \in Nat /\ r \in 0 .. 2 * Rows - 1 /\ Rows \in Nat
      /\ r % 2 = a % 2
      /\ r + 1 \in 0 .. 2 * Rows - 1 /\ addrReMapping(a + 1) = r + 1 /\ a + 1 \in Halves
  BY <1>1, RemapPlace
<1> PICK n : n = RowNo(b, k)
  OBVIOUS
<1>3. n = r \div 2
  BY DEF RowNo
<1>4. n \in Nat /\ 2 * n = r /\ r % 2 = 0
  BY <1>1, <1>2, <1>3
<1>5. 2 * n \in Halves /\ 2 * n + 1 \in Halves
  BY <1>2, <1>4 DEF Halves
<1>6. RowsAt(m, b)[k] = <<m[2 * n], m[2 * n + 1]>>
  BY DEF RowsAt
<1>7. Logical(m)[a] = m[r] /\ Logical(m)[a + 1] = m[r + 1]
  BY <1>2 DEF Logical
<1>8. WordsAt(Logical(m), b)[k] = <<Logical(m)[a], Logical(m)[a + 1]>>
  BY DEF WordsAt
<1>9. RowsAt(m, b)[k] = WordsAt(Logical(m), b)[k]
  BY <1>4, <1>6, <1>7, <1>8, Zenon
<1>10. m[2 * n] \in Nat /\ m[2 * n + 1] \in Nat
  BY <1>5 DEF Mem
<1> QED  BY <1>3, <1>4, <1>5, <1>6, <1>9, <1>10 DEF Words

LEMMA OddRows ==
  ASSUME BurstsFit, NEW b \in ReadBursts, NEW k \in Nat, k < b.words, b.addr % 2 = 1, NEW m \in Mem,
         NEW t \in Nat, t = 2 * k
  PROVE  /\ RowNo(b, t) \in Nat /\ 2 * RowNo(b, t) \in Halves /\ 2 * RowNo(b, t) + 1 \in Halves
         /\ RowNo(b, t + 1) = RowNo(b, t) + 1
         /\ 2 * RowNo(b, t + 1) \in Halves /\ 2 * RowNo(b, t + 1) + 1 \in Halves
         /\ addrReMapping(b.addr + 2 * k) % 2 = 1
         /\ RowNo(b, t) = addrReMapping(b.addr + 2 * k) \div 2
         /\ <<RowsAt(m, b)[t][2], RowsAt(m, b)[t + 1][1]>> = WordsAt(Logical(m), b)[k]
         /\ RowsAt(m, b)[t] = <<m[2 * RowNo(b, t)], m[2 * RowNo(b, t) + 1]>>
         /\ RowsAt(m, b)[t + 1] = <<m[2 * RowNo(b, t + 1)], m[2 * RowNo(b, t + 1) + 1]>>
         /\ RowsAt(m, b)[t] \in Words /\ RowsAt(m, b)[t + 1] \in Words
<1> PICK a : a = b.addr + 2 * k
  OBVIOUS
<1> PICK r : r = addrReMapping(a)
  OBVIOUS
<1> PICK u : u = t + 1
  OBVIOUS
<1>1. b.addr \in Nat /\ WordFits(a) /\ a % 2 = 1
  <2>1. b.addr \in Nat /\ b.words \in Nat
    BY BurstIs
  <2>2. k \in 0 .. b.words - 1
    BY <2>1
  <2>3. WordFits(a)
    BY <2>2 DEF BurstsFit
  <2> QED  BY <2>1, <2>3
<1>2. /\ a \in Halves /\ a \in Nat /\ r \in Nat /\ r \in 0 .. 2 * Rows - 1 /\ Rows \in Nat
      /\ r % 2 = a % 2
      /\ r + 1 \in 0 .. 2 * Rows - 1 /\ addrReMapping(a + 1) = r + 1 /\ a + 1 \in Halves
  BY <1>1, RemapPlace
<1>3. t \div 2 = k /\ t % 2 = 0 /\ u \div 2 = k /\ u % 2 = 1 /\ u \in Nat
  OBVIOUS
<1> PICK n : n = RowNo(b, t)
  OBVIOUS
<1> PICK o : o = RowNo(b, u)
  OBVIOUS
<1>4. n = r \div 2 + 0 /\ o = r \div 2 + 1
  BY <1>3, Zenon DEF RowNo
<1>5. n \in Nat /\ n = r \div 2 /\ 2 * n + 1 = r /\ r % 2 = 1 /\ o = n + 1 /\ 2 * o = r + 1
  BY <1>1, <1>2, <1>4
<1>6. 2 * n \in Halves /\ 2 * n + 1 \in Halves /\ 2 * o \in Halves /\ 2 * o + 1 \in Halves
  BY <1>2, <1>5 DEF Halves
<1>7. RowsAt(m, b)[t] = <<m[2 * n], m[2 * n + 1]>> /\ RowsAt(m, b)[u] = <<m[2 * o], m[2 * o + 1]>>
  BY <1>3 DEF RowsAt
<1>8. Logical(m)[a] = m[r] /\ Logical(m)[a + 1] = m[r + 1]
  BY <1>2 DEF Logical
<1>9. WordsAt(Logical(m), b)[k] = <<Logical(m)[a], Logical(m)[a + 1]>>
  BY DEF WordsAt
<1>10. <<RowsAt(m, b)[t][2], RowsAt(m, b)[u][1]>> = WordsAt(Logical(m), b)[k]
  <2>1. RowsAt(m, b)[t][2] = m[2 * n + 1] /\ RowsAt(m, b)[u][1] = m[2 * o]
    BY <1>7
  <2> QED  BY <1>5, <1>8, <1>9, <2>1, Zenon
<1>11. m[2 * n] \in Nat /\ m[2 * n + 1] \in Nat /\ m[2 * o] \in Nat /\ m[2 * o + 1] \in Nat
  BY <1>6 DEF Mem
<1>12. RowsAt(m, b)[t] \in Words /\ RowsAt(m, b)[u] \in Words
  BY <1>7, <1>11 DEF Words
<1> QED  BY <1>5, <1>6, <1>7, <1>10, <1>12, Zenon

-----------------------------------------------------------------------------
(* The phases of a read burst change.                                      *)
LEMMA WaitsAgain ==
  ASSUME Typed', NEW CONSTANT fin, NEW CONSTANT wq, NEW CONSTANT wc, NEW CONSTANT half,
         NEW CONSTANT rq, NEW CONSTANT rc, Behind(fin, wq, wc, rq, rc, half)',
         NEW CONSTANT e, AllGiven(fin, e)',
         NEW CONSTANT i, NEW CONSTANT b, NEW CONSTANT rest, ReadWaits(rq, rc, i, b, rest)'
  PROVE  BurstInv'
<1>1. Phase(fin, wc, rq, rc)'
  BY Zenon DEF Phase
<1> QED  BY <1>1, Zenon DEF BurstInv

LEMMA ListOfWords ==
  ASSUME NEW n \in Nat, NEW f \in [1 .. n -> Words]
  PROVE  f \in Seq(Words) /\ Len(f) = n
OBVIOUS

LEMMA ReadReqKeeps ==
  ASSUME BurstInv, BurstsFit, WritesFill, NEW CONSTANT i \in Readers, NEW CONSTANT b \in ReadBursts,
         readReq(i, b)
  PROVE  BurstInv'
<1>1. Free
  BY DEF readReq
<1>2. /\ Typed /\ BurstTypes /\ QuietSide
      /\ \E fin, wq, wc, half, e : Behind(fin, wq, wc, <<>>, <<>>, half) /\ AllGiven(fin, e)
  BY <1>1, FreeIdle
<1>3. PICK fin, wq, wc, half, e : Behind(fin, wq, wc, <<>>, <<>>, half) /\ AllGiven(fin, e)
  BY <1>2
<1>4. b.addr \in Nat /\ b.words \in Nat \ {0}
  BY BurstIs
<1> PICK rest : rest = [k \in 1 .. b.words |->
                          <<latest[b.addr + 2 * k - 2], latest[b.addr + 2 * k - 1]>>]
  OBVIOUS
<1> PICK l : l = latest
  OBVIOUS
<1>5. l \in Mem /\ readerQs \in [Readers -> Seq(Words)] /\ expected = readerQs
  BY <1>2 DEF BurstTypes, QuietSide
<1>6. Counted(Words, rest, 0, b.words, WordsAt(l, b))
  <2>1. ASSUME NEW k \in 1 .. b.words
        PROVE  rest[k] = WordsAt(l, b)[0 + (k - 1)] /\ rest[k] \in Words
    <3> PICK z : z = k - 1
      OBVIOUS
    <3>1. /\ z \in Nat /\ z < b.words /\ 0 + (k - 1) = z
          /\ b.addr + 2 * k - 2 = b.addr + 2 * z /\ b.addr + 2 * k - 1 = b.addr + 2 * z + 1
      BY <1>4
    <3>2. rest[k] = <<l[b.addr + 2 * k - 2], l[b.addr + 2 * k - 1]>>
      OBVIOUS
    <3>3. /\ WordsAt(l, b)[z] = <<l[b.addr + 2 * z], l[b.addr + 2 * z + 1]>>
          /\ WordsAt(l, b)[z] \in Words
      BY <1>5, <3>1, WordIs
    <3> QED  BY <3>1, <3>2, <3>3, Zenon
  <2>2. rest \in Seq(Words) /\ Len(rest) = b.words
    <3>1. rest \in [1 .. b.words -> Words] /\ b.words \in Nat
      BY <1>4, <2>1
    <3> QED  BY <3>1, ListOfWords, Zenon
  <2>3. Len(rest) = b.words - 0
    BY <1>4, <2>2
  <2>4. \A k \in 1 .. Len(rest) : rest[k] = WordsAt(l, b)[0 + (k - 1)]
    BY <2>1, <2>2, Zenon
  <2> QED  BY <2>2, <2>3, <2>4, Zenon DEF Counted
<1>7. rest \in Seq(Words)
  BY <1>6 DEF Counted
<1>8. /\ mReader' = [mReader EXCEPT ![i] = Append(@, Asking(i, b))]
      /\ curCnt' = b.words /\ expected' = [expected EXCEPT ![i] = @ \o rest]
      /\ UNCHANGED <<readCur, curReadCnt, readerdQ, rightSft, readOffsetQ, respSyncQ, resps, readerQ,
                     readerQs>>
      /\ latest' = l
  BY DEF readReq, Asking, cntVars, relayVars, burstVars, rowVars
<1>9. Behind(fin, wq, wc, <<>>, <<>>, half)'
  <2>1. UNCHANGED behindVars
    BY DEF readReq, rowVars, behindVars
  <2> QED  BY <1>3, <2>1, BehindKept
<1>10. AllGiven(fin, e)'
  <2>1. UNCHANGED writeSideVars
    BY DEF readReq, cntVars, relayVars, burstVars, writeSideVars
  <2> QED  BY <1>3, <2>1, AllGivenKept
<1>11. AskedToRead(i, b)'
  <2>1. mReader = [r \in Readers |-> <<>>] /\ readerQ = <<>>
    BY <1>2 DEF QuietSide, NoReads
  <2>2. mReader[i] = <<>> /\ Append(<<>>, Asking(i, b)) = <<Asking(i, b)>>
    BY <2>1
  <2>3. mReader' = [mReader EXCEPT ![i] = <<Asking(i, b)>>]
    BY <1>8, <2>2, Zenon
  <2>4. mReader' = [r \in Readers |-> IF r = i THEN <<Asking(i, b)>> ELSE <<>>]
    BY <2>1, <2>3
  <2> QED  BY <1>8, <2>1, <2>4 DEF AskedToRead
<1>12. PipeIdle'
  BY <1>2, <1>8 DEF QuietSide, PipeIdle
<1>13. Promised(i, b, rest, 0)'
  <2>1. Expects(i, rest)'
    BY <1>5, <1>8, Zenon DEF Expects
  <2>2. curCnt' = b.words - 0
    BY <1>4, <1>8
  <2>3. Counted(Words, rest, 0, b.words, WordsAt(latest', b))
    BY <1>6, <1>8, Zenon
  <2> QED  BY <2>1, <2>2, <2>3 DEF Promised
<1>14. ReadWaits(<<>>, <<>>, i, b, rest)'
  BY <1>11, <1>12, <1>13 DEF ReadWaits
<1>15. Typed'
  <2>1. UNCHANGED <<writerM, writerdQ, readerQs, owed, written, latest, readCur, writeCur,
                    curReadCnt, curWriteCnt, nextRow>>
    BY DEF readReq, cntVars, relayVars, burstVars, rowVars
  <2>2. expected' \in [Readers -> Seq(Words)]
    <3>1. readerQs[i] \o rest \in Seq(Words)
      BY <1>5, <1>7, JoinWordLen, Zenon
    <3>2. expected' = [readerQs EXCEPT ![i] = readerQs[i] \o rest]
      BY <1>5, <1>8, Zenon
    <3> QED  BY <1>5, <3>1, <3>2
  <2> QED  BY <1>2, <2>1, <2>2 DEF Typed, BurstTypes
<1> QED  BY <1>9, <1>10, <1>14, <1>15, WaitsAgain

LEMMA RelayDramReadKeeps ==
  ASSUME BurstInv, NEW CONSTANT r \in Readers, relayDramRead(r)
  PROVE  BurstInv'
<1>1. Typed
  BY Zenon DEF BurstInv
<1>2. PICK fin, wq, wc, rq, rc, half : Behind(fin, wq, wc, rq, rc, half) /\ Phase(fin, wc, rq, rc)
  BY Zenon DEF BurstInv
<1>3. /\ mReader[r] # <<>> /\ readerQ' = Append(readerQ, Head(mReader[r]))
      /\ mReader' = [mReader EXCEPT ![r] = Tail(@)]
      /\ UNCHANGED <<readCur, curReadCnt, readerdQ, rightSft, readOffsetQ, respSyncQ, resps,
                     readerQs, expected, curCnt, latest>>
  BY DEF relayDramRead, cntVars, burstVars, rowVars, ghostVars
<1>4. ~NoReads
  BY <1>3 DEF NoReads
<1>5. PICK e, i, b, rest : AllGiven(fin, e) /\ ReadWaits(rq, rc, i, b, rest)
  <2>1. ASSUME NEW b, NEW i, NEW rest, NEW d, NEW p, NEW c, NEW t0, NEW s, NEW t1, NEW t2, NEW x, NEW y,
               Reading(fin, wc, rq, rc, i, b, rest, d, p, c, t0, s, t1, t2, x, y)
        PROVE  FALSE
    BY <1>4, <2>1 DEF Reading
  <2> QED  BY <1>2, <1>4, <2>1, ZenonT(60) DEF Phase
<1>6. i \in Readers /\ b \in ReadBursts /\ AskedToRead(i, b) /\ PipeIdle /\ Promised(i, b, rest, 0)
      /\ rq = <<>> /\ rc = <<>>
  BY <1>5 DEF ReadWaits
<1> PICK k : k = Asking(i, b)
  OBVIOUS
<1>7. readerQ = <<>> /\ mReader = [l \in Readers |-> IF l = i THEN <<k>> ELSE <<>>]
  BY <1>3, <1>6 DEF AskedToRead
<1>8. r = i /\ mReader[i] = <<k>>
  BY <1>3, <1>6, <1>7
<1>9. readerQ' = <<k>>
  BY <1>3, <1>7, <1>8, OneIn, Zenon
<1>10. mReader' = [mReader EXCEPT ![i] = <<>>]
  BY <1>3, <1>8, OneIn, Zenon
<1>11. mReader' = [l \in Readers |-> <<>>]
  BY <1>6, <1>7, <1>10
<1>12. AskedToRead(i, b)'
  BY <1>9, <1>11 DEF AskedToRead
<1>13. PipeIdle' /\ Promised(i, b, rest, 0)'
  BY <1>3, <1>6 DEF PipeIdle, Promised, Expects
<1>14. ReadWaits(rq, rc, i, b, rest)'
  BY <1>6, <1>12, <1>13 DEF ReadWaits
<1>15. Behind(fin, wq, wc, rq, rc, half)'
  <2>1. UNCHANGED behindVars
    BY DEF relayDramRead, rowVars, behindVars
  <2> QED  BY <1>2, <2>1, BehindKept
<1>16. AllGiven(fin, e)'
  <2>1. UNCHANGED writeSideVars
    BY DEF relayDramRead, cntVars, burstVars, ghostVars, writeSideVars
  <2> QED  BY <1>5, <2>1, AllGivenKept
<1>17. Typed'
  <2>1. UNCHANGED typedVars
    BY DEF relayDramRead, cntVars, burstVars, rowVars, ghostVars, typedVars
  <2> QED  BY <1>1, <2>1, TypedKept
<1> QED  BY <1>14, <1>15, <1>16, <1>17, WaitsAgain

-----------------------------------------------------------------------------
(* A reader takes a word, in any phase.                                    *)
LEMMA ReadStep ==
  ASSUME BurstTypes, NEW CONSTANT i \in Readers, read(i), NEW CONSTANT j \in Readers,
         NEW CONSTANT rest \in Seq(Words), Expects(j, rest)
  PROVE  Expects(j, rest)' /\ expected' \in [Readers -> Seq(Words)]
<1>1. /\ readerQs[i] # <<>> /\ readerQs' = [readerQs EXCEPT ![i] = Tail(@)]
      /\ expected' = [expected EXCEPT ![i] = Tail(@)]
  BY DEF read
<1>2. readerQs \in [Readers -> Seq(Words)] /\ expected = [readerQs EXCEPT ![j] = readerQs[j] \o rest]
  BY DEF BurstTypes, Expects
<1>3. readerQs[i] \in Seq(Words) /\ readerQs[j] \in Seq(Words)
  BY <1>2
<1> PICK t : t = Tail(readerQs[i])
  OBVIOUS
<1>4. t \in Seq(Words) /\ Tail(readerQs[i] \o rest) = t \o rest /\ t \o rest \in Seq(Words)
      /\ readerQs[j] \o rest \in Seq(Words)
  <2>1. Tail(readerQs[i]) \in Seq(Words) /\ Tail(readerQs[i] \o rest) = Tail(readerQs[i]) \o rest
    BY <1>1, <1>3, JoinWordTail, Zenon
  <2>2. t \in Seq(Words) /\ Tail(readerQs[i] \o rest) = t \o rest
    BY <2>1, Zenon
  <2> QED  BY <1>3, <2>2, JoinWordLen, Zenon
<1>5. readerQs' = [readerQs EXCEPT ![i] = t]
  BY <1>1, Zenon
<1> PICK u : u = t \o rest
  OBVIOUS
<1> PICK v : v = readerQs[j] \o rest
  OBVIOUS
<1>6. u \in Seq(Words) /\ v \in Seq(Words)
  BY <1>4, Zenon
<1>7. CASE i = j
  <2>1. expected[i] = readerQs[i] \o rest
    BY <1>2, <1>7
  <2>2. expected' = [expected EXCEPT ![i] = u]
    BY <1>1, <1>4, <2>1, Zenon
  <2>3. expected = [readerQs EXCEPT ![i] = v]
    BY <1>2, <1>7, Zenon
  <2>4. expected' = [readerQs EXCEPT ![i] = u]
    BY ONLY <1>2, <2>2, <2>3
  <2>5. readerQs'[j] = t
    BY <1>2, <1>5, <1>7
  <2>6. expected' = [readerQs' EXCEPT ![i] = u]
    BY ONLY <1>2, <1>5, <2>4
  <2>7. expected' = [readerQs' EXCEPT ![j] = readerQs'[j] \o rest]
    BY <1>7, <2>5, <2>6, Zenon
  <2> QED  BY <1>2, <1>6, <2>4, <2>7 DEF Expects
<1>8. CASE i # j
  <2>1. expected[i] = readerQs[i]
    BY <1>2, <1>8
  <2>2. expected' = [expected EXCEPT ![i] = t]
    BY <1>1, <2>1, Zenon
  <2>3. expected = [readerQs EXCEPT ![j] = v]
    BY <1>2, Zenon
  <2>4. expected' = [readerQs' EXCEPT ![j] = v] /\ expected' \in [Readers -> Seq(Words)]
    BY ONLY <1>2, <1>4, <1>5, <1>6, <1>8, <2>2, <2>3
  <2>5. readerQs'[j] = readerQs[j]
    BY <1>2, <1>5, <1>8
  <2>6. expected' = [readerQs' EXCEPT ![j] = readerQs'[j] \o rest]
    BY <2>4, <2>5, Zenon
  <2> QED  BY <2>4, <2>6 DEF Expects
<1> QED  BY <1>7, <1>8

LEMMA ReadKeeps ==
  ASSUME BurstInv, NEW CONSTANT r \in Readers, read(r)
  PROVE  BurstInv'
<1>1. Typed /\ BurstTypes /\ readerQs \in [Readers -> Seq(Words)]
  BY Zenon DEF BurstInv, Typed, BurstTypes
<1>2. PICK fin, wq, wc, rq, rc, half : Behind(fin, wq, wc, rq, rc, half) /\ Phase(fin, wc, rq, rc)
  BY Zenon DEF BurstInv
<1>3. Behind(fin, wq, wc, rq, rc, half)'
  <2>1. UNCHANGED behindVars
    BY DEF read, rowVars, behindVars
  <2> QED  BY <1>2, <2>1, BehindKept
<1>4. UNCHANGED writeSideVars
  BY DEF read, clientVars, cntVars, burstVars, writeSideVars
<1>5. UNCHANGED <<curCnt, readerQ, mReader, readCur, curReadCnt, curClientIdx, readerdQ,
                  rightSft, readOffsetQ, respSyncQ, resps, readCache, nextRow, latest>>
  BY DEF read, clientVars, cntVars, burstVars, rowVars
<1>6. expected' \in [Readers -> Seq(Words)] => Typed'
  <2>1. UNCHANGED <<writerM, writerdQ, owed, written, latest, readCur, writeCur,
                    curReadCnt, curWriteCnt, nextRow>>
    BY DEF read, clientVars, cntVars, burstVars, rowVars
  <2>2. readerQs' \in [Readers -> Seq(Words)]
    <3>1. readerQs[r] # <<>> /\ readerQs' = [readerQs EXCEPT ![r] = Tail(@)]
      BY DEF read
    <3>2. Tail(readerQs[r]) \in Seq(Words)
      BY <1>1, <3>1
    <3> QED  BY <1>1, <3>1, <3>2
  <2> QED  BY <1>1, <2>1, <2>2 DEF Typed, BurstTypes
<1>7. CASE /\ NoReads /\ PipeIdle /\ rq = <<>> /\ rc = <<>> /\ expected = readerQs
           /\ \E c \in Nat : c = curCnt /\ WriteSide(fin, c)
  <2>1. PICK c \in Nat : c = curCnt /\ WriteSide(fin, c)
    BY <1>7
  <2>2. WriteSide(fin, c)' /\ c = curCnt'
    BY <1>4, <1>5, <2>1, WriteSideKept
  <2>3. expected' = readerQs'
    BY <1>7 DEF read
  <2>4. QuietSide'
    BY <1>5, <1>7, <2>3 DEF QuietSide, NoReads, PipeIdle
  <2>5. expected' \in [Readers -> Seq(Words)]
    <3>1. readerQs[r] # <<>> /\ readerQs' = [readerQs EXCEPT ![r] = Tail(@)]
      BY DEF read
    <3>2. Tail(readerQs[r]) \in Seq(Words)
      BY <1>1, <3>1
    <3> QED  BY <1>1, <2>3, <3>1, <3>2
  <2>6. Behind(fin, wq, wc, <<>>, <<>>, half)'
    BY <1>3, <1>7, Zenon
  <2> QED  BY <1>6, <2>2, <2>4, <2>5, <2>6, QuietAgain
<1>8. CASE \E e, i, b, rest : AllGiven(fin, e) /\ ReadWaits(rq, rc, i, b, rest)
  <2>1. PICK e, i, b, rest : AllGiven(fin, e) /\ ReadWaits(rq, rc, i, b, rest)
    BY <1>8
  <2>2. AllGiven(fin, e)'
    BY <1>4, <2>1, AllGivenKept
  <2>3. /\ i \in Readers /\ b \in ReadBursts /\ AskedToRead(i, b)
        /\ PipeIdle /\ rq = <<>> /\ rc = <<>> /\ Promised(i, b, rest, 0)
    BY <2>1 DEF ReadWaits
  <2>4. Expects(i, rest) /\ rest \in Seq(Words)
    BY <2>3 DEF Promised, Counted
  <2>5. Expects(i, rest)' /\ expected' \in [Readers -> Seq(Words)]
    BY <1>1, <2>3, <2>4, ReadStep
  <2>6. AskedToRead(i, b)' /\ PipeIdle' /\ Promised(i, b, rest, 0)'
    BY <1>5, <2>3, <2>5 DEF AskedToRead, PipeIdle, Promised
  <2>7. ReadWaits(rq, rc, i, b, rest)'
    BY <2>3, <2>6 DEF ReadWaits
  <2> QED  BY <1>3, <1>6, <2>2, <2>5, <2>7, WaitsAgain
<1>9. CASE /\ curWriteCnt = 0
           /\ \E e, i, b, rest, d, p, c, t0, s, t1, t2, x, y :
                AllGiven(fin, e) /\ Reading(fin, wc, rq, rc, i, b, rest, d, p, c, t0, s, t1, t2, x, y)
  <2>1. PICK e, i, b, rest, d, p, c, t0, s, t1, t2, x, y :
          AllGiven(fin, e) /\ Reading(fin, wc, rq, rc, i, b, rest, d, p, c, t0, s, t1, t2, x, y)
    BY <1>9
  <2>2. AllGiven(fin, e)' /\ curWriteCnt' = 0
    BY <1>4, <1>9, <2>1, AllGivenKept DEF writeSideVars
  <2>3. /\ i \in Readers /\ b \in ReadBursts /\ NoReads
        /\ d \in Nat /\ p \in Nat /\ c \in Nat /\ t0 \in Nat /\ s \in Nat /\ t1 \in Nat /\ t2 \in Nat
        /\ x \in Nat /\ y \in Nat
        /\ Promised(i, b, rest, d) /\ Passing(i, b, d, p) /\ Shifted(b, p, c) /\ AskingFor(b, y)
        /\ Noted(b, t0, t2) /\ Synced(fin, b, t0, s) /\ Fetched(fin, b, s, t1)
        /\ Counted(ReadRows, rq, t1, t2, RowReqs(b)) /\ Counted(ReadCmds, rc, x, y, CmdsOf(b))
        /\ Aligned(fin, b, c, t0) /\ Lined(wc, b, t2, x)
    BY <2>1 DEF Reading
  <2>4. Expects(i, rest) /\ rest \in Seq(Words)
    BY <2>3 DEF Promised, Counted
  <2>5. Expects(i, rest)' /\ expected' \in [Readers -> Seq(Words)]
    BY <1>1, <2>3, <2>4, ReadStep
  <2>6. NoReads' /\ Promised(i, b, rest, d)' /\ Passing(i, b, d, p)'
    BY <1>5, <2>3, <2>5 DEF NoReads, Promised, Passing
  <2>7. Shifted(b, p, c)' /\ AskingFor(b, y)' /\ Noted(b, t0, t2)' /\ Synced(fin, b, t0, s)'
    BY <1>5, <2>3 DEF Shifted, AskingFor, Noted, Synced
  <2>8. Fetched(fin, b, s, t1)' /\ Aligned(fin, b, c, t0)' /\ Lined(wc, b, t2, x)'
    BY <1>5, <2>3 DEF Fetched, Aligned, Lined
  <2>9. Reading(fin, wc, rq, rc, i, b, rest, d, p, c, t0, s, t1, t2, x, y)'
    BY <2>3, <2>6, <2>7, <2>8 DEF Reading
  <2>10. Phase(fin, wc, rq, rc)'
    BY <2>2, <2>9, Zenon DEF Phase
  <2> QED  BY <1>3, <1>6, <2>5, <2>10, Zenon DEF BurstInv
<1> QED  BY <1>2, <1>7, <1>8, <1>9, Zenon DEF Phase

-----------------------------------------------------------------------------
(* The steps of a read burst.                                              *)
LEMMA FreshWords ==
  ASSUME BurstTypes, NEW fin, NEW e, AllGiven(fin, e), curWriteCnt = 0
  PROVE  latest = Logical(fin) /\ latest \in Mem
<1>1. writerdQ \in Seq(Words) /\ latest \in Mem
  BY DEF BurstTypes
<1>2. Len(writerdQ) = 0 /\ Giving(writerdQ, writeCur.addr, Logical(fin), e, latest)
  BY DEF AllGiven
<1>3. writerdQ = <<>>
  BY <1>1, <1>2
<1> PICK l : l = latest
  OBVIOUS
<1>4. Logical(fin) = l
  BY <1>1, <1>2, <1>3, GivingEnds
<1> QED  BY <1>1, <1>4

LEMMA ReadingNow ==
  ASSUME BurstInv,
         \/ ~PipeIdle
         \/ cmdQ # <<>> /\ ~Head(cmdQ).write
         \/ reqs # <<>> /\ Head(reqs).put = NoData
  PROVE  /\ Typed /\ BurstTypes /\ curWriteCnt = 0
         /\ \E fin, wq, wc, rq, rc, half : Behind(fin, wq, wc, rq, rc, half) /\
              \E e, i, b, rest, d, p, c, t0, s, t1, t2, x, y :
                AllGiven(fin, e) /\ Reading(fin, wc, rq, rc, i, b, rest, d, p, c, t0, s, t1, t2, x, y)
<1>1. Typed /\ BurstTypes
  BY Zenon DEF BurstInv, Typed
<1>2. PICK fin, wq, wc, rq, rc, half : Behind(fin, wq, wc, rq, rc, half) /\ Phase(fin, wc, rq, rc)
  BY Zenon DEF BurstInv
<1>3. ~(PipeIdle /\ rq = <<>> /\ rc = <<>>)
  <2>1. cmdQ # <<>> /\ ~Head(cmdQ).write => rc # <<>>
    BY <1>2, WhichCmd
  <2>2. reqs # <<>> /\ Head(reqs).put = NoData => rq # <<>>
    BY <1>2, WhichReq
  <2> QED  BY <2>1, <2>2
<1>4. ASSUME NEW i, NEW b, NEW rest, ReadWaits(rq, rc, i, b, rest) PROVE FALSE
  BY <1>3, <1>4 DEF ReadWaits
<1>5. /\ curWriteCnt = 0
      /\ \E e, i, b, rest, d, p, c, t0, s, t1, t2, x, y :
           AllGiven(fin, e) /\ Reading(fin, wc, rq, rc, i, b, rest, d, p, c, t0, s, t1, t2, x, y)
  BY <1>2, <1>3, <1>4, Zenon DEF Phase
<1> QED  BY <1>1, <1>2, <1>5, Zenon

LEMMA ReadingAgain ==
  ASSUME Typed', curWriteCnt' = 0, NEW CONSTANT fin, NEW CONSTANT wq, NEW CONSTANT wc,
         NEW CONSTANT rq, NEW CONSTANT rc, NEW CONSTANT half, Behind(fin, wq, wc, rq, rc, half)',
         NEW CONSTANT e, AllGiven(fin, e)',
         NEW CONSTANT i, NEW CONSTANT b, NEW CONSTANT rest, NEW CONSTANT d, NEW CONSTANT p,
         NEW CONSTANT c, NEW CONSTANT t0, NEW CONSTANT s, NEW CONSTANT t1, NEW CONSTANT t2,
         NEW CONSTANT x, NEW CONSTANT y,
         Reading(fin, wc, rq, rc, i, b, rest, d, p, c, t0, s, t1, t2, x, y)'
  PROVE  BurstInv'
<1>1. Phase(fin, wc, rq, rc)'
  BY Zenon DEF Phase
<1> QED  BY <1>1, Zenon DEF BurstInv

LEMMA StartDramReadKeeps ==
  ASSUME BurstInv, startDramRead
  PROVE  BurstInv'
<1>1. Typed /\ BurstTypes
  BY Zenon DEF BurstInv, Typed
<1>2. PICK fin, wq, wc, rq, rc, half : Behind(fin, wq, wc, rq, rc, half) /\ Phase(fin, wc, rq, rc)
  BY Zenon DEF BurstInv
<1>3. /\ curWriteCnt = 0 /\ readerQ # <<>> /\ readerQ' = Tail(readerQ)
      /\ readCur' = [addr |-> Head(readerQ).addr, left |-> Head(readerQ).words]
      /\ curReadCnt' = Head(readerQ).words /\ curClientIdx' = Head(readerQ).client
      /\ UNCHANGED <<mReader, curCnt, readerdQ, rightSft, readOffsetQ, respSyncQ, resps, readCache,
                     nextRow, readerQs, expected, latest, curWriteCnt>>
  BY DEF startDramRead, NoBurst, clientVars, rowVars, ghostVars
<1>4. ~NoReads
  BY <1>3 DEF NoReads
<1>5. PICK e, i, b, rest : AllGiven(fin, e) /\ ReadWaits(rq, rc, i, b, rest)
  <2>1. ASSUME NEW b, NEW i, NEW rest, NEW d, NEW p, NEW c, NEW t0, NEW s, NEW t1, NEW t2, NEW x, NEW y,
               Reading(fin, wc, rq, rc, i, b, rest, d, p, c, t0, s, t1, t2, x, y)
        PROVE  FALSE
    BY <1>4, <2>1 DEF Reading
  <2> QED  BY <1>2, <1>4, <2>1, ZenonT(60) DEF Phase
<1>6. i \in Readers /\ b \in ReadBursts /\ AskedToRead(i, b) /\ PipeIdle /\ Promised(i, b, rest, 0)
      /\ rq = <<>> /\ rc = <<>>
  BY <1>5 DEF ReadWaits
<1>7. b.addr \in Nat /\ b.words \in Nat \ {0} /\ b.addr % 2 \in {0, 1}
  <2>1. b.addr \in Nat /\ b.words \in Nat \ {0}
    BY <1>6, BurstIs
  <2> QED  BY <2>1
<1> PICK k : k = Asking(i, b)
  OBVIOUS
<1>8. readerQ = <<k>> /\ mReader = [l \in Readers |-> <<>>] /\ k.addr = b.addr /\ k.words = b.words
      /\ k.client = i
  BY <1>3, <1>6 DEF AskedToRead, Asking
<1>9. Head(readerQ) = k /\ readerQ' = <<>>
  BY <1>3, <1>8, OneIn, Zenon
<1>10. readCur' = [addr |-> b.addr, left |-> b.words] /\ curReadCnt' = b.words /\ curClientIdx' = i
  BY <1>3, <1>8, <1>9
<1>11. Behind(fin, wq, wc, rq, rc, half)' /\ ~(nextRow' /\ wc = <<>>)
  <2>1. UNCHANGED behindVars
    BY DEF startDramRead, rowVars, behindVars
  <2>2. cmdQ = wc \o rc /\ (nextRow => cmdQ # <<>>)
    BY <1>2 DEF Behind
  <2>3. ~(nextRow /\ wc = <<>>)
    BY <1>6, <2>2
  <2> QED  BY <1>2, <1>3, <2>1, <2>3, BehindKept
<1>12. AllGiven(fin, e)'
  <2>1. UNCHANGED writeSideVars
    BY DEF startDramRead, clientVars, ghostVars, writeSideVars
  <2> QED  BY <1>5, <2>1, AllGivenKept
<1>13. NoReads' /\ Promised(i, b, rest, 0)'
  BY <1>3, <1>6, <1>8, <1>9 DEF NoReads, Promised, Expects
<1>14. /\ readerdQ' = <<>> /\ rightSft' = <<>> /\ readOffsetQ' = <<>> /\ respSyncQ' = <<>> /\ resps' = <<>>
  BY <1>3, <1>6 DEF PipeIdle
<1>15. Passing(i, b, 0, 0)' /\ AskingFor(b, 0)'
  <2>1. Counted(Sent, readerdQ', 0, 0, SentTo(i, latest', b))
    BY <1>14, CountedNone
  <2>2. curReadCnt' = b.words - 0 /\ readCur'.left = b.words - 0 /\ readCur'.addr = b.addr + 2 * 0
    BY <1>7, <1>10
  <2> QED  BY <1>10, <2>1, <2>2 DEF Passing, AskingFor
<1>16. Shifted(b, 0, 0)' /\ Noted(b, 0, 0)' /\ Synced(fin, b, 0, 0)' /\ Fetched(fin, b, 0, 0)'
  BY <1>14, CountedNone DEF Shifted, Noted, Synced, Fetched
<1>17. Counted(ReadRows, rq, 0, 0, RowReqs(b)) /\ Counted(ReadCmds, rc, 0, 0, CmdsOf(b))
  BY <1>6, CountedNone
<1>18. Aligned(fin, b, 0, 0)' /\ Lined(wc, b, 0, 0)'
  BY <1>11 DEF Aligned, Lined
<1>19. Reading(fin, wc, rq, rc, i, b, rest, 0, 0, 0, 0, 0, 0, 0, 0, 0)'
  BY <1>6, <1>13, <1>15, <1>16, <1>17, <1>18 DEF Reading
<1>20. Typed'
  <2>1. UNCHANGED <<writerM, writerdQ, readerQs, expected, owed, written, latest, writeCur,
                    curWriteCnt, nextRow>>
    BY DEF startDramRead, clientVars, rowVars, ghostVars
  <2>2. readCur' \in Part /\ curReadCnt' \in Nat
    BY <1>7, <1>10 DEF Part
  <2> QED  BY <1>1, <2>1, <2>2 DEF Typed, BurstTypes
<1>21. curWriteCnt' = 0
  BY <1>3
<1> QED  BY <1>11, <1>12, <1>19, <1>20, <1>21, ReadingAgain

LEMMA AppendCmd ==
  ASSUME NEW p \in Seq(WriteCmds), NEW q \in Seq(ReadCmds), NEW e \in ReadCmds
  PROVE  Append(p \o q, e) = p \o Append(q, e) /\ Append(q, e) \in Seq(ReadCmds) /\ Append(q, e) # <<>>
OBVIOUS

(* A word goes from the splitter to its reader.                            *)
LEMMA RelayReadClientKeeps ==
  ASSUME BurstInv, BurstsFit, relayReadClient
  PROVE  BurstInv'
<1>1. /\ Typed /\ BurstTypes /\ curWriteCnt = 0
      /\ \E fin, wq, wc, rq, rc, half : Behind(fin, wq, wc, rq, rc, half) /\
           \E e, i, b, rest, d, p, c, t0, s, t1, t2, x, y :
             AllGiven(fin, e) /\ Reading(fin, wc, rq, rc, i, b, rest, d, p, c, t0, s, t1, t2, x, y)
  <2>1. ~PipeIdle
    BY DEF relayReadClient, PipeIdle
  <2> QED  BY <2>1, ReadingNow
<1>2. PICK fin, wq, wc, rq, rc, half : Behind(fin, wq, wc, rq, rc, half) /\
           \E e, i, b, rest, d, p, c, t0, s, t1, t2, x, y :
             AllGiven(fin, e) /\ Reading(fin, wc, rq, rc, i, b, rest, d, p, c, t0, s, t1, t2, x, y)
  BY <1>1
<1>3. PICK e, i, b, rest, d, p, c, t0, s, t1, t2, x, y :
        AllGiven(fin, e) /\ Reading(fin, wc, rq, rc, i, b, rest, d, p, c, t0, s, t1, t2, x, y)
  BY <1>2
<1>4. /\ i \in Readers /\ b \in ReadBursts /\ NoReads
      /\ d \in Nat /\ p \in Nat /\ c \in Nat /\ t0 \in Nat /\ s \in Nat /\ t1 \in Nat /\ t2 \in Nat
      /\ x \in Nat /\ y \in Nat
      /\ Promised(i, b, rest, d) /\ Passing(i, b, d, p) /\ Shifted(b, p, c) /\ AskingFor(b, y)
      /\ Noted(b, t0, t2) /\ Synced(fin, b, t0, s) /\ Fetched(fin, b, s, t1)
      /\ Counted(ReadRows, rq, t1, t2, RowReqs(b)) /\ Counted(ReadCmds, rc, x, y, CmdsOf(b))
      /\ Aligned(fin, b, c, t0) /\ Lined(wc, b, t2, x)
  BY <1>3 DEF Reading
<1>5. /\ b.addr \in Nat /\ b.words \in Nat \ {0} /\ b.addr % 2 \in {0, 1}
      /\ d <= p /\ p <= c /\ t0 <= s /\ s <= t1 /\ t1 <= t2 /\ x <= y /\ y <= b.words
      /\ p <= b.words /\ (nextRow /\ wc = <<>> => x < y)
      /\ b.addr % 2 = 1 => t2 <= 2 * b.words /\ c = t0 \div 2
      /\ b.addr % 2 = 0 => t2 <= b.words /\ c = t0
  BY <1>1, <1>2, <1>3, ReadingOrder
<1>6. /\ readerdQ # <<>> /\ readerdQ' = Tail(readerdQ)
      /\ readerQs' = [readerQs EXCEPT ![Head(readerdQ).client] = Append(@, Head(readerdQ).data)]
      /\ curCnt' = curCnt - 1
      /\ UNCHANGED <<readerQ, mReader, readCur, curReadCnt, curClientIdx, rightSft, readOffsetQ,
                     respSyncQ, resps, readCache, nextRow, expected, latest, curWriteCnt>>
  BY DEF relayReadClient, clientVars, cntVars, burstVars, rowVars, ghostVars
<1> PICK l : l = latest
  OBVIOUS
<1> PICK z : z = d + 1
  OBVIOUS
<1>7. /\ Expects(i, rest) /\ Counted(Words, rest, d, b.words, WordsAt(l, b)) /\ curCnt = b.words - d
      /\ Counted(Sent, readerdQ, d, p, SentTo(i, l, b)) /\ curReadCnt = b.words - p /\ curClientIdx = i
  BY <1>4, Zenon DEF Promised, Passing
<1>8. /\ Head(readerdQ) = SentTo(i, l, b)[d] /\ d < p
      /\ Counted(Sent, Tail(readerdQ), d + 1, p, SentTo(i, l, b))
  <2>1. d \in Nat /\ p \in Nat
    BY <1>4
  <2> PICK F : F = SentTo(i, l, b)
    OBVIOUS
  <2> PICK q : q = readerdQ
    OBVIOUS
  <2>2. Counted(Sent, q, d, p, F) /\ q # <<>> /\ q \in Seq(Sent)
    BY <1>6, <1>7, Zenon DEF Counted
  <2>3. Head(q) = F[d] /\ d < p /\ Counted(Sent, Tail(q), d + 1, p, F)
    BY <2>1, <2>2, CountedFirst
  <2> QED  BY <2>3, Zenon
<1>9. z \in Nat /\ z = d + 1 /\ d < b.words /\ d # b.words
  BY <1>4, <1>5, <1>8, SMTT(40)
<1>10. rest # <<>>
  <2>1. d \in Nat /\ b.words \in Nat
    BY <1>4, <1>5
  <2> QED  BY <1>7, <1>9, <2>1, CountedEnds, Zenon
<1>11. /\ Head(rest) = WordsAt(l, b)[d] /\ Head(rest) \in Words
       /\ Counted(Words, Tail(rest), d + 1, b.words, WordsAt(l, b)) /\ rest \in Seq(Words)
  <2>1. d \in Nat /\ b.words \in Nat
    BY <1>4, <1>5
  <2>2. Counted(Words, rest, d, b.words, WordsAt(l, b)) /\ rest # <<>>
    BY <1>7, <1>10
  <2>3. rest \in Seq(Words)
    BY <2>2, Zenon DEF Counted
  <2> QED  BY <2>1, <2>2, <2>3, CountedFirst
<1>12. Head(readerdQ).client = i /\ Head(readerdQ).data = Head(rest)
  <2>1. SentTo(i, l, b)[d] = [client |-> i, data |-> WordsAt(l, b)[d]]
    BY <1>4 DEF SentTo
  <2> QED  BY <1>8, <1>11, <2>1
<1> PICK w : w = Head(rest)
  OBVIOUS
<1> PICK more : more = Tail(rest)
  OBVIOUS
<1>13. readerQs \in [Readers -> Seq(Words)] /\ readerQs[i] \in Seq(Words) /\ w \in Words
  BY <1>1, <1>4, <1>11 DEF BurstTypes
<1>14. readerQs' = [readerQs EXCEPT ![i] = Append(readerQs[i], w)]
  BY <1>6, <1>12, Zenon
<1>15. readerQs' \in [Readers -> Seq(Words)]
  <2>1. Append(readerQs[i], w) \in Seq(Words)
    BY <1>13
  <2> QED  BY <1>13, <1>14, <2>1
<1>16. Expects(i, more)'
  <2>1. Append(readerQs[i], w) \o more = readerQs[i] \o rest
    <3>1. Append(readerQs[i], Head(rest)) \o Tail(rest) = readerQs[i] \o rest
      BY <1>10, <1>11, <1>13, JoinWordMoved, Zenon
    <3> QED  BY <3>1, Zenon
  <2>2. expected' = [readerQs EXCEPT ![i] = readerQs[i] \o rest]
    BY <1>6, <1>7, Zenon DEF Expects
  <2>3. readerQs'[i] = Append(readerQs[i], w)
    BY <1>4, <1>13, <1>14
  <2>4. readerQs'[i] \o more = readerQs[i] \o rest
    BY <2>1, <2>3, Zenon
  <2> PICK v : v = readerQs[i] \o rest
    OBVIOUS
  <2> PICK u : u = Append(readerQs[i], w)
    OBVIOUS
  <2>5. expected' = [readerQs EXCEPT ![i] = v] /\ readerQs' = [readerQs EXCEPT ![i] = u]
    BY <1>14, <2>2, Zenon
  <2>6. expected' = [readerQs' EXCEPT ![i] = v]
    BY ONLY <1>13, <2>5
  <2>7. expected' = [readerQs' EXCEPT ![i] = readerQs'[i] \o more]
    BY <2>4, <2>6, Zenon
  <2> QED  BY <2>7 DEF Expects
<1>17. Promised(i, b, more, z)'
  <2>1. curCnt' = b.words - z
    <3>1. /\ curCnt' = curCnt - 1 /\ curCnt = b.words - d /\ z = d + 1 /\ d \in Nat
          /\ b.words \in Nat \ {0}
      BY <1>4, <1>5, <1>6, <1>7, <1>9
    <3> QED  BY ONLY <3>1
  <2>2. Counted(Words, more, z, b.words, WordsAt(latest', b))
    BY <1>6, <1>11, Zenon
  <2> QED  BY <1>16, <2>1, <2>2 DEF Promised
<1>18. Passing(i, b, z, p)'
  <2>1. Counted(Sent, readerdQ', z, p, SentTo(i, latest', b))
    BY <1>6, <1>8, Zenon
  <2> QED  BY <1>6, <1>7, <2>1 DEF Passing
<1>19. NoReads' /\ Shifted(b, p, c)' /\ AskingFor(b, y)' /\ Noted(b, t0, t2)' /\ Synced(fin, b, t0, s)'
  BY <1>4, <1>6 DEF NoReads, Shifted, AskingFor, Noted, Synced
<1>20. Fetched(fin, b, s, t1)' /\ Aligned(fin, b, c, t0)' /\ Lined(wc, b, t2, x)'
  BY <1>4, <1>6 DEF Fetched, Aligned, Lined
<1>21. Reading(fin, wc, rq, rc, i, b, more, z, p, c, t0, s, t1, t2, x, y)'
  BY <1>4, <1>9, <1>17, <1>18, <1>19, <1>20 DEF Reading
<1>22. Behind(fin, wq, wc, rq, rc, half)'
  <2>1. UNCHANGED behindVars
    BY DEF relayReadClient, rowVars, behindVars
  <2> QED  BY <1>2, <2>1, BehindKept
<1>23. AllGiven(fin, e)'
  <2>1. UNCHANGED writeSideVars
    BY DEF relayReadClient, clientVars, cntVars, burstVars, ghostVars, writeSideVars
  <2> QED  BY <1>3, <2>1, AllGivenKept
<1>24. Typed' /\ curWriteCnt' = 0
  <2>1. UNCHANGED <<writerM, writerdQ, expected, owed, written, latest, readCur, writeCur,
                    curReadCnt, curWriteCnt, nextRow>>
    BY DEF relayReadClient, clientVars, cntVars, burstVars, rowVars, ghostVars
  <2> QED  BY <1>1, <1>15, <2>1 DEF Typed, BurstTypes
<1> QED  BY <1>21, <1>22, <1>23, <1>24, ReadingAgain

(* A word passes the burst controller.                                     *)
LEMMA RelayReadKeeps ==
  ASSUME BurstInv, BurstsFit, relayRead
  PROVE  BurstInv'
<1>1. /\ Typed /\ BurstTypes /\ curWriteCnt = 0
      /\ \E fin, wq, wc, rq, rc, half : Behind(fin, wq, wc, rq, rc, half) /\
           \E e, i, b, rest, d, p, c, t0, s, t1, t2, x, y :
             AllGiven(fin, e) /\ Reading(fin, wc, rq, rc, i, b, rest, d, p, c, t0, s, t1, t2, x, y)
  <2>1. ~PipeIdle
    BY DEF relayRead, PipeIdle
  <2> QED  BY <2>1, ReadingNow
<1>2. PICK fin, wq, wc, rq, rc, half : Behind(fin, wq, wc, rq, rc, half) /\
           \E e, i, b, rest, d, p, c, t0, s, t1, t2, x, y :
             AllGiven(fin, e) /\ Reading(fin, wc, rq, rc, i, b, rest, d, p, c, t0, s, t1, t2, x, y)
  BY <1>1
<1>3. PICK e, i, b, rest, d, p, c, t0, s, t1, t2, x, y :
        AllGiven(fin, e) /\ Reading(fin, wc, rq, rc, i, b, rest, d, p, c, t0, s, t1, t2, x, y)
  BY <1>2
<1>4. /\ i \in Readers /\ b \in ReadBursts /\ NoReads
      /\ d \in Nat /\ p \in Nat /\ c \in Nat /\ t0 \in Nat /\ s \in Nat /\ t1 \in Nat /\ t2 \in Nat
      /\ x \in Nat /\ y \in Nat
      /\ Promised(i, b, rest, d) /\ Passing(i, b, d, p) /\ Shifted(b, p, c) /\ AskingFor(b, y)
      /\ Noted(b, t0, t2) /\ Synced(fin, b, t0, s) /\ Fetched(fin, b, s, t1)
      /\ Counted(ReadRows, rq, t1, t2, RowReqs(b)) /\ Counted(ReadCmds, rc, x, y, CmdsOf(b))
      /\ Aligned(fin, b, c, t0) /\ Lined(wc, b, t2, x)
  BY <1>3 DEF Reading
<1>5. /\ b.addr \in Nat /\ b.words \in Nat \ {0} /\ b.addr % 2 \in {0, 1}
      /\ d <= p /\ p <= c /\ t0 <= s /\ s <= t1 /\ t1 <= t2 /\ x <= y /\ y <= b.words
      /\ p <= b.words /\ (nextRow /\ wc = <<>> => x < y)
      /\ b.addr % 2 = 1 => t2 <= 2 * b.words /\ c = t0 \div 2
      /\ b.addr % 2 = 0 => t2 <= b.words /\ c = t0
  BY <1>1, <1>2, <1>3, ReadingOrder
<1>6. /\ rightSft # <<>> /\ rightSft' = Tail(rightSft) /\ curReadCnt' = curReadCnt - 1
      /\ readerdQ' = Append(readerdQ, [client |-> curClientIdx, data |-> Head(rightSft)])
      /\ UNCHANGED <<readerQ, mReader, readCur, curCnt, readerQs, curClientIdx, readOffsetQ,
                     respSyncQ, resps, readCache, nextRow, expected, latest, curWriteCnt>>
  BY DEF relayRead, clientVars, burstVars, ghostVars
<1> PICK l : l = latest
  OBVIOUS
<1> PICK z : z = p + 1
  OBVIOUS
<1>7. /\ Counted(Sent, readerdQ, d, p, SentTo(i, l, b)) /\ curReadCnt = b.words - p /\ curClientIdx = i
      /\ Counted(Words, rightSft, p, c, WordsAt(l, b))
  BY <1>4, Zenon DEF Shifted, Passing
<1>8. /\ Head(rightSft) = WordsAt(l, b)[p] /\ p < c /\ Head(rightSft) \in Words
      /\ Counted(Words, Tail(rightSft), p + 1, c, WordsAt(l, b))
  <2>1. p \in Nat /\ c \in Nat
    BY <1>4
  <2> PICK F : F = WordsAt(l, b)
    OBVIOUS
  <2> PICK q : q = rightSft
    OBVIOUS
  <2>2. Counted(Words, q, p, c, F) /\ q # <<>> /\ q \in Seq(Words)
    BY <1>6, <1>7, Zenon DEF Counted
  <2>3. Head(q) = F[p] /\ p < c /\ Head(q) \in Words /\ Counted(Words, Tail(q), p + 1, c, F)
    BY <2>1, <2>2, CountedFirst
  <2> QED  BY <2>3, Zenon
<1> PICK k : k = [client |-> curClientIdx, data |-> Head(rightSft)]
  OBVIOUS
<1>9. k \in Sent /\ k = SentTo(i, l, b)[p]
  <2>1. SentTo(i, l, b)[p] = [client |-> i, data |-> WordsAt(l, b)[p]]
    BY <1>4 DEF SentTo
  <2> QED  BY <1>4, <1>7, <1>8, <2>1 DEF Sent
<1>10. Counted(Sent, Append(readerdQ, k), d, p + 1, SentTo(i, l, b))
  BY <1>4, <1>7, <1>9, CountedMore, Zenon
<1>11. z \in Nat /\ curReadCnt' = b.words - z /\ curReadCnt' \in Nat
  <2>1. c <= b.words
    BY <1>4, <1>5
  <2>2. /\ curReadCnt' = curReadCnt - 1 /\ curReadCnt = b.words - p /\ z = p + 1 /\ p \in Nat
        /\ b.words \in Nat \ {0} /\ p < c /\ c \in Nat
    BY <1>4, <1>5, <1>6, <1>7, <1>8
  <2> QED  BY ONLY <2>1, <2>2
<1>12. Passing(i, b, d, z)'
  <2>1. readerdQ' = Append(readerdQ, k)
    BY <1>6, Zenon
  <2>2. Counted(Sent, readerdQ', d, z, SentTo(i, latest', b))
    BY <1>6, <1>10, <2>1, Zenon
  <2> QED  BY <1>6, <1>7, <1>11, <2>2 DEF Passing
<1>13. Shifted(b, z, c)'
  BY <1>6, <1>8, Zenon DEF Shifted
<1>14. NoReads' /\ Promised(i, b, rest, d)' /\ AskingFor(b, y)' /\ Noted(b, t0, t2)'
       /\ Synced(fin, b, t0, s)'
  BY <1>4, <1>6 DEF NoReads, Promised, Expects, AskingFor, Noted, Synced
<1>15. Fetched(fin, b, s, t1)' /\ Aligned(fin, b, c, t0)' /\ Lined(wc, b, t2, x)'
  BY <1>4, <1>6 DEF Fetched, Aligned, Lined
<1>16. Reading(fin, wc, rq, rc, i, b, rest, d, z, c, t0, s, t1, t2, x, y)'
  BY <1>4, <1>11, <1>12, <1>13, <1>14, <1>15 DEF Reading
<1>17. Behind(fin, wq, wc, rq, rc, half)'
  <2>1. UNCHANGED behindVars
    BY DEF relayRead, behindVars
  <2> QED  BY <1>2, <2>1, BehindKept
<1>18. AllGiven(fin, e)'
  <2>1. UNCHANGED writeSideVars
    BY DEF relayRead, clientVars, burstVars, ghostVars, writeSideVars
  <2> QED  BY <1>3, <2>1, AllGivenKept
<1>19. Typed' /\ curWriteCnt' = 0
  <2>1. UNCHANGED <<writerM, writerdQ, expected, owed, written, latest, readCur, writeCur,
                    readerQs, curWriteCnt, nextRow>>
    BY DEF relayRead, clientVars, burstVars, ghostVars
  <2> QED  BY <1>1, <1>11, <2>1 DEF Typed, BurstTypes
<1> QED  BY <1>16, <1>17, <1>18, <1>19, ReadingAgain

(* The controller asks for a word.                                         *)
LEMMA DramReadReqKeeps ==
  ASSUME BurstInv, BurstsFit, dramReadReq
  PROVE  BurstInv'
<1>1. /\ Typed /\ BurstTypes /\ curWriteCnt = 0
      /\ \E fin, wq, wc, rq, rc, half : Behind(fin, wq, wc, rq, rc, half) /\
           \E e, i, b, rest, d, p, c, t0, s, t1, t2, x, y :
             AllGiven(fin, e) /\ Reading(fin, wc, rq, rc, i, b, rest, d, p, c, t0, s, t1, t2, x, y)
  <2>1. ~PipeIdle
    BY DEF dramReadReq, PipeIdle
  <2> QED  BY <2>1, ReadingNow
<1>2. PICK fin, wq, wc, rq, rc, half : Behind(fin, wq, wc, rq, rc, half) /\
           \E e, i, b, rest, d, p, c, t0, s, t1, t2, x, y :
             AllGiven(fin, e) /\ Reading(fin, wc, rq, rc, i, b, rest, d, p, c, t0, s, t1, t2, x, y)
  BY <1>1
<1>3. PICK e, i, b, rest, d, p, c, t0, s, t1, t2, x, y :
        AllGiven(fin, e) /\ Reading(fin, wc, rq, rc, i, b, rest, d, p, c, t0, s, t1, t2, x, y)
  BY <1>2
<1>4. /\ i \in Readers /\ b \in ReadBursts /\ NoReads
      /\ d \in Nat /\ p \in Nat /\ c \in Nat /\ t0 \in Nat /\ s \in Nat /\ t1 \in Nat /\ t2 \in Nat
      /\ x \in Nat /\ y \in Nat
      /\ Promised(i, b, rest, d) /\ Passing(i, b, d, p) /\ Shifted(b, p, c) /\ AskingFor(b, y)
      /\ Noted(b, t0, t2) /\ Synced(fin, b, t0, s) /\ Fetched(fin, b, s, t1)
      /\ Counted(ReadRows, rq, t1, t2, RowReqs(b)) /\ Counted(ReadCmds, rc, x, y, CmdsOf(b))
      /\ Aligned(fin, b, c, t0) /\ Lined(wc, b, t2, x)
  BY <1>3 DEF Reading
<1>5. /\ b.addr \in Nat /\ b.words \in Nat \ {0} /\ b.addr % 2 \in {0, 1}
      /\ d <= p /\ p <= c /\ t0 <= s /\ s <= t1 /\ t1 <= t2 /\ x <= y /\ y <= b.words
      /\ p <= b.words /\ (nextRow /\ wc = <<>> => x < y)
      /\ b.addr % 2 = 1 => t2 <= 2 * b.words /\ c = t0 \div 2
      /\ b.addr % 2 = 0 => t2 <= b.words /\ c = t0
  BY <1>1, <1>2, <1>3, ReadingOrder
<1>6. /\ readCur.left > 0 /\ readCur' = After(readCur)
      /\ cmdQ' = Append(cmdQ, [write |-> FALSE, addr |-> addrReMapping(readCur.addr)])
      /\ UNCHANGED <<readerQ, mReader, readerdQ, curReadCnt, rightSft, curCnt, readerQs, curClientIdx,
                     readOffsetQ, respSyncQ, resps, readCache, nextRow, expected, latest, curWriteCnt,
                     reqs, ddr3>>
  BY DEF dramReadReq, clientVars, cntVars, relayVars, ghostVars
<1> PICK z : z = y + 1
  OBVIOUS
<1>7. y < b.words /\ readCur.addr = b.addr + 2 * y /\ readCur.left = b.words - y
  <2>1. readCur.left = b.words - y /\ (y < b.words => readCur.addr = b.addr + 2 * y)
    BY <1>4 DEF AskingFor
  <2>2. y < b.words
    BY <1>4, <1>5, <1>6, <2>1
  <2> QED  BY <2>1, <2>2
<1> PICK a : a = b.addr + 2 * y
  OBVIOUS
<1> PICK r : r = addrReMapping(a)
  OBVIOUS
<1>8. r \in Nat /\ a \in Nat
  <2>1. y \in 0 .. b.words - 1
    BY <1>4, <1>5, <1>7
  <2>2. WordFits(a)
    BY <1>4, <2>1 DEF BurstsFit
  <2> QED  BY <2>2, RemapPlace
<1> PICK k : k = [write |-> FALSE, addr |-> r]
  OBVIOUS
<1>9. k \in ReadCmds /\ k = CmdsOf(b)[y] /\ cmdQ' = Append(cmdQ, k)
  <2>1. CmdsOf(b)[y] = [write |-> FALSE, addr |-> addrReMapping(b.addr + 2 * y)]
    BY <1>4 DEF CmdsOf
  <2>2. CmdsOf(b)[y] = k
    BY <2>1, Zenon
  <2>3. cmdQ' = Append(cmdQ, k)
    BY <1>6, <1>7, Zenon
  <2> QED  BY <1>8, <2>2, <2>3 DEF ReadCmds
<1> PICK more : more = Append(rc, k)
  OBVIOUS
<1>10. Counted(ReadCmds, more, x, z, CmdsOf(b))
  <2>1. Counted(ReadCmds, Append(rc, k), x, y + 1, CmdsOf(b))
    BY <1>4, <1>9, CountedMore, Zenon
  <2> QED  BY <2>1, Zenon
<1>11. Behind(fin, wq, wc, rq, more, half)'
  <2>1. /\ reqs = wq \o rq /\ cmdQ = wc \o rc /\ (rq # <<>> => wc = <<>>)
        /\ rq \in Seq(ReadRows) /\ rc \in Seq(ReadCmds)
        /\ (half <=> nextRow /\ wc # <<>>)
        /\ Backed(ddr3, wq, wc, half, fin)
        /\ wc \in Seq(WriteCmds)
    BY <1>2, BehindIs, SMTT(40)
  <2>2. cmdQ' = wc \o more /\ more \in Seq(ReadCmds) /\ cmdQ' # <<>>
    <3>1. /\ Append(wc \o rc, k) = wc \o Append(rc, k) /\ Append(rc, k) \in Seq(ReadCmds)
          /\ Append(rc, k) # <<>>
      <4>1. k \in ReadCmds /\ wc \in Seq(WriteCmds) /\ rc \in Seq(ReadCmds)
        BY <1>9, <2>1
      <4> QED  BY <4>1, AppendCmd, Zenon
    <3>2. wc \o Append(rc, k) # <<>>
      BY <2>1, <3>1
    <3>3. cmdQ' = Append(wc \o rc, k)
      BY <1>9, <2>1, Zenon
    <3> QED  BY <3>1, <3>2, <3>3, Zenon
  <2> QED  BY <1>6, <2>1, <2>2, Zenon DEF Behind
<1>12. z \in Nat /\ readCur' \in Part /\ readCur'.left = b.words - z /\ readCur'.addr = b.addr + 2 * z
  <2>1. readCur' = [addr |-> readCur.addr + 2, left |-> readCur.left - 1]
    BY <1>6 DEF After
  <2>2. readCur'.addr = b.addr + 2 * z /\ readCur'.left = b.words - z /\ readCur'.addr \in Nat
        /\ readCur'.left \in Nat /\ z \in Nat
    <3>1. /\ readCur'.addr = readCur.addr + 2 /\ readCur'.left = readCur.left - 1
          /\ y < b.words /\ readCur.addr = b.addr + 2 * y /\ readCur.left = b.words - y
          /\ z = y + 1 /\ y \in Nat /\ b.words \in Nat \ {0} /\ b.addr \in Nat
      BY <1>4, <1>5, <1>7, <2>1
    <3> QED  BY ONLY <3>1
  <2> QED  BY <2>1, <2>2 DEF Part
<1>13. AskingFor(b, z)'
  BY <1>12 DEF AskingFor
<1>14. NoReads' /\ Promised(i, b, rest, d)' /\ Passing(i, b, d, p)' /\ Shifted(b, p, c)'
  BY <1>4, <1>6 DEF NoReads, Promised, Expects, Passing, Shifted
<1>15. Noted(b, t0, t2)' /\ Synced(fin, b, t0, s)'
  BY <1>4, <1>6 DEF Noted, Synced
<1>16. Fetched(fin, b, s, t1)' /\ Aligned(fin, b, c, t0)' /\ Lined(wc, b, t2, x)'
  BY <1>4, <1>6 DEF Fetched, Aligned, Lined
<1>17. Reading(fin, wc, rq, more, i, b, rest, d, p, c, t0, s, t1, t2, x, z)'
  BY <1>4, <1>10, <1>12, <1>13, <1>14, <1>15, <1>16 DEF Reading
<1>18. AllGiven(fin, e)'
  <2>1. UNCHANGED writeSideVars
    BY DEF dramReadReq, clientVars, cntVars, relayVars, ghostVars, writeSideVars
  <2> QED  BY <1>3, <2>1, AllGivenKept
<1>19. Typed' /\ curWriteCnt' = 0
  <2>1. UNCHANGED <<writerM, writerdQ, expected, owed, written, latest, writeCur,
                    readerQs, curReadCnt, curWriteCnt, nextRow>>
    BY DEF dramReadReq, clientVars, cntVars, relayVars, ghostVars
  <2> QED  BY <1>1, <1>12, <2>1 DEF Typed, BurstTypes
<1> QED  BY <1>11, <1>17, <1>18, <1>19, ReadingAgain

LEMMA AppendRow ==
  ASSUME NEW p \in Seq(WriteRows), NEW q \in Seq(ReadRows), NEW e \in ReadRows
  PROVE  Append(p \o q, e) = p \o Append(q, e) /\ Append(q, e) \in Seq(ReadRows)
OBVIOUS

(* The controller asks the memory for a row.                               *)
(* Command x of burst b asks for row t2; two: and for the one after it.    *)
RowOf(b, x, k, again, t2, two, r, v) ==
  /\ b.addr \in Nat /\ b.addr % 2 \in {0, 1} /\ x \in Nat /\ t2 \in Nat
  /\ k = CmdsOf(b)[x] /\ k.addr \in Nat /\ again \in BOOLEAN /\ two \in BOOLEAN
  /\ b.addr % 2 = 1 => t2 = 2 * x + (IF again THEN 1 ELSE 0) /\ k.addr % 2 = 1
  /\ b.addr % 2 = 0 => t2 = x /\ ~again /\ k.addr % 2 = 0
  /\ two <=> k.addr % 2 = 1 /\ ~again
  /\ r = [row |-> IF again THEN k.addr \div 2 + 1 ELSE k.addr \div 2, put |-> NoData]
  /\ v = [cache |-> two, offset |-> k.addr % 2]

LEMMA RowAsked ==
  ASSUME NEW b, NEW x, NEW k, NEW again, NEW t2, NEW two, NEW r, NEW v,
         RowOf(b, x, k, again, t2, two, r, v)
  PROVE  /\ r = RowReqs(b)[t2] /\ r \in ReadRows /\ v = OffsOf(b)[t2] /\ v \in Notes
         /\ two <=> b.addr % 2 = 1 /\ t2 = 2 * x
<1> USE DEF RowOf
<1> PICK a : a = addrReMapping(b.addr + 2 * x)
  OBVIOUS
<1>1. k.addr = a /\ a \in Nat
  <2>1. CmdsOf(b)[x] = [write |-> FALSE, addr |-> addrReMapping(b.addr + 2 * x)]
    BY DEF CmdsOf
  <2> QED  BY <2>1
<1> PICK n : n = RowNo(b, t2)
  OBVIOUS
<1>2. RowReqs(b)[t2] = [row |-> n, put |-> NoData]
  BY DEF RowReqs
<1>3. OffsOf(b)[t2] = [cache |-> b.addr % 2 = 1 /\ t2 % 2 = 0, offset |-> b.addr % 2]
  BY DEF OffsOf
<1>4. CASE b.addr % 2 = 1
  <2>1. k.addr % 2 = 1 /\ (two <=> ~again) /\ ~(b.addr % 2 = 0)
    BY <1>4
  <2>2. t2 \div 2 = x /\ (again => t2 % 2 = 1) /\ (~again => t2 % 2 = 0) /\ (two <=> t2 = 2 * x)
        /\ (two <=> t2 % 2 = 0)
    BY <1>4, <2>1
  <2>3. n = addrReMapping(b.addr + 2 * (t2 \div 2)) \div 2 + (t2 % 2)
    BY <1>4 DEF RowNo
  <2>4. n = a \div 2 + (t2 % 2)
    BY <2>2, <2>3, Zenon
  <2>5. r.row = n /\ n \in Nat
    <3>1. r.row = IF again THEN a \div 2 + 1 ELSE a \div 2
      BY <1>1
    <3> QED  BY <1>1, <2>2, <2>4, <3>1
  <2>6. r = RowReqs(b)[t2] /\ r \in ReadRows
    BY <1>1, <1>2, <2>5 DEF ReadRows
  <2>7. v = [cache |-> two, offset |-> 1]
    BY <2>1
  <2>8. v = OffsOf(b)[t2] /\ v \in Notes
    BY <1>3, <1>4, <2>2, <2>7 DEF Notes
  <2> QED  BY <1>4, <2>2, <2>6, <2>8
<1>5. CASE b.addr % 2 = 0
  <2>1. k.addr % 2 = 0 /\ ~two /\ ~again /\ ~(b.addr % 2 = 1) /\ t2 = x
    BY <1>5
  <2>2. n = addrReMapping(b.addr + 2 * t2) \div 2
    BY <2>1, Zenon DEF RowNo
  <2>3. n = a \div 2
    BY <2>1, <2>2, Zenon
  <2>4. r.row = n /\ n \in Nat
    BY <1>1, <2>1, <2>3
  <2>5. r = RowReqs(b)[t2] /\ r \in ReadRows
    BY <1>2, <2>1, <2>4 DEF ReadRows
  <2>6. v = [cache |-> FALSE, offset |-> 0]
    BY <2>1
  <2>7. v = OffsOf(b)[t2] /\ v \in Notes
    BY <1>3, <1>5, <2>1, <2>6 DEF Notes
  <2> QED  BY <2>1, <2>5, <2>7
<1> QED  BY <1>4, <1>5

LEMMA DriverReadCKeeps ==
  ASSUME BurstInv, BurstsFit, driverReadC
  PROVE  BurstInv'
<1>1. /\ Typed /\ BurstTypes /\ curWriteCnt = 0
      /\ \E fin, wq, wc, rq, rc, half : Behind(fin, wq, wc, rq, rc, half) /\
           \E e, i, b, rest, d, p, c, t0, s, t1, t2, x, y :
             AllGiven(fin, e) /\ Reading(fin, wc, rq, rc, i, b, rest, d, p, c, t0, s, t1, t2, x, y)
  <2>1. cmdQ # <<>> /\ ~Head(cmdQ).write
    BY DEF driverReadC
  <2> QED  BY <2>1, ReadingNow
<1>2. PICK fin, wq, wc, rq, rc, half : Behind(fin, wq, wc, rq, rc, half) /\
           \E e, i, b, rest, d, p, c, t0, s, t1, t2, x, y :
             AllGiven(fin, e) /\ Reading(fin, wc, rq, rc, i, b, rest, d, p, c, t0, s, t1, t2, x, y)
  BY <1>1
<1>3. PICK e, i, b, rest, d, p, c, t0, s, t1, t2, x, y :
        AllGiven(fin, e) /\ Reading(fin, wc, rq, rc, i, b, rest, d, p, c, t0, s, t1, t2, x, y)
  BY <1>2
<1>4. /\ i \in Readers /\ b \in ReadBursts /\ NoReads
      /\ d \in Nat /\ p \in Nat /\ c \in Nat /\ t0 \in Nat /\ s \in Nat /\ t1 \in Nat /\ t2 \in Nat
      /\ x \in Nat /\ y \in Nat
      /\ Promised(i, b, rest, d) /\ Passing(i, b, d, p) /\ Shifted(b, p, c) /\ AskingFor(b, y)
      /\ Noted(b, t0, t2) /\ Synced(fin, b, t0, s) /\ Fetched(fin, b, s, t1)
      /\ Counted(ReadRows, rq, t1, t2, RowReqs(b)) /\ Counted(ReadCmds, rc, x, y, CmdsOf(b))
      /\ Aligned(fin, b, c, t0) /\ Lined(wc, b, t2, x)
  BY <1>3 DEF Reading
<1>5. /\ b.addr \in Nat /\ b.words \in Nat \ {0} /\ b.addr % 2 \in {0, 1}
      /\ d <= p /\ p <= c /\ t0 <= s /\ s <= t1 /\ t1 <= t2 /\ x <= y /\ y <= b.words
      /\ p <= b.words /\ (nextRow /\ wc = <<>> => x < y)
      /\ b.addr % 2 = 1 => t2 <= 2 * b.words /\ c = t0 \div 2
      /\ b.addr % 2 = 0 => t2 <= b.words /\ c = t0
  BY <1>1, <1>2, <1>3, ReadingOrder
<1> PICK k : k = Head(cmdQ)
  OBVIOUS
<1> PICK again \in BOOLEAN : again <=> nextRow
  OBVIOUS
<1> PICK two \in BOOLEAN : two <=> k.addr % 2 = 1 /\ ~again
  OBVIOUS
<1> PICK r : r = [row |-> IF again THEN k.addr \div 2 + 1 ELSE k.addr \div 2, put |-> NoData]
  OBVIOUS
<1> PICK v : v = [cache |-> two, offset |-> k.addr % 2]
  OBVIOUS
<1>6. nextRow \in BOOLEAN /\ again = nextRow /\ two = (k.addr % 2 = 1 /\ ~nextRow)
  BY <1>1 DEF BurstTypes
<1>7. /\ cmdQ # <<>> /\ ~k.write /\ reqs' = Append(reqs, r) /\ readOffsetQ' = Append(readOffsetQ, v)
      /\ nextRow' = two /\ cmdQ' = IF two THEN cmdQ ELSE Tail(cmdQ)
      /\ UNCHANGED <<readerQ, mReader, readCur, readerdQ, curReadCnt, rightSft, curCnt, readerQs,
                     curClientIdx, respSyncQ, resps, readCache, expected, latest, curWriteCnt, ddr3>>
  BY <1>6 DEF driverReadC, RowDone, clientVars, cntVars, relayVars, burstVars, ghostVars
<1>8. wc = <<>> /\ rc # <<>> /\ cmdQ = rc /\ k = Head(rc) /\ Tail(cmdQ) = Tail(rc)
  BY <1>2, <1>7, WhichCmd
<1>9. /\ k = CmdsOf(b)[x] /\ k \in ReadCmds /\ x < y /\ Counted(ReadCmds, Tail(rc), x + 1, y, CmdsOf(b))
      /\ rc \in Seq(ReadCmds)
  <2>1. x \in Nat /\ y \in Nat
    BY <1>4
  <2>2. Counted(ReadCmds, rc, x, y, CmdsOf(b)) /\ rc # <<>> /\ rc \in Seq(ReadCmds)
    BY <1>4, <1>8, Zenon DEF Counted
  <2>3. /\ Head(rc) = CmdsOf(b)[x] /\ Head(rc) \in ReadCmds /\ x < y
        /\ Counted(ReadCmds, Tail(rc), x + 1, y, CmdsOf(b))
    BY <2>1, <2>2, CountedFirst
  <2> QED  BY <1>8, <2>2, <2>3, Zenon
<1>10. k.addr \in Nat /\ k.addr % 2 = b.addr % 2
  <2>1. k.addr = addrReMapping(b.addr + 2 * x)
    <3>1. CmdsOf(b)[x] = [write |-> FALSE, addr |-> addrReMapping(b.addr + 2 * x)]
      BY <1>4 DEF CmdsOf
    <3> QED  BY <1>9, <3>1
  <2> PICK a : a = b.addr + 2 * x
    OBVIOUS
  <2>2. x \in 0 .. b.words - 1
    BY <1>4, <1>5, <1>9, SMTT(40)
  <2>3. WordFits(a)
    BY <1>4, <2>2 DEF BurstsFit
  <2>4. addrReMapping(a) \in Nat /\ addrReMapping(a) % 2 = a % 2
    BY <2>3, RemapPlace
  <2>5. a % 2 = b.addr % 2
    BY <1>4, <1>5, SMTT(40)
  <2> QED  BY <2>1, <2>4, <2>5, Zenon
<1>11. /\ b.addr % 2 = 1 => t2 = 2 * x + (IF again THEN 1 ELSE 0) /\ k.addr % 2 = 1
       /\ b.addr % 2 = 0 => t2 = x /\ ~again /\ k.addr % 2 = 0
  <2>1. /\ b.addr % 2 = 1 => t2 = 2 * x + (IF nextRow /\ wc = <<>> THEN 1 ELSE 0)
        /\ b.addr % 2 = 0 => t2 = x /\ ~(nextRow /\ wc = <<>>)
    BY <1>4 DEF Lined
  <2>2. (nextRow /\ wc = <<>>) <=> again
    BY <1>8
  <2> QED  BY <1>10, <2>1, <2>2
<1>12. /\ r = RowReqs(b)[t2] /\ r \in ReadRows /\ v = OffsOf(b)[t2] /\ v \in Notes
       /\ two <=> b.addr % 2 = 1 /\ t2 = 2 * x
  <2>1. b \in ReadBursts /\ b.addr \in Nat /\ x \in Nat /\ k = CmdsOf(b)[x] /\ k.addr \in Nat
        /\ t2 \in Nat /\ b.addr % 2 \in {0, 1}
    BY <1>4, <1>5, <1>9, <1>10
  <2>2. r = [row |-> IF again THEN k.addr \div 2 + 1 ELSE k.addr \div 2, put |-> NoData]
    OBVIOUS
  <2>3. v = [cache |-> two, offset |-> k.addr % 2] /\ (two <=> k.addr % 2 = 1 /\ ~again)
    OBVIOUS
  <2>4. again \in BOOLEAN /\ two \in BOOLEAN
    OBVIOUS
  <2>5. RowOf(b, x, k, again, t2, two, r, v)
    BY <2>1, <2>2, <2>3, <2>4, <1>11, Zenon DEF RowOf
  <2> QED  BY <2>5, RowAsked
<1> PICK z : z = t2 + 1
  OBVIOUS
<1> PICK u : u = IF two THEN x ELSE x + 1
  OBVIOUS
<1> PICK left : left = IF two THEN rc ELSE Tail(rc)
  OBVIOUS
<1> PICK more : more = Append(rq, r)
  OBVIOUS
<1>13. u \in Nat /\ z \in Nat /\ z = t2 + 1
  BY <1>4
<1>14. Counted(ReadCmds, left, u, y, CmdsOf(b))
  <2>1. CASE two
    <3>1. u = x /\ left = rc
      BY <2>1
    <3> QED  BY <1>4, <3>1
  <2>2. CASE ~two
    <3>1. u = x + 1 /\ left = Tail(rc)
      BY <2>2
    <3> QED  BY <1>9, <3>1
  <2> QED  BY <2>1, <2>2
<1>15. Counted(ReadRows, more, t1, z, RowReqs(b))
  <2>1. t1 \in Nat /\ t2 \in Nat /\ Counted(ReadRows, rq, t1, t2, RowReqs(b))
    BY <1>4
  <2>2. Counted(ReadRows, Append(rq, r), t1, t2 + 1, RowReqs(b))
    BY <1>12, <2>1, CountedMore, Zenon
  <2> QED  BY <2>2, Zenon
<1>16. Noted(b, t0, z)'
  <2>1. t0 \in Nat /\ t2 \in Nat /\ Counted(Notes, readOffsetQ, t0, t2, OffsOf(b))
    BY <1>4 DEF Noted
  <2>2. Counted(Notes, Append(readOffsetQ, v), t0, t2 + 1, OffsOf(b))
    BY <1>12, <2>1, CountedMore, Zenon
  <2>3. Counted(Notes, readOffsetQ', t0, z, OffsOf(b))
    BY <1>7, <2>2, Zenon
  <2> QED  BY <2>3 DEF Noted
<1>17. Lined(wc, b, z, u)'
  <2>1. (nextRow' /\ wc = <<>>) <=> two
    BY <1>7, <1>8
  <2>2. b.addr % 2 = 1 => z = 2 * u + (IF two THEN 1 ELSE 0)
    BY <1>4, <1>11, <1>12
  <2>3. b.addr % 2 = 0 => z = u /\ ~two
    BY <1>4, <1>11, <1>12
  <2>4. b.addr % 2 = 1 => z = 2 * u + (IF nextRow' /\ wc = <<>> THEN 1 ELSE 0)
    BY <2>1, <2>2, Zenon
  <2> QED  BY <2>1, <2>3, <2>4, Zenon DEF Lined
<1>18. Behind(fin, wq, wc, more, left, half)'
  <2>1. /\ reqs = wq \o rq /\ rq \in Seq(ReadRows) /\ wq \in Seq(WriteRows)
        /\ (half <=> nextRow /\ wc # <<>>) /\ Backed(ddr3, wq, wc, half, fin)
    BY <1>2, BehindIs
  <2>2. reqs' = wq \o more /\ more \in Seq(ReadRows)
    <3>1. Append(wq \o rq, r) = wq \o Append(rq, r) /\ Append(rq, r) \in Seq(ReadRows)
      BY <1>12, <2>1, AppendRow, Zenon
    <3>2. reqs' = Append(wq \o rq, r)
      BY <1>7, <2>1, Zenon
    <3> QED  BY <3>1, <3>2, Zenon
  <2>3. left \in Seq(ReadCmds)
    BY <1>14, Zenon DEF Counted
  <2>4. cmdQ' = wc \o left
    <3>1. cmdQ' = left
      BY <1>7, <1>8
    <3> QED  BY <1>8, <2>3, <3>1
  <2>5. nextRow' => cmdQ' # <<>>
    BY <1>7
  <2>6. half <=> nextRow' /\ wc # <<>>
    BY <1>8, <2>1
  <2> QED  BY <1>7, <1>8, <2>1, <2>2, <2>3, <2>4, <2>5, <2>6, Zenon DEF Behind
<1>19. NoReads' /\ Promised(i, b, rest, d)' /\ Passing(i, b, d, p)' /\ Shifted(b, p, c)'
  BY <1>4, <1>7 DEF NoReads, Promised, Expects, Passing, Shifted
<1>20. AskingFor(b, y)' /\ Synced(fin, b, t0, s)' /\ Fetched(fin, b, s, t1)' /\ Aligned(fin, b, c, t0)'
  BY <1>4, <1>7 DEF AskingFor, Synced, Fetched, Aligned
<1>21. Reading(fin, wc, more, left, i, b, rest, d, p, c, t0, s, t1, z, u, y)'
  BY <1>4, <1>13, <1>14, <1>15, <1>16, <1>17, <1>19, <1>20 DEF Reading
<1>22. AllGiven(fin, e)'
  <2>1. UNCHANGED writeSideVars
    BY DEF driverReadC, clientVars, cntVars, relayVars, burstVars, ghostVars, writeSideVars
  <2> QED  BY <1>3, <2>1, AllGivenKept
<1>23. Typed' /\ curWriteCnt' = 0
  <2>1. UNCHANGED <<writerM, writerdQ, expected, owed, written, latest, readCur, writeCur,
                    readerQs, curReadCnt, curWriteCnt>>
    BY DEF driverReadC, clientVars, cntVars, relayVars, burstVars, ghostVars
  <2> QED  BY <1>1, <1>7, <2>1 DEF Typed, BurstTypes
<1> QED  BY <1>18, <1>21, <1>22, <1>23, ReadingAgain

(* The memory reads a row: nothing of a write burst is left before it.     *)
LEMMA RowIs ==
  ASSUME BurstsFit, NEW b \in ReadBursts, NEW t \in Nat, NEW m \in Mem,
         b.addr % 2 = 1 => t < 2 * b.words, b.addr % 2 = 0 => t < b.words
  PROVE  /\ RowsAt(m, b)[t] = <<m[2 * RowNo(b, t)], m[2 * RowNo(b, t) + 1]>>
         /\ RowsAt(m, b)[t] \in Words
<1>1. b.addr \in Nat /\ b.words \in Nat
  BY BurstIs
<1>2. b.addr % 2 = 0 \/ b.addr % 2 = 1
  BY <1>1
<1>3. CASE b.addr % 2 = 0
  BY <1>3, EvenRow
<1>4. CASE b.addr % 2 = 1
  <2> PICK k : k = t \div 2
    OBVIOUS
  <2> PICK u : u = 2 * k
    OBVIOUS
  <2>1. k \in Nat /\ k < b.words /\ u \in Nat /\ (t = u \/ t = u + 1)
    BY <1>1, <1>4
  <2>2. /\ RowsAt(m, b)[u] = <<m[2 * RowNo(b, u)], m[2 * RowNo(b, u) + 1]>>
        /\ RowsAt(m, b)[u + 1] = <<m[2 * RowNo(b, u + 1)], m[2 * RowNo(b, u + 1) + 1]>>
        /\ RowsAt(m, b)[u] \in Words /\ RowsAt(m, b)[u + 1] \in Words
    BY <1>4, <2>1, OddRows
  <2>3. CASE t = u
    BY <2>2, <2>3, Zenon
  <2>4. CASE t = u + 1
    BY <2>2, <2>4, Zenon
  <2> QED  BY <2>1, <2>3, <2>4
<1> QED  BY <1>2, <1>3, <1>4

LEMMA RelayReqsReadKeeps ==
  ASSUME BurstInv, BurstsFit, relayReqs, Head(reqs).put = NoData
  PROVE  BurstInv'
<1>1. /\ Typed /\ BurstTypes /\ curWriteCnt = 0
      /\ \E fin, wq, wc, rq, rc, half : Behind(fin, wq, wc, rq, rc, half) /\
           \E e, i, b, rest, d, p, c, t0, s, t1, t2, x, y :
             AllGiven(fin, e) /\ Reading(fin, wc, rq, rc, i, b, rest, d, p, c, t0, s, t1, t2, x, y)
  <2>1. reqs # <<>> /\ Head(reqs).put = NoData
    BY DEF relayReqs
  <2> QED  BY <2>1, ReadingNow
<1>2. PICK fin, wq, wc, rq, rc, half : Behind(fin, wq, wc, rq, rc, half) /\
           \E e, i, b, rest, d, p, c, t0, s, t1, t2, x, y :
             AllGiven(fin, e) /\ Reading(fin, wc, rq, rc, i, b, rest, d, p, c, t0, s, t1, t2, x, y)
  BY <1>1
<1>3. PICK e, i, b, rest, d, p, c, t0, s, t1, t2, x, y :
        AllGiven(fin, e) /\ Reading(fin, wc, rq, rc, i, b, rest, d, p, c, t0, s, t1, t2, x, y)
  BY <1>2
<1>4. /\ i \in Readers /\ b \in ReadBursts /\ NoReads
      /\ d \in Nat /\ p \in Nat /\ c \in Nat /\ t0 \in Nat /\ s \in Nat /\ t1 \in Nat /\ t2 \in Nat
      /\ x \in Nat /\ y \in Nat
      /\ Promised(i, b, rest, d) /\ Passing(i, b, d, p) /\ Shifted(b, p, c) /\ AskingFor(b, y)
      /\ Noted(b, t0, t2) /\ Synced(fin, b, t0, s) /\ Fetched(fin, b, s, t1)
      /\ Counted(ReadRows, rq, t1, t2, RowReqs(b)) /\ Counted(ReadCmds, rc, x, y, CmdsOf(b))
      /\ Aligned(fin, b, c, t0) /\ Lined(wc, b, t2, x)
  BY <1>3 DEF Reading
<1>5. /\ b.addr \in Nat /\ b.words \in Nat \ {0} /\ b.addr % 2 \in {0, 1}
      /\ d <= p /\ p <= c /\ t0 <= s /\ s <= t1 /\ t1 <= t2 /\ x <= y /\ y <= b.words
      /\ p <= b.words /\ (nextRow /\ wc = <<>> => x < y)
      /\ b.addr % 2 = 1 => t2 <= 2 * b.words /\ c = t0 \div 2
      /\ b.addr % 2 = 0 => t2 <= b.words /\ c = t0
  BY <1>1, <1>2, <1>3, ReadingOrder
<1> PICK r : r = Head(reqs)
  OBVIOUS
<1>6. /\ reqs # <<>> /\ reqs' = Tail(reqs) /\ ddr3' = ddr3
      /\ resps' = Append(resps, <<ddr3[2 * r.row], ddr3[2 * r.row + 1]>>)
      /\ UNCHANGED <<readerQ, mReader, readCur, readerdQ, curReadCnt, rightSft, curCnt, readerQs,
                     curClientIdx, respSyncQ, readOffsetQ, readCache, expected, latest, curWriteCnt,
                     nextRow, cmdQ>>
  BY DEF relayReqs, clientVars, cntVars, relayVars, burstVars, ghostVars
<1>7. wq = <<>> /\ wc = <<>> /\ rq # <<>> /\ reqs = rq /\ r = Head(rq) /\ ddr3 = fin
  BY <1>2, <1>6, WhichReq
<1>8. r = RowReqs(b)[t1] /\ t1 < t2 /\ Counted(ReadRows, Tail(rq), t1 + 1, t2, RowReqs(b))
  <2>1. t1 \in Nat /\ t2 \in Nat
    BY <1>4
  <2>2. Counted(ReadRows, rq, t1, t2, RowReqs(b)) /\ rq # <<>> /\ rq \in Seq(ReadRows)
    BY <1>4, <1>7, Zenon DEF Counted
  <2>3. Head(rq) = RowReqs(b)[t1] /\ t1 < t2 /\ Counted(ReadRows, Tail(rq), t1 + 1, t2, RowReqs(b))
    BY <2>1, <2>2, CountedFirst
  <2> QED  BY <1>7, <2>3, Zenon
<1> PICK res : res = <<ddr3[2 * r.row], ddr3[2 * r.row + 1]>>
  OBVIOUS
<1>9. res = RowsAt(fin, b)[t1] /\ res \in Words
  <2>1. r.row = RowNo(b, t1)
    <3>1. RowReqs(b)[t1] = [row |-> RowNo(b, t1), put |-> NoData]
      BY <1>4 DEF RowReqs
    <3> QED  BY <1>8, <3>1
  <2>2. fin \in Mem
    BY <1>2, BehindIs
  <2>3. /\ b.addr % 2 = 1 => t1 < 2 * b.words
        /\ b.addr % 2 = 0 => t1 < b.words
    <3>1. t1 \in Nat /\ t2 \in Nat
      BY <1>4
    <3> QED  BY ONLY <1>5, <1>8, <3>1
  <2>4. /\ RowsAt(fin, b)[t1] = <<fin[2 * RowNo(b, t1)], fin[2 * RowNo(b, t1) + 1]>>
        /\ RowsAt(fin, b)[t1] \in Words
    BY <1>4, <2>2, <2>3, RowIs
  <2> QED  BY <1>7, <2>1, <2>4, Zenon
<1> PICK z : z = t1 + 1
  OBVIOUS
<1> PICK more : more = Tail(rq)
  OBVIOUS
<1>10. z \in Nat /\ Counted(ReadRows, more, z, t2, RowReqs(b))
  <2>1. z \in Nat
    BY <1>4
  <2> QED  BY <1>8, <2>1, Zenon
<1>11. Fetched(fin, b, s, z)'
  <2>1. s \in Nat /\ t1 \in Nat /\ Counted(Words, resps, s, t1, RowsAt(fin, b))
    BY <1>4 DEF Fetched
  <2>2. Counted(Words, Append(resps, res), s, t1 + 1, RowsAt(fin, b))
    BY <1>9, <2>1, CountedMore, Zenon
  <2>3. Counted(Words, resps', s, z, RowsAt(fin, b))
    BY <1>6, <2>2, Zenon
  <2> QED  BY <2>3 DEF Fetched
<1>12. Behind(fin, wq, wc, more, rc, half)'
  <2>1. /\ cmdQ = wc \o rc /\ rc \in Seq(ReadCmds)
        /\ (half <=> nextRow /\ wc # <<>>) /\ (nextRow => cmdQ # <<>>)
        /\ Backed(ddr3, wq, wc, half, fin)
    BY <1>2, BehindIs, SMTT(40)
  <2>2. more \in Seq(ReadRows)
    BY <1>10, Zenon DEF Counted
  <2>3. reqs' = wq \o more
    <3>1. reqs' = more
      BY <1>6, <1>7, Zenon
    <3> QED  BY <1>7, <2>2, <3>1
  <2> QED  BY <1>6, <1>7, <2>1, <2>2, <2>3, Zenon DEF Behind
<1>13. NoReads' /\ Promised(i, b, rest, d)' /\ Passing(i, b, d, p)' /\ Shifted(b, p, c)'
  BY <1>4, <1>6 DEF NoReads, Promised, Expects, Passing, Shifted
<1>14. AskingFor(b, y)' /\ Noted(b, t0, t2)' /\ Synced(fin, b, t0, s)' /\ Aligned(fin, b, c, t0)'
       /\ Lined(wc, b, t2, x)'
  BY <1>4, <1>6 DEF AskingFor, Noted, Synced, Aligned, Lined
<1>15. Reading(fin, wc, more, rc, i, b, rest, d, p, c, t0, s, z, t2, x, y)'
  BY <1>4, <1>10, <1>11, <1>13, <1>14 DEF Reading
<1>16. AllGiven(fin, e)'
  <2>1. UNCHANGED writeSideVars
    BY DEF relayReqs, clientVars, cntVars, relayVars, burstVars, ghostVars, writeSideVars
  <2> QED  BY <1>3, <2>1, AllGivenKept
<1>17. Typed' /\ curWriteCnt' = 0
  <2>1. UNCHANGED typedVars
    BY DEF relayReqs, clientVars, cntVars, relayVars, burstVars, ghostVars, typedVars
  <2> QED  BY <1>1, <1>6, <2>1, TypedKept
<1> QED  BY <1>12, <1>15, <1>16, <1>17, ReadingAgain

(* A row comes to the clock domain of the clients.                         *)
LEMMA RelayResps2Keeps ==
  ASSUME BurstInv, BurstsFit, relayResps2
  PROVE  BurstInv'
<1>1. /\ Typed /\ BurstTypes /\ curWriteCnt = 0
      /\ \E fin, wq, wc, rq, rc, half : Behind(fin, wq, wc, rq, rc, half) /\
           \E e, i, b, rest, d, p, c, t0, s, t1, t2, x, y :
             AllGiven(fin, e) /\ Reading(fin, wc, rq, rc, i, b, rest, d, p, c, t0, s, t1, t2, x, y)
  <2>1. ~PipeIdle
    BY DEF relayResps2, PipeIdle
  <2> QED  BY <2>1, ReadingNow
<1>2. PICK fin, wq, wc, rq, rc, half : Behind(fin, wq, wc, rq, rc, half) /\
           \E e, i, b, rest, d, p, c, t0, s, t1, t2, x, y :
             AllGiven(fin, e) /\ Reading(fin, wc, rq, rc, i, b, rest, d, p, c, t0, s, t1, t2, x, y)
  BY <1>1
<1>3. PICK e, i, b, rest, d, p, c, t0, s, t1, t2, x, y :
        AllGiven(fin, e) /\ Reading(fin, wc, rq, rc, i, b, rest, d, p, c, t0, s, t1, t2, x, y)
  BY <1>2
<1>4. /\ i \in Readers /\ b \in ReadBursts /\ NoReads
      /\ d \in Nat /\ p \in Nat /\ c \in Nat /\ t0 \in Nat /\ s \in Nat /\ t1 \in Nat /\ t2 \in Nat
      /\ x \in Nat /\ y \in Nat
      /\ Promised(i, b, rest, d) /\ Passing(i, b, d, p) /\ Shifted(b, p, c) /\ AskingFor(b, y)
      /\ Noted(b, t0, t2) /\ Synced(fin, b, t0, s) /\ Fetched(fin, b, s, t1)
      /\ Counted(ReadRows, rq, t1, t2, RowReqs(b)) /\ Counted(ReadCmds, rc, x, y, CmdsOf(b))
      /\ Aligned(fin, b, c, t0) /\ Lined(wc, b, t2, x)
  BY <1>3 DEF Reading
<1>5. /\ b.addr \in Nat /\ b.words \in Nat \ {0} /\ b.addr % 2 \in {0, 1}
      /\ d <= p /\ p <= c /\ t0 <= s /\ s <= t1 /\ t1 <= t2 /\ x <= y /\ y <= b.words
      /\ p <= b.words /\ (nextRow /\ wc = <<>> => x < y)
      /\ b.addr % 2 = 1 => t2 <= 2 * b.words /\ c = t0 \div 2
      /\ b.addr % 2 = 0 => t2 <= b.words /\ c = t0
  BY <1>1, <1>2, <1>3, ReadingOrder
<1>6. /\ resps # <<>> /\ respSyncQ' = Append(respSyncQ, Head(resps)) /\ resps' = Tail(resps)
      /\ UNCHANGED <<readerQ, mReader, readCur, readerdQ, curReadCnt, rightSft, curCnt, readerQs,
                     curClientIdx, readOffsetQ, readCache, expected, latest, curWriteCnt,
                     nextRow, cmdQ>>
  BY DEF relayResps2, clientVars, cntVars, relayVars, burstVars, ghostVars
<1> PICK z : z = s + 1
  OBVIOUS
<1> PICK q : q = resps
  OBVIOUS
<1>7. /\ Head(q) = RowsAt(fin, b)[s] /\ Head(q) \in Words
      /\ Counted(Words, Tail(q), s + 1, t1, RowsAt(fin, b))
  <2>1. s \in Nat /\ t1 \in Nat
    BY <1>4
  <2>2. Counted(Words, q, s, t1, RowsAt(fin, b)) /\ q # <<>> /\ q \in Seq(Words)
    BY <1>4, <1>6, Zenon DEF Fetched, Counted
  <2> QED  BY <2>1, <2>2, CountedFirst
<1>8. z \in Nat /\ Fetched(fin, b, z, t1)'
  <2>1. z \in Nat
    BY <1>4
  <2>2. Counted(Words, resps', z, t1, RowsAt(fin, b))
    BY <1>6, <1>7, Zenon
  <2> QED  BY <2>1, <2>2 DEF Fetched
<1>9. Synced(fin, b, t0, z)'
  <2>1. t0 \in Nat /\ s \in Nat /\ Counted(Words, respSyncQ, t0, s, RowsAt(fin, b))
    BY <1>4 DEF Synced
  <2> PICK res : res = Head(q)
    OBVIOUS
  <2>2. res \in Words /\ res = RowsAt(fin, b)[s]
    BY <1>7, Zenon
  <2>3. Counted(Words, Append(respSyncQ, res), t0, s + 1, RowsAt(fin, b))
    BY <2>1, <2>2, CountedMore, Zenon
  <2>4. Counted(Words, respSyncQ', t0, z, RowsAt(fin, b))
    BY <1>6, <2>3, Zenon
  <2> QED  BY <2>4 DEF Synced
<1>10. NoReads' /\ Promised(i, b, rest, d)' /\ Passing(i, b, d, p)' /\ Shifted(b, p, c)'
  BY <1>4, <1>6 DEF NoReads, Promised, Expects, Passing, Shifted
<1>11. AskingFor(b, y)' /\ Noted(b, t0, t2)' /\ Aligned(fin, b, c, t0)' /\ Lined(wc, b, t2, x)'
  BY <1>4, <1>6 DEF AskingFor, Noted, Aligned, Lined
<1>12. Reading(fin, wc, rq, rc, i, b, rest, d, p, c, t0, z, t1, t2, x, y)'
  BY <1>4, <1>8, <1>9, <1>10, <1>11 DEF Reading
<1>13. Behind(fin, wq, wc, rq, rc, half)'
  <2>1. UNCHANGED behindVars
    BY DEF relayResps2, behindVars
  <2> QED  BY <1>2, <2>1, BehindKept
<1>14. AllGiven(fin, e)'
  <2>1. UNCHANGED writeSideVars
    BY DEF relayResps2, clientVars, cntVars, relayVars, burstVars, ghostVars, writeSideVars
  <2> QED  BY <1>3, <2>1, AllGivenKept
<1>15. Typed' /\ curWriteCnt' = 0
  <2>1. UNCHANGED typedVars
    BY DEF relayResps2, clientVars, cntVars, relayVars, burstVars, ghostVars, typedVars
  <2> QED  BY <1>1, <1>6, <2>1, TypedKept
<1> QED  BY <1>12, <1>13, <1>14, <1>15, ReadingAgain
(* The controller takes a row: a word is shifted out, or the row is kept.  *)
LEMMA WordShifted ==
  ASSUME BurstsFit, NEW b \in ReadBursts, NEW t \in Nat, NEW c \in Nat, NEW m \in Mem, c < b.words,
         b.addr % 2 = 1, t % 2 = 1, c = t \div 2
  PROVE  <<RowsAt(m, b)[t - 1][2], RowsAt(m, b)[t][1]>> = WordsAt(Logical(m), b)[c]
<1> PICK u : u = 2 * c
  OBVIOUS
<1>1. u \in Nat /\ t = u + 1 /\ t - 1 = u
  OBVIOUS
<1>2. <<RowsAt(m, b)[u][2], RowsAt(m, b)[u + 1][1]>> = WordsAt(Logical(m), b)[c]
  BY <1>1, OddRows
<1> QED  BY <1>1, <1>2, Zenon

LEMMA RecvReadKeeps ==
  ASSUME BurstInv, BurstsFit, recvRead
  PROVE  BurstInv'
<1>1. /\ Typed /\ BurstTypes /\ curWriteCnt = 0
      /\ \E fin, wq, wc, rq, rc, half : Behind(fin, wq, wc, rq, rc, half) /\
           \E e, i, b, rest, d, p, c, t0, s, t1, t2, x, y :
             AllGiven(fin, e) /\ Reading(fin, wc, rq, rc, i, b, rest, d, p, c, t0, s, t1, t2, x, y)
  <2>1. ~PipeIdle
    BY DEF recvRead, PipeIdle
  <2> QED  BY <2>1, ReadingNow
<1>2. PICK fin, wq, wc, rq, rc, half : Behind(fin, wq, wc, rq, rc, half) /\
           \E e, i, b, rest, d, p, c, t0, s, t1, t2, x, y :
             AllGiven(fin, e) /\ Reading(fin, wc, rq, rc, i, b, rest, d, p, c, t0, s, t1, t2, x, y)
  BY <1>1
<1>3. PICK e, i, b, rest, d, p, c, t0, s, t1, t2, x, y :
        AllGiven(fin, e) /\ Reading(fin, wc, rq, rc, i, b, rest, d, p, c, t0, s, t1, t2, x, y)
  BY <1>2
<1>4. /\ i \in Readers /\ b \in ReadBursts /\ NoReads
      /\ d \in Nat /\ p \in Nat /\ c \in Nat /\ t0 \in Nat /\ s \in Nat /\ t1 \in Nat /\ t2 \in Nat
      /\ x \in Nat /\ y \in Nat
      /\ Promised(i, b, rest, d) /\ Passing(i, b, d, p) /\ Shifted(b, p, c) /\ AskingFor(b, y)
      /\ Noted(b, t0, t2) /\ Synced(fin, b, t0, s) /\ Fetched(fin, b, s, t1)
      /\ Counted(ReadRows, rq, t1, t2, RowReqs(b)) /\ Counted(ReadCmds, rc, x, y, CmdsOf(b))
      /\ Aligned(fin, b, c, t0) /\ Lined(wc, b, t2, x)
  BY <1>3 DEF Reading
<1>5. /\ b.addr \in Nat /\ b.words \in Nat \ {0} /\ b.addr % 2 \in {0, 1}
      /\ d <= p /\ p <= c /\ t0 <= s /\ s <= t1 /\ t1 <= t2 /\ x <= y /\ y <= b.words
      /\ p <= b.words /\ (nextRow /\ wc = <<>> => x < y)
      /\ b.addr % 2 = 1 => t2 <= 2 * b.words /\ c = t0 \div 2
      /\ b.addr % 2 = 0 => t2 <= b.words /\ c = t0
  BY <1>1, <1>2, <1>3, ReadingOrder
<1> PICK res : res = Head(respSyncQ)
  OBVIOUS
<1> PICK v : v = Head(readOffsetQ)
  OBVIOUS
<1>6. /\ respSyncQ # <<>> /\ readOffsetQ # <<>>
      /\ respSyncQ' = Tail(respSyncQ) /\ readOffsetQ' = Tail(readOffsetQ)
      /\ \/ v.cache /\ readCache' = res /\ rightSft' = rightSft
         \/ /\ ~v.cache /\ readCache' = readCache
            /\ rightSft' = Append(rightSft, IF v.offset = 0 THEN res ELSE <<readCache[2], res[1]>>)
      /\ UNCHANGED <<readerQ, mReader, readCur, readerdQ, curReadCnt, curCnt, readerQs,
                     curClientIdx, resps, expected, latest, curWriteCnt, nextRow, cmdQ>>
  BY DEF recvRead, clientVars, cntVars, relayVars, burstVars, ghostVars
<1>7. /\ res = RowsAt(fin, b)[t0] /\ res \in Words /\ t0 < s
      /\ Counted(Words, respSyncQ', t0 + 1, s, RowsAt(fin, b))
  <2>1. t0 \in Nat /\ s \in Nat
    BY <1>4
  <2> PICK q : q = respSyncQ
    OBVIOUS
  <2>2. Counted(Words, q, t0, s, RowsAt(fin, b)) /\ q # <<>> /\ q \in Seq(Words)
    BY <1>4, <1>6, Zenon DEF Synced, Counted
  <2>3. /\ Head(q) = RowsAt(fin, b)[t0] /\ Head(q) \in Words /\ t0 < s
        /\ Counted(Words, Tail(q), t0 + 1, s, RowsAt(fin, b))
    BY <2>1, <2>2, CountedFirst
  <2> QED  BY <1>6, <2>3, Zenon
<1>8. /\ v = OffsOf(b)[t0] /\ t0 < t2
      /\ Counted(Notes, readOffsetQ', t0 + 1, t2, OffsOf(b))
  <2>1. t0 \in Nat /\ t2 \in Nat
    BY <1>4
  <2> PICK q : q = readOffsetQ
    OBVIOUS
  <2>2. Counted(Notes, q, t0, t2, OffsOf(b)) /\ q # <<>> /\ q \in Seq(Notes)
    BY <1>4, <1>6, Zenon DEF Noted, Counted
  <2>3. /\ Head(q) = OffsOf(b)[t0] /\ t0 < t2
        /\ Counted(Notes, Tail(q), t0 + 1, t2, OffsOf(b))
    BY <2>1, <2>2, CountedFirst
  <2> QED  BY <1>6, <2>3, Zenon
<1>9. (v.cache <=> b.addr % 2 = 1 /\ t0 % 2 = 0) /\ v.offset = b.addr % 2
  <2>1. v = [cache |-> b.addr % 2 = 1 /\ t0 % 2 = 0, offset |-> b.addr % 2]
    <3>1. t0 \in Nat
      BY <1>4
    <3> QED  BY <1>8, <3>1, Zenon DEF OffsOf
  <2> PICK first : first = (b.addr % 2 = 1 /\ t0 % 2 = 0)
    OBVIOUS
  <2> PICK odd : odd = b.addr % 2
    OBVIOUS
  <2>2. v = [cache |-> first, offset |-> odd]
    BY <2>1, Zenon
  <2>3. v.cache = first /\ v.offset = odd
    BY ONLY <2>2
  <2>4. v.cache = (b.addr % 2 = 1 /\ t0 % 2 = 0)
    BY <2>3, Zenon
  <2>5. v.offset = b.addr % 2
    BY <2>3, Zenon
  <2> QED  BY <2>4, <2>5, Zenon
<1>10. latest = Logical(fin) /\ latest \in Mem /\ fin \in Mem
  <2>1. latest = Logical(fin) /\ latest \in Mem
    BY <1>1, <1>3, FreshWords
  <2>2. fin \in Mem
    BY <1>2, BehindIs
  <2> QED  BY <2>1, <2>2
<1> PICK z : z = t0 + 1
  OBVIOUS
<1>11. z \in Nat /\ Noted(b, z, t2)' /\ Synced(fin, b, z, s)'
  <2>1. z \in Nat
    BY <1>4
  <2>2. Counted(Notes, readOffsetQ', z, t2, OffsOf(b)) /\ Counted(Words, respSyncQ', z, s, RowsAt(fin, b))
    BY <1>7, <1>8, Zenon
  <2> QED  BY <2>1, <2>2 DEF Noted, Synced
<1>12. \E n \in Nat : Shifted(b, p, n)' /\ Aligned(fin, b, n, z)'
  <2>0. c \in Nat /\ t0 \in Nat /\ p \in Nat /\ b \in ReadBursts /\ Aligned(fin, b, c, t0)
    BY <1>4
  <2>1. CASE v.cache
    <3>1. /\ b.addr % 2 = 1 /\ t0 % 2 = 0 /\ readCache' = RowsAt(fin, b)[t0] /\ rightSft' = rightSft
          /\ c = t0 \div 2
      BY <1>5, <1>6, <1>7, <1>9, <2>1
    <3>2. Shifted(b, p, c)'
      BY <1>4, <1>6, <3>1 DEF Shifted
    <3>3. z \div 2 = c /\ z - 1 = t0
      BY <2>0, <3>1
    <3>4. Aligned(fin, b, c, z)'
      BY <3>1, <3>3 DEF Aligned
    <3> QED  BY <2>0, <3>2, <3>4
  <2>2. CASE ~v.cache
    <3> PICK w : w = IF v.offset = 0 THEN res ELSE <<readCache[2], res[1]>>
      OBVIOUS
    <3>1. readCache' = readCache /\ rightSft' = Append(rightSft, w)
      BY <1>6, <2>2
    <3>2. c < b.words /\ (b.addr % 2 = 1 => t0 % 2 = 1)
      <4>1. t0 \in Nat /\ t2 \in Nat
        BY <1>4
      <4>2. b.addr % 2 = 1 => t0 % 2 = 1
        <5>1. b.addr % 2 = 1 => ~(t0 % 2 = 0)
          BY <1>9, <2>2
        <5> QED  BY <4>1, <5>1
      <4> QED  BY ONLY <1>5, <1>8, <4>1, <4>2
    <3>3. w = WordsAt(latest, b)[c]
      <4>1. CASE b.addr % 2 = 0
        <5>1. w = res /\ c = t0
          BY <1>5, <1>9, <4>1
        <5>2. RowsAt(fin, b)[c] = WordsAt(Logical(fin), b)[c]
          BY <1>10, <2>0, <3>2, <4>1, EvenRow
        <5> QED  BY <1>7, <1>10, <5>1, <5>2, Zenon
      <4>2. CASE b.addr % 2 = 1
        <5>1. w = <<readCache[2], res[1]>> /\ t0 % 2 = 1 /\ c = t0 \div 2
          BY <1>5, <1>9, <3>2, <4>2
        <5>2. readCache = RowsAt(fin, b)[t0 - 1]
          BY <2>0, <4>2, <5>1 DEF Aligned
        <5>3. <<RowsAt(fin, b)[t0 - 1][2], RowsAt(fin, b)[t0][1]>> = WordsAt(Logical(fin), b)[c]
          BY <1>10, <2>0, <3>2, <4>2, <5>1, WordShifted
        <5> QED  BY <1>7, <1>10, <5>1, <5>2, <5>3, Zenon
      <4> QED  BY <1>5, <4>1, <4>2
    <3>4. w \in Words
      <4>1. WordsAt(latest, b)[c] \in Words
        BY <1>10, <2>0, <3>2, WordIs
      <4> QED  BY <3>3, <4>1, Zenon
    <3>5. Shifted(b, p, c + 1)'
      <4>1. c \in Nat /\ p \in Nat /\ Counted(Words, rightSft, p, c, WordsAt(latest, b))
        BY <1>4 DEF Shifted
      <4>2. Counted(Words, Append(rightSft, w), p, c + 1, WordsAt(latest, b))
        BY <3>3, <3>4, <4>1, CountedMore, Zenon
      <4>3. Counted(Words, rightSft', p, c + 1, WordsAt(latest', b))
        BY <1>6, <3>1, <4>2, Zenon
      <4> QED  BY <4>3 DEF Shifted
    <3>6. Aligned(fin, b, c + 1, z)'
      <4>1. /\ b.addr % 2 = 1 => c + 1 = z \div 2 /\ z % 2 = 0
            /\ b.addr % 2 = 0 => c + 1 = z
        BY <1>5, <2>0, <3>2
      <4> QED  BY <4>1 DEF Aligned
    <3> QED  BY <2>0, <3>5, <3>6
  <2> QED  BY <2>1, <2>2
<1>13. PICK n \in Nat : Shifted(b, p, n)' /\ Aligned(fin, b, n, z)'
  BY <1>12
<1>14. NoReads' /\ Promised(i, b, rest, d)' /\ Passing(i, b, d, p)' /\ AskingFor(b, y)'
  BY <1>4, <1>6 DEF NoReads, Promised, Expects, Passing, AskingFor
<1>15. Fetched(fin, b, s, t1)' /\ Lined(wc, b, t2, x)'
  BY <1>4, <1>6 DEF Fetched, Lined
<1>16. Reading(fin, wc, rq, rc, i, b, rest, d, p, n, z, s, t1, t2, x, y)'
  BY <1>4, <1>11, <1>13, <1>14, <1>15 DEF Reading
<1>17. Behind(fin, wq, wc, rq, rc, half)'
  <2>1. UNCHANGED behindVars
    BY DEF recvRead, behindVars
  <2> QED  BY <1>2, <2>1, BehindKept
<1>18. AllGiven(fin, e)'
  <2>1. UNCHANGED writeSideVars
    BY DEF recvRead, clientVars, cntVars, relayVars, burstVars, ghostVars, writeSideVars
  <2> QED  BY <1>3, <2>1, AllGivenKept
<1>19. Typed' /\ curWriteCnt' = 0
  <2>1. UNCHANGED typedVars
    BY DEF recvRead, clientVars, cntVars, relayVars, burstVars, ghostVars, typedVars
  <2> QED  BY <1>1, <1>6, <2>1, TypedKept
<1> QED  BY <1>16, <1>17, <1>18, <1>19, ReadingAgain

-----------------------------------------------------------------------------
(* The start, and steps that change nothing.                               *)
LEMMA BurstInit ==
  ASSUME DramInit
  PROVE  BurstInv
<1> PICK m : m = ddr3
  OBVIOUS
<1>1. m \in Mem /\ ddr3 = m /\ latest = m /\ \A h \in Halves : m[h] = 0
  BY DEF DramInit, Mem, Halves
<1>2. Logical(m) = latest
  <2>1. \A h \in Halves : m[addrReMapping(h)] = 0
    BY <1>1, RemapIn
  <2>2. Logical(m) = [h \in Halves |-> 0]
    BY <2>1 DEF Logical
  <2>3. latest = [h \in Halves |-> 0]
    BY DEF DramInit, Halves
  <2> QED  BY <2>2, <2>3
<1>3. Typed
  <2>1. /\ [j \in Writers |-> <<>>] \in [Writers -> Seq(Words)]
        /\ [i \in Readers |-> <<>>] \in [Readers -> Seq(Words)] /\ <<>> \in Seq(Words)
    OBVIOUS
  <2>2. Idle \in Part /\ Idle.left = 0
    BY DEF Idle, Part
  <2>3. /\ writerM \in [Writers -> Seq(Words)] /\ writerdQ \in Seq(Words)
        /\ readerQs \in [Readers -> Seq(Words)] /\ expected \in [Readers -> Seq(Words)]
    BY <2>1, Zenon DEF DramInit
  <2>4. /\ owed \in [Writers -> Part] /\ written \in Nat /\ latest \in Mem
        /\ readCur \in Part /\ writeCur \in Part
        /\ curReadCnt \in Nat /\ curWriteCnt \in Nat /\ nextRow \in BOOLEAN
    BY <1>1, <2>2 DEF DramInit
  <2>5. Len(writerdQ) <= SyncFifo /\ writeCur.left = curWriteCnt
    <3>1. SyncFifo \in Nat
      BY DramAssumption
    <3> QED  BY <2>2, <3>1 DEF DramInit
  <2> QED  BY <2>3, <2>4, <2>5 DEF Typed, BurstTypes
<1>4. Behind(m, <<>>, <<>>, <<>>, <<>>, FALSE)
  <2>1. Backed(m, <<>>, <<>>, FALSE, m)
    BY <1>1, BackedStart
  <2>2. /\ reqs = <<>> \o <<>> /\ cmdQ = <<>> \o <<>> /\ nextRow = FALSE
        /\ <<>> \in Seq(ReadRows) /\ <<>> \in Seq(ReadCmds)
    BY DEF DramInit
  <2> QED  BY <1>1, <2>1, <2>2, Zenon DEF Behind
<1>5. AllGiven(m, 0)
  <2>1. Giving(<<>>, 0, latest, 0, latest)
    BY <1>1, GivingNone
  <2>2. writeCur.addr = 0 /\ writerdQ = <<>> /\ curWriteCnt = 0
    BY DEF DramInit, Idle
  <2>3. Giving(writerdQ, writeCur.addr, Logical(m), 0, latest)
    BY <1>2, <2>1, <2>2, Zenon
  <2>4. \A l \in Writers : owed[l].left = 0
    BY DEF DramInit, Idle
  <2>5. NoWrites /\ writerM = [l \in Writers |-> <<>>]
    BY DEF DramInit, NoWrites
  <2> QED  BY <2>2, <2>3, <2>4, <2>5 DEF AllGiven
<1>6. Phase(m, <<>>, <<>>, <<>>)
  <2>1. WriteSide(m, 0)
    BY <1>5, Zenon DEF WriteSide
  <2>2. NoReads /\ PipeIdle /\ expected = readerQs /\ curCnt = 0
    BY DEF DramInit, NoReads, PipeIdle, Idle
  <2> QED  BY <2>1, <2>2 DEF Phase
<1> QED  BY <1>3, <1>4, <1>6, Zenon DEF BurstInv

LEMMA StutterKeeps ==
  ASSUME BurstInv, UNCHANGED dramVars
  PROVE  BurstInv'
<1>1. UNCHANGED typedVars /\ UNCHANGED behindVars /\ UNCHANGED readSideVars /\ UNCHANGED writeSideVars
  BY DEF dramVars, clientVars, cntVars, relayVars, burstVars, rowVars, ghostVars,
         typedVars, behindVars, readSideVars, writeSideVars
<1>2. Typed
  BY DEF BurstInv
<1>3. Typed'
  BY <1>1, <1>2, TypedKept
<1>4. PICK fin, wq, wc, rq, rc, half : Behind(fin, wq, wc, rq, rc, half) /\ Phase(fin, wc, rq, rc)
  BY DEF BurstInv
<1>5. Behind(fin, wq, wc, rq, rc, half)'
  BY <1>1, <1>4, BehindKept
<1>6. Phase(fin, wc, rq, rc)'
  <2>1. nextRow' /\ wc = <<>> <=> nextRow /\ wc = <<>>
    BY <1>1 DEF behindVars
  <2> QED  BY <1>1, <1>4, <2>1, PhaseKept
<1> QED  BY <1>3, <1>5, <1>6, Zenon DEF BurstInv

LEMMA BurstNext ==
  ASSUME BurstInv, BurstsFit, WritesFill, [DramNext]_dramVars
  PROVE  BurstInv'
<1>1. CASE UNCHANGED dramVars
  BY <1>1, StutterKeeps
<1>2. CASE Clients
  <2>1. ASSUME NEW i \in Readers, read(i) PROVE BurstInv'
    BY <2>1, ReadKeeps
  <2>2. ASSUME NEW i \in Readers, NEW b \in ReadBursts, readReq(i, b) PROVE BurstInv'
    BY <2>2, ReadReqKeeps
  <2>3. ASSUME NEW j \in Writers, write(j) PROVE BurstInv'
    BY <2>3, WriteKeeps
  <2>4. ASSUME NEW j \in Writers, NEW b \in WriteBursts, writeReq(j, b) PROVE BurstInv'
    BY <2>4, WriteReqKeeps
  <2> QED  BY <1>2, <2>1, <2>2, <2>3, <2>4, Zenon DEF Clients
<1>3. CASE DramRules
  <2>1. ASSUME NEW i \in Readers, relayDramRead(i) PROVE BurstInv'
    BY <2>1, RelayDramReadKeeps
  <2>2. ASSUME NEW j \in Writers, relayDramWrite(j) PROVE BurstInv'
    BY <2>2, RelayDramWriteKeeps
  <2>3. ASSUME NEW j \in Writers, relayWriteC(j) PROVE BurstInv'
    BY <2>3, RelayWriteCKeeps
  <2>4. CASE startDramWrite
    BY <2>4, StartDramWriteKeeps
  <2>5. CASE startDramRead
    BY <2>5, StartDramReadKeeps
  <2>6. CASE relayRead
    BY <2>6, RelayReadKeeps
  <2>7. CASE relayReadClient
    BY <2>7, RelayReadClientKeeps
  <2>8. CASE relayWrite
    BY <2>8, RelayWriteKeeps
  <2>9. CASE dramReadReq
    BY <2>9, DramReadReqKeeps
  <2>10. CASE driverWrie
    BY <2>10, DriverWrieKeeps
  <2>11. CASE driverReadC
    BY <2>11, DriverReadCKeeps
  <2>12. CASE relayReqs
    <3>1. CASE Head(reqs).put = NoData
      BY <2>12, <3>1, RelayReqsReadKeeps
    <3>2. CASE Head(reqs).put # NoData
      BY <2>12, <3>2, RelayReqsWriteKeeps
    <3> QED  BY <3>1, <3>2
  <2>13. CASE relayResps2
    BY <2>13, RelayResps2Keeps
  <2>14. CASE recvRead
    BY <2>14, RecvReadKeeps
  <2> QED  BY <1>3, <2>1, <2>2, <2>3, <2>4, <2>5, <2>6, <2>7, <2>8, <2>9, <2>10, <2>11, <2>12,
              <2>13, <2>14, Zenon DEF DramRules
<1> QED  BY <1>1, <1>2, <1>3, Zenon DEF DramNext

(* What the readers have is the start of what they expect.                 *)
LEMMA StartOfJoin ==
  ASSUME NEW q \in Seq(Words), NEW r \in Seq(Words), NEW k \in 1 .. Len(q)
  PROVE  k <= Len(q \o r) /\ q[k] = (q \o r)[k]
OBVIOUS

LEMMA BurstFresh ==
  ASSUME BurstInv
  PROVE  ReadsFresh
<1>1. BurstTypes
  BY DEF BurstInv, Typed
<1>2. \/ expected = readerQs
      \/ \E i \in Readers, rest \in Seq(Words) : expected = [readerQs EXCEPT ![i] = @ \o rest]
  <2>1. PICK fin, wq, wc, rq, rc, half : Behind(fin, wq, wc, rq, rc, half) /\ Phase(fin, wc, rq, rc)
    BY DEF BurstInv
  <2>2. CASE expected = readerQs
    BY <2>2
  <2>3. CASE \E e, i, b, rest : AllGiven(fin, e) /\ ReadWaits(rq, rc, i, b, rest)
    <3>1. PICK e, i, b, rest : AllGiven(fin, e) /\ ReadWaits(rq, rc, i, b, rest)
      BY <2>3
    <3> QED  BY <3>1 DEF ReadWaits, Promised, Expects, Counted
  <2>4. CASE \E e, i, b, rest, d, p, c, t0, s, t1, t2, x, y :
               AllGiven(fin, e) /\ Reading(fin, wc, rq, rc, i, b, rest, d, p, c, t0, s, t1, t2, x, y)
    <3>1. PICK e, i, b, rest, d, p, c, t0, s, t1, t2, x, y :
               AllGiven(fin, e) /\ Reading(fin, wc, rq, rc, i, b, rest, d, p, c, t0, s, t1, t2, x, y)
      BY <2>4
    <3> QED  BY <3>1 DEF Reading, Promised, Expects, Counted
  <2> QED  BY <2>1, <2>2, <2>3, <2>4, Zenon DEF Phase
<1>3. ASSUME NEW l \in Readers, NEW k \in 1 .. Len(readerQs[l])
      PROVE  k <= Len(expected[l]) /\ readerQs[l][k] = expected[l][k]
  <2>0. readerQs[l] \in Seq(Words)
    BY <1>1 DEF BurstTypes
  <2>1. CASE expected = readerQs
    BY <2>0, <2>1
  <2>2. CASE \E i \in Readers, rest \in Seq(Words) : expected = [readerQs EXCEPT ![i] = @ \o rest]
    <3>1. PICK i \in Readers, rest \in Seq(Words) : expected = [readerQs EXCEPT ![i] = @ \o rest]
      BY <2>2
    <3>2. expected[l] = readerQs[l] \/ expected[l] = readerQs[l] \o rest
      BY <1>1, <3>1 DEF BurstTypes
    <3>3. CASE expected[l] = readerQs[l]
      BY <2>0, <3>3
    <3>4. CASE expected[l] = readerQs[l] \o rest
      BY <2>0, <3>4, StartOfJoin
    <3> QED  BY <3>2, <3>3, <3>4
  <2> QED  BY <1>2, <2>1, <2>2
<1> QED  BY <1>3 DEF ReadsFresh

(* A reader of the DRAM gets the words of its own bursts, in order, and    *)
(* each is what was last given for its address when it asked:              *)
(* mkDRAMBurstSplitter lets one client in at a time, the queues are first  *)
(* in, first out, addrReMapping takes no two addresses to one, and the two *)
(* rows of a word at an odd address are joined again.  For bursts that lie *)
(* in the memory, and write bursts longer than writerdQ.                   *)
THEOREM FreshReads ==
  ASSUME BurstsFit, WritesFill
  PROVE  DramSpec => []ReadsFresh
<1>1. DramInit => BurstInv
  BY BurstInit
<1>2. BurstInv /\ [DramNext]_dramVars => BurstInv'
  BY BurstNext
<1>3. BurstInv => ReadsFresh
  BY BurstFresh
<1> QED  BY <1>1, <1>2, <1>3, PTL DEF DramSpec
=============================================================================
